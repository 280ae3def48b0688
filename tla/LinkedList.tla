------------------------------ MODULE LinkedList ------------------------------
(***************************************************************************)
(* Lists in the heap: what is reached from an address by following the     *)
(* links, as the loops over queue.c's packets and over the uploads do.     *)
(***************************************************************************)
EXTENDS Naturals, Sequences, FiniteSets

CONSTANTS
    Addresses,   \* where malloc may put a cell of the list
    NULL

LinkedListAssumption == NULL \notin Addresses /\ IsFiniteSet(Addresses)

Pointer == Addresses \cup {NULL}

(* The addresses from p on, next giving the one after each.  A list that   *)
(* runs in a circle is cut.                                                *)
Chain(next, p) ==
    LET at[k \in 0..Cardinality(Addresses)] ==
            IF k = 0 THEN p
            ELSE IF at[k - 1] = NULL THEN NULL ELSE next[at[k - 1]]
    IN  [k \in 1..Cardinality({j \in 0..(Cardinality(Addresses) - 1) : at[j] # NULL}) |->
            at[k - 1]]
=============================================================================
