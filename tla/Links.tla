-------------------------------- MODULE Links --------------------------------
(***************************************************************************)
(* What the peers may rely on between each other: per pair of peers a      *)
(* channel that may lose a packet anywhere on its way, and never reorders, *)
(* duplicates or invents one.  Packets of a flow are numbered in the order *)
(* in which they are sent, so that the set of those on their way is as     *)
(* good as the sequence.  Network implements it.                           *)
(***************************************************************************)
EXTENDS Naturals, FiniteSetsExt

CONSTANT Flows      \* pairs <<source, destination>>

VARIABLES
    sent,      \* packets sent, per flow
    inflight,  \* the numbers of those on their way
    last       \* the number of the packet received last, 0 at first

lvars == <<sent, inflight, last>>

Init ==
    /\ sent = [f \in Flows |-> 0]
    /\ inflight = [f \in Flows |-> {}]
    /\ last = [f \in Flows |-> 0]

(* A packet sent is on its way, or lost at once.                           *)
Send(f) ==
    /\ sent' = [sent EXCEPT ![f] = @ + 1]
    /\ inflight' \in {inflight, [inflight EXCEPT ![f] = @ \cup {sent[f] + 1}]}
    /\ UNCHANGED last

Lose(f) ==
    /\ \E n \in inflight[f] : inflight' = [inflight EXCEPT ![f] = @ \ {n}]
    /\ UNCHANGED <<sent, last>>

(* The oldest packet is delivered.                                         *)
Deliver(f) ==
    /\ inflight[f] # {}
    /\ LET n == Min(inflight[f])
       IN  /\ last' = [last EXCEPT ![f] = n]
           /\ inflight' = [inflight EXCEPT ![f] = @ \ {n}]
    /\ UNCHANGED sent

Next == \E f \in Flows : Send(f) \/ Lose(f) \/ Deliver(f)

Spec == Init /\ [][Next]_lvars
=============================================================================
