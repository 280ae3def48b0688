-------------------------------- MODULE Fetch --------------------------------
(***************************************************************************)
(* What the downloading half promises, without packets, timers, counters   *)
(* or pointers: the chunks of a file the user asked for are each missing,  *)
(* being fetched from one peer, or held; a peer is asked for one chunk at  *)
(* a time; a chunk held stays held, and is recorded as owned; and the user *)
(* is told GOT exactly when all are held.  Download implements it.         *)
(***************************************************************************)
EXTENDS Naturals, Sequences

CONSTANTS Peers, NoPeer, Hashes, Owned, GetFiles

VARIABLES
    list,  \* the chunks asked for: hash, whether held, whom it comes from
    has,   \* the hashes this peer owns
    got    \* times the user was told GOT

fvars == <<list, has, got>>

Asked(file) ==
    [i \in DOMAIN file |-> [hash |-> file[i], held |-> file[i] \in has, from |-> NoPeer]]

AllHeld(l) == \A i \in DOMAIN l : l[i].held

Idle(p) == \A i \in DOMAIN list : list[i].from # p

(* The list has become l.  When all is held the user is told and the list  *)
(* is dropped, unless the output file cannot be written.                   *)
Settle(l) ==
    \/ list' = l /\ UNCHANGED got
    \/ AllHeld(l) /\ list' = <<>> /\ got' = got + 1

Init == list = <<>> /\ has = Owned /\ got = 0

Ask(file) ==
    /\ list = <<>>
    /\ Settle(Asked(file))
    /\ UNCHANGED has

Begin(i, p) ==
    /\ ~list[i].held /\ list[i].from = NoPeer /\ Idle(p)
    /\ list' = [list EXCEPT ![i].from = p]
    /\ UNCHANGED <<has, got>>

(* Sources gone silent, or a chunk that came wrong.                        *)
GiveUp(S) ==
    /\ \A i \in S : list[i].from # NoPeer
    /\ list' = [i \in DOMAIN list |-> IF i \in S THEN [list[i] EXCEPT !.from = NoPeer]
                                                 ELSE list[i]]
    /\ UNCHANGED <<has, got>>

Hold(i) ==
    /\ list[i].from # NoPeer
    /\ has' = has \cup {list[i].hash}
    /\ Settle([list EXCEPT ![i].from = NoPeer, ![i].held = TRUE])

Next ==
    \/ \E file \in GetFiles : Ask(file)
    \/ \E i \in DOMAIN list, p \in Peers : Begin(i, p)
    \/ \E S \in SUBSET DOMAIN list : GiveUp(S)
    \/ \E i \in DOMAIN list : Hold(i)

Spec == Init /\ [][Next]_fvars
=============================================================================
