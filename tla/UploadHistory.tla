--------------------------- MODULE UploadHistory ---------------------------
(***************************************************************************)
(* Upload with a history variable: how many losses peer_cc has been shown  *)
(* for each upload since its last progress.  A loss is shown to it once    *)
(* per iteration of the select loop for each of the two signals, repeated  *)
(* ACKs and the timer.                                                     *)
(***************************************************************************)
EXTENDS Upload

VARIABLE noticed  \* losses shown to peer_cc, per upload

hvars == <<vars, noticed>>

Signals(p) == (IF upload[p].retransmit >= DupLimit THEN 1 ELSE 0)
                  + (IF p \in expired' THEN 1 ELSE 0)

HistoryInit == Init /\ noticed = [p \in Peers |-> 0]

(* Losses are counted when an iteration starts; an upload that is new, or  *)
(* whose receiver has acknowledged something new, starts from zero.        *)
HistoryNext ==
    /\ Next
    /\ noticed' = [p \in Peers |->
          IF p \notin DOMAIN upload \/ p \notin DOMAIN upload' THEN 0
          ELSE IF upload'[p].last_acked > upload[p].last_acked THEN 0
          ELSE IF pc = "select" /\ noticed[p] <= DropLimit
               THEN noticed[p] + Signals(p) ELSE noticed[p]]

HistorySpec == HistoryInit /\ [][HistoryNext]_hvars

(* "After 5 dropped packets or timeouts, the sender quits" (readme.txt:28):*)
(* dropped, which peer_cc compares with its limit, counts losses, each of  *)
(* them once.                                                              *)
StrikesAreLosses ==
    \A p \in DOMAIN upload : upload[p].dropped <= noticed[p]

=============================================================================
