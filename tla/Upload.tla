------------------------------- MODULE Upload -------------------------------
(***************************************************************************)
(* The uploading half of one peer: the sender list of bt_parse.c, the      *)
(* handlers of peer_sender.c (WHOHAS, GET, ACK), the congestion control    *)
(* pass peer_cc of peer.c, and the output queue of queue.c that the select *)
(* loop drains one packet at a time.                                       *)
(*                                                                         *)
(* One iteration of the loop of peer_run is                                *)
(*   Select ; one Cc... step per sender, or more ; PeerPacketOps ;         *)
(*   one Process... step, or Idle.                                         *)
(* Wall-clock time is abstracted to the set of uploads whose five second   *)
(* timer is found to have run out in this iteration.                       *)
(***************************************************************************)
EXTENDS Integers, Sequences, FiniteSets

CONSTANTS
    Peers,        \* the other peers of the peer list file
    Hashes,       \* chunk hashes
    Owned,        \* hashes in the has-chunk-file at start
    Requests,     \* the hash lists a WHOHAS may carry
    NumPackets,   \* DATA packets per chunk (354 in the code)
    SsthreshInit, \* SSTHRESH_INIT, 64 in the code
    DupLimit,     \* repeated ACKs that mean a loss, 2 in the code
    DropLimit,    \* losses a sender survives, 5 in the code
    MaxWindow,    \* bound: no ACK is taken once a window is this large
    MaxQueue      \* bound: no packet is taken while more are queued

ASSUME NumPacketsAssumption == NumPackets \in Nat \ {0}
ASSUME LimitsAssumption ==
    /\ SsthreshInit \in Nat \ {0}
    /\ DupLimit \in Nat \ {0}
    /\ DropLimit \in Nat
    /\ MaxWindow \in Nat
    /\ MaxQueue \in Nat
ASSUME ChunksAssumption == Owned \subseteq Hashes /\ Requests \subseteq Seq(Hashes)

VARIABLES
    pc,        \* where the select loop is
    writable,  \* the socket was reported writable by this select
    expired,   \* uploads whose timer has run out, this iteration
    todo,      \* senders peer_cc still has to pass, this iteration
    upload,    \* config->upload: a sender record per peer uploaded to
    has,       \* the has-chunk-file
    queue      \* the output queue, head first

vars == <<pc, writable, expired, todo, upload, has, queue>>
loop == <<pc, writable, expired, todo>>

-----------------------------------------------------------------------------
(* Packets and sender records.                                             *)

Data(p, h, n) == [type |-> "DATA", to |-> p, hash |-> h, seq |-> n]
Ihave(p, hs)  == [type |-> "IHAVE", to |-> p, hashes |-> hs]

Packet ==
    [type : {"DATA"}, to : Peers, hash : Hashes, seq : 1..NumPackets]
        \cup [type : {"IHAVE"}, to : Peers, hashes : SUBSET Hashes]

Sender ==
    [hash : Hashes, last_acked : 0..NumPackets, last_sent : 0..NumPackets,
     window_size : Nat \ {0}, recvd : Nat, ssthresh : Nat \ {0},
     state : {"start", "avoid"}, retransmit : 0..DupLimit, sent_time : {"never", "set"},
     dropped : 0..DropLimit]

NewSender(h) ==
    [hash |-> h, last_acked |-> 0, last_sent |-> 0, window_size |-> 1,
     recvd |-> 0, ssthresh |-> SsthreshInit, state |-> "start",
     retransmit |-> 0, sent_time |-> "never", dropped |-> 0]

-----------------------------------------------------------------------------
(* packet_sender: queue everything from start up to the window, arm the    *)
(* timer.                                                                  *)

(* Mutant: the window counted from the packet after the first one sent.    *)
SendUpToOneMore(s) ==
    IF s.last_acked + 1 + s.window_size > NumPackets
    THEN NumPackets ELSE s.last_acked + 1 + s.window_size

SendUpTo(s) ==
    IF s.last_acked + s.window_size > NumPackets
    THEN NumPackets ELSE s.last_acked + s.window_size

Burst(p, s) ==
    [i \in 1..(SendUpTo(s) - s.last_acked) |-> Data(p, s.hash, s.last_acked + i)]

(* Mutant: the timer is not armed.                                         *)
SentUntimed(s) == [s EXCEPT !.last_sent = SendUpTo(s)]

Sent(s) == [s EXCEPT !.last_sent = SendUpTo(s), !.sent_time = "set"]

(* The loss signals peer_cc acts on, and the strikes they add up to.       *)

(* Mutant: one repeated ACK too late.                                      *)
LostLate(p) == upload[p].retransmit > DupLimit

Lost(p) == upload[p].retransmit >= DupLimit

InTrouble(p) == Lost(p) \/ p \in expired

Strikes(p) == upload[p].dropped + (IF Lost(p) THEN 1 ELSE 0)
                                + (IF p \in expired THEN 1 ELSE 0)

(* Mutants: no least threshold; strikes are not kept.                      *)
SlowedNoFloor(s, strikes) ==
    [s EXCEPT !.dropped = strikes, !.state = "start",
              !.ssthresh = s.window_size \div 2, !.window_size = 1]

SlowedForgiving(s, strikes) ==
    [s EXCEPT !.state = "start", !.window_size = 1,
              !.ssthresh = IF s.window_size < 4 THEN 2 ELSE s.window_size \div 2]

Slowed(s, strikes) ==
    [s EXCEPT !.dropped = strikes,
              !.state = "start",
              !.ssthresh = IF s.window_size \div 2 < 2 THEN 2
                                                       ELSE s.window_size \div 2,
              !.window_size = 1]

(* What an ACK does to the sender: the cumulative part, then the window.   *)

(* Mutants: an old ACK moves the sender back; progress disarms the timer.  *)
AckedAny(s, n) ==
    IF s.last_acked = n THEN [s EXCEPT !.retransmit = @ + 1]
    ELSE [s EXCEPT !.last_acked = n, !.retransmit = 0, !.dropped = 0]

AckedDisarms(s, n) ==
    IF s.last_acked = n THEN [s EXCEPT !.retransmit = @ + 1]
    ELSE IF s.last_acked < n
         THEN [s EXCEPT !.last_acked = n, !.retransmit = 0, !.dropped = 0,
                        !.sent_time = "never"]
         ELSE s

Acked(s, n) ==
    IF s.last_acked = n THEN [s EXCEPT !.retransmit = @ + 1]
    ELSE IF s.last_acked < n
         THEN [s EXCEPT !.last_acked = n, !.retransmit = 0, !.dropped = 0]
         ELSE s

Grown(s) ==
    IF s.state = "start"
    THEN [s EXCEPT !.window_size = @ + 1,
                   !.state = IF s.window_size + 1 > s.ssthresh THEN "avoid" ELSE "start"]
    ELSE IF s.recvd + 1 = s.window_size
         THEN [s EXCEPT !.window_size = @ + 1, !.recvd = 0]
         ELSE [s EXCEPT !.recvd = @ + 1]

(* The hashes process_whohas reports.  The list it hands to send_ihave is  *)
(* only hooked up at the first hash of the request, so it is empty unless  *)
(* that one is owned.  (Order and repetition in an IHAVE mean nothing to   *)
(* its receiver: it carries a set.)                                        *)
Reported(req) ==
    IF req # <<>> /\ req[1] \in has THEN {req[i] : i \in DOMAIN req} \cap has ELSE {}

Without(p) == [q \in DOMAIN upload \ {p} |-> upload[q]]

-----------------------------------------------------------------------------
Init ==
    /\ pc = "select"
    /\ writable = FALSE
    /\ expired = {}
    /\ todo = {}
    /\ upload = [p \in {} |-> NewSender(CHOOSE h \in Hashes : TRUE)]
    /\ has = Owned
    /\ queue = <<>>

(* select() returns: perhaps with the socket writable (asked for only when *)
(* something was queued), after any lapse of time.                         *)
Select ==
    /\ pc = "select"
    /\ pc' = "cc"
    /\ writable' \in {FALSE, queue # <<>>}
    /\ expired' \in SUBSET {p \in DOMAIN upload : upload[p].sent_time = "set"}
    /\ todo' = DOMAIN upload
    /\ UNCHANGED <<upload, has, queue>>

(* peer_cc, one turn of its while loop for the sender of peer p.  Turns of *)
(* different senders touch disjoint records, so their order is left open.  *)

(* Mutant: the loop goes on with the sender it has just freed.             *)
CcFinishedStays(p) ==
    /\ pc = "cc" /\ p \in todo
    /\ upload[p].last_acked = NumPackets
    /\ upload' = Without(p)
    /\ expired' = expired \ {p}
    /\ UNCHANGED <<pc, writable, todo, has, queue>>

(* Mutant: an upload is only found finished when its timer has run out.     *)
CcFinishedLate(p) ==
    /\ pc = "cc" /\ p \in todo
    /\ upload[p].last_acked = NumPackets
    /\ todo' = todo \ {p}
    /\ upload' = IF p \in expired THEN Without(p) ELSE upload
    /\ expired' = expired \ {p}
    /\ UNCHANGED <<pc, writable, has, queue>>

CcFinished(p) ==
    /\ pc = "cc" /\ p \in todo
    /\ upload[p].last_acked = NumPackets
    /\ upload' = Without(p)
    /\ todo' = todo \ {p}
    /\ expired' = expired \ {p}
    /\ UNCHANGED <<pc, writable, has, queue>>

(* Mutant: the last strike allowed is one too many.                        *)
CcDeadEarly(p) ==
    /\ pc = "cc" /\ p \in todo
    /\ upload[p].last_acked # NumPackets
    /\ Strikes(p) >= DropLimit
    /\ upload' = Without(p)
    /\ todo' = todo \ {p}
    /\ expired' = expired \ {p}
    /\ UNCHANGED <<pc, writable, has, queue>>

CcDead(p) ==
    /\ pc = "cc" /\ p \in todo
    /\ upload[p].last_acked # NumPackets
    /\ Strikes(p) > DropLimit
    /\ upload' = Without(p)
    /\ todo' = todo \ {p}
    /\ expired' = expired \ {p}
    /\ UNCHANGED <<pc, writable, has, queue>>

(* Back off and resend from the first unacknowledged packet.  The loop     *)
(* continues with the same sender: p stays in todo, its timer is fresh but *)
(* its count of repeated ACKs is not cleared.                              *)
CcBackoff(p) ==
    /\ pc = "cc" /\ p \in todo
    /\ upload[p].last_acked # NumPackets
    /\ InTrouble(p)
    /\ Strikes(p) <= DropLimit
    /\ LET s == Slowed(upload[p], Strikes(p))
       IN  /\ upload' = [upload EXCEPT ![p] = Sent(s)]
           /\ queue' = queue \o Burst(p, s)
    /\ expired' = expired \ {p}
    /\ UNCHANGED <<pc, writable, todo, has>>

CcSend(p) ==
    /\ pc = "cc" /\ p \in todo
    /\ upload[p].last_acked # NumPackets
    /\ ~InTrouble(p)
    /\ upload[p].last_acked = upload[p].last_sent
    /\ upload' = [upload EXCEPT ![p] = Sent(upload[p])]
    /\ queue' = queue \o Burst(p, upload[p])
    /\ todo' = todo \ {p}
    /\ UNCHANGED <<pc, writable, expired, has>>

CcKeep(p) ==
    /\ pc = "cc" /\ p \in todo
    /\ upload[p].last_acked # NumPackets
    /\ ~InTrouble(p)
    /\ upload[p].last_acked # upload[p].last_sent
    /\ todo' = todo \ {p}
    /\ UNCHANGED <<pc, writable, expired, upload, has, queue>>

(* One queued packet goes to the socket; a failed sendto loses it too.     *)
PeerPacketOps ==
    /\ pc = "cc" /\ todo = {}
    /\ pc' = "recv"
    /\ queue' = IF writable THEN Tail(queue) ELSE queue
    /\ writable' = FALSE
    /\ UNCHANGED <<expired, todo, upload, has>>

-----------------------------------------------------------------------------
(* The packet handlers, at most one per iteration.                         *)

Receiving == pc = "recv" /\ Len(queue) <= MaxQueue

ProcessWhohas(p, req) ==
    /\ Receiving
    /\ queue' = IF Reported(req) = {} THEN queue
                                        ELSE Append(queue, Ihave(p, Reported(req)))
    /\ pc' = "select"
    /\ UNCHANGED <<writable, expired, todo, upload, has>>

ProcessGet(p, h) ==
    /\ Receiving
    /\ p \notin DOMAIN upload
    /\ h \in has
    /\ upload' = [q \in DOMAIN upload \cup {p} |->
                      IF q = p THEN NewSender(h) ELSE upload[q]]
    /\ pc' = "select"
    /\ UNCHANGED <<writable, expired, todo, has, queue>>

ProcessAck(p, n) ==
    /\ Receiving
    /\ p \in DOMAIN upload
    /\ upload[p].window_size < MaxWindow /\ upload[p].recvd < MaxWindow
    /\ upload' = [upload EXCEPT ![p] = Grown(Acked(upload[p], n))]
    /\ pc' = "select"
    /\ UNCHANGED <<writable, expired, todo, has, queue>>

(* The downloading half of this peer finished chunk h and appended it to   *)
(* the has-chunk-file (finish_chunk).                                      *)
LearnChunk(h) ==
    /\ Receiving
    /\ has' = has \cup {h}
    /\ pc' = "select"
    /\ UNCHANGED <<writable, expired, todo, upload, queue>>

(* No packet, or one that is thrown out: malformed, from a peer without an *)
(* upload, a GET while uploading or for a chunk that cannot be read.       *)
Idle ==
    /\ pc = "recv"
    /\ pc' = "select"
    /\ UNCHANGED <<writable, expired, todo, upload, has, queue>>

-----------------------------------------------------------------------------
Cc(p) == CcFinished(p) \/ CcDead(p) \/ CcBackoff(p) \/ CcSend(p) \/ CcKeep(p)

Receive ==
    \/ \E p \in Peers, req \in Requests : ProcessWhohas(p, req)
    \/ \E p \in Peers, h \in Hashes : ProcessGet(p, h)
    \/ \E p \in Peers, n \in 0..NumPackets : ProcessAck(p, n)
    \/ \E h \in Hashes : LearnChunk(h)
    \/ Idle

Next ==
    \/ Select
    \/ \E p \in Peers : Cc(p)
    \/ PeerPacketOps
    \/ Receive

Spec == Init /\ [][Next]_vars

(* The loop never blocks (select has a 100 ms limit), and a timer that is  *)
(* armed and not re-armed is sooner or later found to have run out.        *)
Runs == WF_vars(Next) /\ \A p \in Peers : SF_vars(Select /\ p \in expired')

LiveSpec == Spec /\ Runs

-----------------------------------------------------------------------------
(* Every variable has its type; a writable socket has something to write,  *)
(* the senders left to pass are on the list, and only an armed timer has   *)
(* run out (peer_run and peer_cc of peer.c).                               *)
TypeOK ==
    /\ pc \in {"select", "cc", "recv"}
    /\ writable \in BOOLEAN
    /\ DOMAIN upload \subseteq Peers
    /\ upload \in [DOMAIN upload -> Sender]
    /\ expired \subseteq DOMAIN upload
    /\ todo \subseteq DOMAIN upload
    /\ has \subseteq Hashes
    /\ queue \in Seq(Packet)
    /\ writable => queue # <<>>

(* No upload is left without a timer: once peer_cc has passed a sender,    *)
(* its timer is armed, so a receiver that goes silent is always noticed    *)
(* (peer.c:251, the timeout test is skipped while sent_time is zero).      *)
TimerCovers ==
    \A p \in DOMAIN upload :
        (pc = "recv" \/ (pc = "cc" /\ p \notin todo)) => upload[p].sent_time = "set"

(* A sender whose timer was never armed has sent nothing and heard nothing *)
(* back, so peer_cc sends its first burst in its first pass and does not   *)
(* skip it as having packets outstanding (peer.c:277).                     *)
NeverSentIsFresh ==
    \A p \in DOMAIN upload :
        upload[p].sent_time = "never" => upload[p].last_acked = upload[p].last_sent

(* Repeated ACKs are dealt with at once: a sender peer_cc has passed is    *)
(* below the limit again, so process_ack cannot run its char counter on    *)
(* (peer.c:243-274, peer_sender.c:288).                                    *)
RepeatsHandled ==
    \A p \in DOMAIN upload :
        (pc = "recv" \/ (pc = "cc" /\ p \notin todo)) =>
            upload[p].retransmit < DupLimit

(* Flow control: whatever mixture of bursts, back-offs, repeated and old   *)
(* ACKs, never more packets are outstanding than the window allows         *)
(* (packet_sender and process_ack).                                        *)
InFlightWithinWindow ==
    \A p \in DOMAIN upload :
        upload[p].last_sent <= upload[p].last_acked + upload[p].window_size

(* Slow start is left exactly when the window has passed the threshold,    *)
(* and a back-off re-enters it below the threshold (peer.c:266-270,        *)
(* peer_sender.c:302-306).                                                 *)
SlowStartBelowThreshold ==
    \A p \in DOMAIN upload :
        upload[p].state = "start" <=> upload[p].window_size <= upload[p].ssthresh

(* An upload is only ever dropped because everything was acknowledged, or  *)
(* because peer_cc counted more losses than DropLimit since the last       *)
(* progress (peer.c:233, 257); no handler drops one.                       *)
QuitsForAReason ==
    [][\A p \in DOMAIN upload \ DOMAIN upload' :
          \/ upload[p].last_acked = NumPackets
          \/ InTrouble(p) /\ Strikes(p) > DropLimit]_vars

(* Acknowledged means acknowledged: within one upload last_acked never     *)
(* goes back, whatever order ACKs arrive in, and a strike is only forgiven *)
(* when it advances (process_ack, peer_sender.c:288-299).                  *)
ProgressIsKept ==
    [][\A p \in DOMAIN upload \cap DOMAIN upload' :
          /\ upload'[p].last_acked >= upload[p].last_acked
          /\ upload'[p].dropped < upload[p].dropped =>
                upload'[p].last_acked > upload[p].last_acked]_vars

(* No upload lives for ever: it is completed, or its receiver is given up  *)
(* on, even if ACKs that acknowledge nothing new keep coming in (peer_cc). *)
UploadsEnd ==
    \A p \in Peers : p \in DOMAIN upload ~> p \notin DOMAIN upload

=============================================================================
