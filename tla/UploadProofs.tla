---------------------------- MODULE UploadProofs ----------------------------
(***************************************************************************)
(* The invariants of Upload, proved for any peers, chunk size and limits.  *)
(* IInv is inductive: the type of retransmit needs RepeatsHandled, because *)
(* process_ack counts on without looking at the limit, and TimerCovers     *)
(* needs NeverSentIsFresh, because peer_cc arms the timer only when it     *)
(* sends.                                                                  *)
(***************************************************************************)
EXTENDS Upload, SequenceTheorems, TLAPS

IInv ==
    /\ TypeOK
    /\ TimerCovers
    /\ NeverSentIsFresh
    /\ RepeatsHandled
    /\ InFlightWithinWindow
    /\ SlowStartBelowThreshold

USE NumPacketsAssumption, LimitsAssumption DEF NumPacketsAssumption, LimitsAssumption

(* A fresh sender is a sender with every per-sender invariant.             *)
LEMMA NewSenderOK ==
    ASSUME NEW h \in Hashes
    PROVE  /\ NewSender(h) \in Sender
           /\ NewSender(h).last_sent <= NewSender(h).last_acked + NewSender(h).window_size
           /\ NewSender(h).state = "start" <=> NewSender(h).window_size <= NewSender(h).ssthresh
           /\ NewSender(h).retransmit < DupLimit
           /\ NewSender(h).last_acked = NewSender(h).last_sent
BY SMT DEF NewSender, Sender

(* packet_sender keeps a sender a sender, arms it, and queues only packets *)
(* of the chunk, at most a window of them.                                 *)
LEMMA SentOK ==
    ASSUME NEW s \in Sender
    PROVE  /\ Sent(s) \in Sender
           /\ Sent(s).sent_time = "set"
           /\ Sent(s).last_sent <= Sent(s).last_acked + Sent(s).window_size
           /\ Sent(s).retransmit = s.retransmit /\ Sent(s).state = s.state
           /\ Sent(s).window_size = s.window_size /\ Sent(s).ssthresh = s.ssthresh
<1>1. PICK k \in 0..NumPackets : k = SendUpTo(s) /\ k <= s.last_acked + s.window_size
  <2>1. SendUpTo(s) \in 0..NumPackets /\ SendUpTo(s) <= s.last_acked + s.window_size
    BY SMT DEF SendUpTo, Sender
  <2> QED BY <2>1
<1>2. Sent(s) = [s EXCEPT !.last_sent = k, !.sent_time = "set"]
  BY <1>1, Zenon DEF Sent
<1>3. [s EXCEPT !.last_sent = k, !.sent_time = "set"] \in Sender
  BY Zenon DEF Sender
<1>4. /\ Sent(s).sent_time = "set" /\ Sent(s).last_sent = k
      /\ Sent(s).last_acked = s.last_acked /\ Sent(s).window_size = s.window_size
      /\ Sent(s).retransmit = s.retransmit /\ Sent(s).state = s.state
      /\ Sent(s).ssthresh = s.ssthresh
  BY <1>2, Zenon DEF Sender
<1> QED BY <1>1, <1>2, <1>3, <1>4

(* A burst is a sequence of well-formed DATA packets.                      *)
LEMMA BurstOK ==
    ASSUME NEW s \in Sender, NEW p \in Peers
    PROVE  Burst(p, s) \in Seq(Packet)
<1> DEFINE n == SendUpTo(s) - s.last_acked
<1>1. n \in Nat /\ s.last_acked + n <= NumPackets /\ s.last_acked \in Nat
  BY SMT DEF SendUpTo, Sender
<1>2. \A i \in 1..n : Data(p, s.hash, s.last_acked + i) \in Packet
  BY <1>1, SMT DEF Data, Packet, Sender
<1>3. [i \in 1..n |-> Data(p, s.hash, s.last_acked + i)] \in Seq(Packet)
  BY <1>1, <1>2, SMT
<1> QED BY <1>3 DEF Burst

(* A back-off re-enters slow start, below the threshold.                   *)
LEMMA SlowedOK ==
    ASSUME NEW s \in Sender, NEW k \in 0..DropLimit
    PROVE  /\ Slowed(s, k) \in Sender
           /\ Slowed(s, k).state = "start"
           /\ Slowed(s, k).window_size <= Slowed(s, k).ssthresh
           /\ Slowed(s, k).last_acked = s.last_acked
<1>1. PICK w \in Nat \ {0} :
          /\ w = IF s.window_size \div 2 < 2 THEN 2 ELSE s.window_size \div 2
          /\ 1 <= w
  <2> DEFINE v == IF s.window_size \div 2 < 2 THEN 2 ELSE s.window_size \div 2
  <2>1. s.window_size \div 2 \in Nat
    BY SMT DEF Sender
  <2>2. v \in Nat \ {0} /\ 1 <= v
    BY <2>1, SMT
  <2> QED BY <2>2
<1>0. 1 \in Nat \ {0}
  OBVIOUS
<1>2. Slowed(s, k) = [s EXCEPT !.dropped = k, !.state = "start", !.ssthresh = w,
                               !.window_size = 1]
  BY <1>1, Zenon DEF Slowed
<1>3. [s EXCEPT !.dropped = k, !.state = "start", !.ssthresh = w,
                !.window_size = 1] \in Sender
  BY <1>0, Zenon DEF Sender
<1>4. /\ Slowed(s, k).state = "start" /\ Slowed(s, k).window_size = 1
      /\ Slowed(s, k).ssthresh = w /\ Slowed(s, k).last_acked = s.last_acked
  BY <1>2, Zenon DEF Sender
<1> QED BY <1>1, <1>2, <1>3, <1>4

(* What an ACK never touches. *)
SameBut(s, t) ==
    /\ t.last_sent = s.last_sent /\ t.window_size = s.window_size
    /\ t.state = s.state /\ t.ssthresh = s.ssthresh
    /\ t.sent_time = s.sent_time

(* An ACK below the limit of repeats moves a sender to a sender and keeps  *)
(* flow control and the slow start threshold.                              *)
LEMMA AckOK ==
    ASSUME NEW s \in Sender, NEW n \in 0..NumPackets,
           s.retransmit < DupLimit,
           s.last_sent <= s.last_acked + s.window_size,
           s.state = "start" <=> s.window_size <= s.ssthresh
    PROVE  LET t == Grown(Acked(s, n))
           IN  /\ t \in Sender
               /\ t.last_sent <= t.last_acked + t.window_size
               /\ t.state = "start" <=> t.window_size <= t.ssthresh
               /\ t.last_acked >= s.last_acked
               /\ t.dropped < s.dropped => t.last_acked > s.last_acked
               /\ t.sent_time = s.sent_time
<1>1. /\ Acked(s, n) \in Sender
      /\ Acked(s, n).last_acked >= s.last_acked
      /\ Acked(s, n).last_sent = s.last_sent
      /\ Acked(s, n).window_size = s.window_size
      /\ Acked(s, n).state = s.state /\ Acked(s, n).ssthresh = s.ssthresh
      /\ Acked(s, n).sent_time = s.sent_time
      /\ Acked(s, n).dropped < s.dropped => Acked(s, n).last_acked > s.last_acked
  <2>1. CASE s.last_acked = n
    <3>1. PICK k \in 0..DupLimit : k = s.retransmit + 1
      BY SMT DEF Sender
    <3>2. Acked(s, n) = [s EXCEPT !.retransmit = k]
      BY <2>1, <3>1, Zenon DEF Acked
    <3>3. [s EXCEPT !.retransmit = k] \in Sender
      BY SMT DEF Sender
    <3>4. SameBut(s, Acked(s, n)) /\ Acked(s, n).last_acked = s.last_acked
                                 /\ Acked(s, n).dropped = s.dropped
      BY <3>2, Zenon DEF Sender, SameBut
    <3> QED BY <3>2, <3>3, <3>4, SMT DEF Sender, SameBut
  <2>2. CASE s.last_acked < n
    <3>0. 0 \in 0..DupLimit /\ 0 \in 0..DropLimit
      BY SMT
    <3>1. s.last_acked # n
      BY <2>2, SMT DEF Sender
    <3>2. Acked(s, n) = [s EXCEPT !.last_acked = n, !.retransmit = 0, !.dropped = 0]
      BY <2>2, <3>1, Zenon DEF Acked
    <3>3. [s EXCEPT !.last_acked = n, !.retransmit = 0, !.dropped = 0] \in Sender
      BY <3>0, Zenon DEF Sender
    <3>4. SameBut(s, Acked(s, n)) /\ Acked(s, n).last_acked = n
      BY <3>2, Zenon DEF Sender, SameBut
    <3> QED BY <2>2, <3>2, <3>3, <3>4, SMT DEF Sender, SameBut
  <2>3. CASE s.last_acked > n
    <3>1. Acked(s, n) = s
      BY <2>3, SMT DEF Acked, Sender
    <3> QED BY <3>1, SMT DEF Sender
  <2> QED BY <2>1, <2>2, <2>3, SMT DEF Sender
<1>2. PICK a \in Sender : a = Acked(s, n)
  BY <1>1
<1>3. /\ Grown(a) \in Sender
      /\ Grown(a).last_sent = a.last_sent /\ Grown(a).last_acked = a.last_acked
      /\ Grown(a).dropped = a.dropped /\ Grown(a).sent_time = a.sent_time
      /\ Grown(a).window_size >= a.window_size
      /\ Grown(a).state = "start" <=> Grown(a).window_size <= Grown(a).ssthresh
  <2>1. CASE a.state = "start"
    <3>1. PICK w \in Nat \ {0} : w = a.window_size + 1
      BY SMT DEF Sender
    <3>2. PICK b \in {"start", "avoid"} :
              b = IF a.window_size + 1 > a.ssthresh THEN "avoid" ELSE "start"
      OBVIOUS
    <3>3. Grown(a) = [a EXCEPT !.window_size = w, !.state = b]
      BY <2>1, <3>1, <3>2, Zenon DEF Grown
    <3>4. [a EXCEPT !.window_size = w, !.state = b] \in Sender
      BY Zenon DEF Sender
    <3>5. /\ Grown(a).last_sent = a.last_sent /\ Grown(a).last_acked = a.last_acked
          /\ Grown(a).dropped = a.dropped /\ Grown(a).window_size = w
          /\ Grown(a).state = b /\ Grown(a).ssthresh = a.ssthresh
          /\ Grown(a).sent_time = a.sent_time
      BY <3>3, Zenon DEF Sender
    <3>6. b = "start" <=> w <= a.ssthresh
      BY <3>1, <3>2, SMT DEF Sender
    <3>7. w >= a.window_size
      BY <3>1, SMT DEF Sender
    <3> QED BY <3>3, <3>4, <3>5, <3>6, <3>7
  <2>2. CASE a.state # "start"
    <3>1. PICK w \in Nat \ {0}, r \in Nat :
            /\ w >= a.window_size
            /\ IF a.recvd + 1 = a.window_size
               THEN w = a.window_size + 1 /\ r = 0
               ELSE w = a.window_size /\ r = a.recvd + 1
      BY SMT DEF Sender
    <3>2. Grown(a) = [a EXCEPT !.window_size = w, !.recvd = r]
      BY <2>2, <3>1, Zenon DEF Grown, Sender
    <3>3. [a EXCEPT !.window_size = w, !.recvd = r] \in Sender
      BY Zenon DEF Sender
    <3>4. /\ Grown(a).last_sent = a.last_sent /\ Grown(a).last_acked = a.last_acked
          /\ Grown(a).dropped = a.dropped /\ Grown(a).window_size = w
          /\ Grown(a).state = a.state /\ Grown(a).ssthresh = a.ssthresh
          /\ Grown(a).sent_time = a.sent_time
      BY <3>2, Zenon DEF Sender
    <3>5. w > a.ssthresh
      BY <1>1, <1>2, <2>2, <3>1, SMT DEF Sender
    <3> QED BY <2>2, <3>1, <3>2, <3>3, <3>4, <3>5, SMT DEF Sender
  <2> QED BY <2>1, <2>2
<1>4. Grown(a).last_sent <= Grown(a).last_acked + Grown(a).window_size
  BY <1>1, <1>2, <1>3, SMT DEF Sender
<1> QED BY <1>1, <1>2, <1>3, <1>4, SMT DEF Sender

-----------------------------------------------------------------------------
(* The invariant, action by action.                                        *)

(* bt_init leaves a state that satisfies the invariant.                    *)
LEMMA InitInv == Init => IInv
<1> SUFFICES ASSUME Init PROVE IInv
  OBVIOUS
<1>1. DOMAIN upload = {} /\ upload \in [DOMAIN upload -> Sender]
  BY DEF Init
<1>2. TypeOK
  <2>1. queue \in Seq(Packet)
    BY EmptySeq DEF Init
  <2> QED BY <1>1, <2>1, ChunksAssumption, Zenon DEF Init, TypeOK, ChunksAssumption
<1> QED BY <1>1, <1>2 DEF IInv, TimerCovers, NeverSentIsFresh, RepeatsHandled,
                        InFlightWithinWindow, SlowStartBelowThreshold

(* select() may let timers run out, but only timers that are armed.        *)
LEMMA SelectInv == IInv /\ Select => IInv'
<1> SUFFICES ASSUME IInv, Select PROVE IInv'
  OBVIOUS
<1>1. TypeOK'
  BY DEF IInv, TypeOK, Select
<1>2. TimerCovers' /\ RepeatsHandled'
  BY DEF IInv, TypeOK, Select, TimerCovers, RepeatsHandled
<1>3. NeverSentIsFresh' /\ InFlightWithinWindow' /\ SlowStartBelowThreshold'
  BY DEF IInv, Select, NeverSentIsFresh, InFlightWithinWindow, SlowStartBelowThreshold
<1> QED BY <1>1, <1>2, <1>3 DEF IInv

(* A sender leaves the list.                                               *)
LEMMA RemoveInv ==
    ASSUME IInv, NEW p \in Peers, pc = "cc", p \in todo,
           upload' = Without(p), todo' = todo \ {p}, expired' = expired \ {p},
           UNCHANGED <<pc, writable, has, queue>>
    PROVE  IInv'
<1>1. /\ DOMAIN upload' = DOMAIN upload \ {p}
      /\ \A q \in DOMAIN upload' : upload'[q] = upload[q]
  BY DEF Without
<1>2. TypeOK'
  BY <1>1 DEF IInv, TypeOK, Without
<1>3. TimerCovers' /\ RepeatsHandled'
  BY <1>1 DEF IInv, TimerCovers, RepeatsHandled
<1>4. NeverSentIsFresh' /\ InFlightWithinWindow' /\ SlowStartBelowThreshold'
  BY <1>1 DEF IInv, NeverSentIsFresh, InFlightWithinWindow, SlowStartBelowThreshold
<1> QED BY <1>2, <1>3, <1>4 DEF IInv

(* Replacing one record of the list keeps its type.                        *)
LEMMA UpdateOK ==
    ASSUME upload \in [DOMAIN upload -> Sender], NEW p \in DOMAIN upload, NEW t \in Sender,
           upload' = [upload EXCEPT ![p] = t]
    PROVE  /\ DOMAIN upload' = DOMAIN upload
           /\ upload' \in [DOMAIN upload' -> Sender]
           /\ upload'[p] = t
           /\ \A q \in DOMAIN upload \ {p} : upload'[q] = upload[q]
OBVIOUS

(* Backing off and resending re-arms the timer and stays in the window,    *)
(* however many strikes the pass has counted.                              *)
LEMMA BackoffInv == ASSUME IInv, NEW p \in Peers, CcBackoff(p) PROVE IInv'
<1> DEFINE s == Slowed(upload[p], Strikes(p))
           t == Sent(s)
<1>1. p \in DOMAIN upload /\ upload[p] \in Sender /\ upload \in [DOMAIN upload -> Sender]
  BY DEF IInv, TypeOK, CcBackoff
<1>2. Strikes(p) \in 0..DropLimit
  <2>1. upload[p].dropped \in 0..DropLimit
    BY <1>1 DEF Sender
  <2>2. Strikes(p) \in Nat
    BY <2>1, SMT DEF Strikes
  <2> QED BY <2>2, SMT DEF CcBackoff
<1>3. s \in Sender /\ s.state = "start" /\ s.window_size <= s.ssthresh
  BY <1>1, <1>2, SlowedOK
<1>4. /\ t \in Sender /\ t.sent_time = "set"
      /\ t.last_sent <= t.last_acked + t.window_size
      /\ t.state = "start" /\ t.window_size <= t.ssthresh
  BY <1>3, SentOK
<1>5. Burst(p, s) \in Seq(Packet)
  BY <1>3, BurstOK
<1> HIDE DEF s, t
<1>6. upload' = [upload EXCEPT ![p] = t] /\ queue' = queue \o Burst(p, s)
  BY DEF CcBackoff, s, t
<1>7. /\ DOMAIN upload' = DOMAIN upload
      /\ upload' \in [DOMAIN upload' -> Sender]
      /\ upload'[p] = t
      /\ \A q \in DOMAIN upload \ {p} : upload'[q] = upload[q]
  BY <1>1, <1>4, <1>6, UpdateOK
<1>8. queue' \in Seq(Packet) /\ (queue # <<>> => queue' # <<>>)
  BY <1>5, <1>6, ConcatProperties, EmptySeq DEF IInv, TypeOK
<1>9. TypeOK'
  BY <1>7, <1>8 DEF IInv, TypeOK, CcBackoff
<1>10. TimerCovers' /\ RepeatsHandled'
  BY <1>1, <1>4, <1>7 DEF IInv, TypeOK, TimerCovers, RepeatsHandled, CcBackoff
<1>11. NeverSentIsFresh' /\ InFlightWithinWindow' /\ SlowStartBelowThreshold'
  BY <1>1, <1>4, <1>7 DEF IInv, NeverSentIsFresh, InFlightWithinWindow, SlowStartBelowThreshold
<1> QED BY <1>9, <1>10, <1>11 DEF IInv


(* A new burst arms the timer and stays in the window.                     *)
LEMMA SendInv == ASSUME IInv, NEW p \in Peers, CcSend(p) PROVE IInv'
<1> DEFINE s == upload[p]
           t == Sent(s)
<1>1. p \in DOMAIN upload /\ s \in Sender /\ upload \in [DOMAIN upload -> Sender]
  BY DEF IInv, TypeOK, CcSend
<1>2. /\ t \in Sender /\ t.sent_time = "set"
      /\ t.last_sent <= t.last_acked + t.window_size
      /\ t.state = s.state /\ t.window_size = s.window_size
      /\ t.ssthresh = s.ssthresh /\ t.retransmit = s.retransmit
  BY <1>1, SentOK
<1>3. Burst(p, s) \in Seq(Packet)
  BY <1>1, BurstOK
<1>4. s.retransmit < DupLimit
  BY <1>1, SMT DEF CcSend, InTrouble, Lost, Sender
<1>5. s.state = "start" <=> s.window_size <= s.ssthresh
  BY <1>1 DEF IInv, SlowStartBelowThreshold
<1> HIDE DEF t
<1>6. upload' = [upload EXCEPT ![p] = t] /\ queue' = queue \o Burst(p, s)
  BY DEF CcSend, t
<1> HIDE DEF s
<1>7. /\ DOMAIN upload' = DOMAIN upload
      /\ upload' \in [DOMAIN upload' -> Sender]
      /\ upload'[p] = t
      /\ \A q \in DOMAIN upload \ {p} : upload'[q] = upload[q]
  BY <1>1, <1>2, <1>6, UpdateOK
<1>8. queue' \in Seq(Packet) /\ (queue # <<>> => queue' # <<>>)
  BY <1>3, <1>6, ConcatProperties, EmptySeq DEF IInv, TypeOK
<1>9. TypeOK'
  BY <1>7, <1>8 DEF IInv, TypeOK, CcSend
<1>10. TimerCovers' /\ RepeatsHandled'
  BY <1>2, <1>4, <1>7 DEF IInv, TimerCovers, RepeatsHandled, CcSend
<1>11. NeverSentIsFresh' /\ InFlightWithinWindow'
  BY <1>2, <1>7 DEF IInv, NeverSentIsFresh, InFlightWithinWindow
<1>12. SlowStartBelowThreshold'
  BY <1>2, <1>5, <1>7 DEF IInv, SlowStartBelowThreshold
<1> QED BY <1>9, <1>10, <1>11, <1>12 DEF IInv

(* A sender peer_cc passes over has packets outstanding, so its timer is   *)
(* armed.                                                                  *)
LEMMA KeepInv == ASSUME IInv, NEW p \in Peers, CcKeep(p) PROVE IInv'
<1>1. p \in DOMAIN upload /\ upload[p] \in Sender
  BY DEF IInv, TypeOK, CcKeep
<1>2. upload[p].retransmit < DupLimit
  BY <1>1, SMT DEF CcKeep, InTrouble, Lost, Sender
<1>3. TypeOK'
  BY DEF IInv, TypeOK, CcKeep
<1>4. TimerCovers' /\ RepeatsHandled'
  <2>1. upload[p].sent_time = "set"
    BY <1>1 DEF IInv, NeverSentIsFresh, CcKeep, Sender
  <2> QED BY <1>2, <2>1 DEF IInv, TimerCovers, RepeatsHandled, CcKeep
<1>5. NeverSentIsFresh' /\ InFlightWithinWindow' /\ SlowStartBelowThreshold'
  BY DEF IInv, NeverSentIsFresh, InFlightWithinWindow, SlowStartBelowThreshold, CcKeep
<1> QED BY <1>3, <1>4, <1>5 DEF IInv


(* Sending one queued packet leaves the senders alone.                     *)
LEMMA PacketOpsInv == IInv /\ PeerPacketOps => IInv'
<1> SUFFICES ASSUME IInv, PeerPacketOps PROVE IInv'
  OBVIOUS
<1>1. queue' \in Seq(Packet)
  <2>1. CASE writable
    BY <2>1, HeadTailProperties DEF IInv, TypeOK, PeerPacketOps
  <2>2. CASE ~writable
    BY <2>2 DEF IInv, TypeOK, PeerPacketOps
  <2> QED BY <2>1, <2>2
<1>2. TypeOK'
  BY <1>1 DEF IInv, TypeOK, PeerPacketOps
<1>3. TimerCovers' /\ RepeatsHandled'
  BY DEF IInv, TimerCovers, RepeatsHandled, PeerPacketOps
<1>4. NeverSentIsFresh' /\ InFlightWithinWindow' /\ SlowStartBelowThreshold'
  BY DEF IInv, NeverSentIsFresh, InFlightWithinWindow, SlowStartBelowThreshold, PeerPacketOps
<1> QED BY <1>2, <1>3, <1>4 DEF IInv

(* The steps of a handler that leave the senders alone.                    *)
LEMMA SpareInv ==
    ASSUME IInv, pc = "recv", pc' = "select",
           has' \subseteq Hashes, queue' \in Seq(Packet), queue # <<>> => queue' # <<>>,
           UNCHANGED <<writable, expired, todo, upload>>
    PROVE  IInv'
<1>1. TypeOK'
  BY DEF IInv, TypeOK
<1>2. TimerCovers' /\ RepeatsHandled'
  BY DEF TimerCovers, RepeatsHandled
<1>3. NeverSentIsFresh' /\ InFlightWithinWindow' /\ SlowStartBelowThreshold'
  BY DEF IInv, NeverSentIsFresh, InFlightWithinWindow, SlowStartBelowThreshold
<1> QED BY <1>1, <1>2, <1>3 DEF IInv

(* Answering a WHOHAS queues at most one well-formed IHAVE.                *)
LEMMA WhohasInv ==
    ASSUME IInv, NEW p \in Peers, NEW req, ProcessWhohas(p, req)
    PROVE  IInv'
<1>1. Reported(req) \subseteq Hashes
  BY DEF Reported, IInv, TypeOK
<1>2. Ihave(p, Reported(req)) \in Packet
  BY <1>1 DEF Ihave, Packet
<1>3. queue \in Seq(Packet) /\ has \subseteq Hashes
  BY DEF IInv, TypeOK
<1>4. Append(queue, Ihave(p, Reported(req))) \in Seq(Packet) /\
      Append(queue, Ihave(p, Reported(req))) # <<>>
  BY <1>2, <1>3, AppendProperties, EmptySeq
<1>5. queue' \in Seq(Packet) /\ (queue # <<>> => queue' # <<>>)
  BY <1>3, <1>4 DEF ProcessWhohas
<1> QED BY <1>3, <1>5, SpareInv DEF ProcessWhohas, Receiving

(* A GET that is taken adds a fresh sender and touches no other.           *)
LEMMA GetInv ==
    ASSUME IInv, NEW p \in Peers, NEW h \in Hashes, ProcessGet(p, h)
    PROVE  IInv'
<1> DEFINE t == NewSender(h)
<1>1. /\ t \in Sender /\ t.last_sent <= t.last_acked + t.window_size
      /\ t.state = "start" <=> t.window_size <= t.ssthresh
      /\ t.last_acked = t.last_sent
  BY NewSenderOK
<1>2. /\ DOMAIN upload' = DOMAIN upload \cup {p}
      /\ upload'[p] = t
      /\ \A q \in DOMAIN upload : upload'[q] = upload[q]
      /\ upload' = [q \in DOMAIN upload' |-> upload'[q]]
  BY DEF ProcessGet
<1> HIDE DEF t
<1>3. upload' \in [DOMAIN upload' -> Sender]
  BY <1>1, <1>2 DEF IInv, TypeOK
<1>4. TypeOK'
  BY <1>2, <1>3 DEF IInv, TypeOK, ProcessGet
<1>5. TimerCovers' /\ RepeatsHandled'
  BY DEF TimerCovers, RepeatsHandled, ProcessGet
<1>6. NeverSentIsFresh' /\ InFlightWithinWindow' /\ SlowStartBelowThreshold'
  BY <1>1, <1>2 DEF IInv, NeverSentIsFresh, InFlightWithinWindow, SlowStartBelowThreshold
<1> QED BY <1>4, <1>5, <1>6 DEF IInv

(* An ACK of any number, new, repeated or old, keeps the invariant.  It    *)
(* relies on RepeatsHandled: peer_cc has run since the last one.           *)
LEMMA ProcessAckInv ==
    ASSUME IInv, NEW p \in Peers, NEW n \in 0..NumPackets, ProcessAck(p, n)
    PROVE  IInv'
<1> DEFINE t == Grown(Acked(upload[p], n))
<1>1. /\ p \in DOMAIN upload /\ upload[p] \in Sender
      /\ upload \in [DOMAIN upload -> Sender]
  BY DEF IInv, TypeOK, ProcessAck
<1>2. /\ upload[p].retransmit < DupLimit /\ upload[p].sent_time = "set"
      /\ upload[p].last_sent <= upload[p].last_acked + upload[p].window_size
      /\ upload[p].state = "start" <=> upload[p].window_size <= upload[p].ssthresh
  BY <1>1 DEF IInv, RepeatsHandled, TimerCovers, InFlightWithinWindow,
              SlowStartBelowThreshold, ProcessAck, Receiving
<1>3. /\ t \in Sender
      /\ t.last_sent <= t.last_acked + t.window_size
      /\ t.state = "start" <=> t.window_size <= t.ssthresh
      /\ t.sent_time = "set"
  BY <1>1, <1>2, AckOK
<1> HIDE DEF t
<1>4. upload' = [upload EXCEPT ![p] = t]
  BY DEF ProcessAck, t
<1>5. /\ DOMAIN upload' = DOMAIN upload
      /\ upload' \in [DOMAIN upload' -> Sender]
      /\ upload'[p] = t
      /\ \A q \in DOMAIN upload \ {p} : upload'[q] = upload[q]
  BY <1>1, <1>3, <1>4, UpdateOK
<1>6. TypeOK'
  BY <1>5 DEF IInv, TypeOK, ProcessAck
<1>7. TimerCovers' /\ RepeatsHandled'
  BY DEF TimerCovers, RepeatsHandled, ProcessAck
<1>8. NeverSentIsFresh' /\ InFlightWithinWindow' /\ SlowStartBelowThreshold'
  BY <1>3, <1>5 DEF IInv, NeverSentIsFresh, InFlightWithinWindow, SlowStartBelowThreshold
<1> QED BY <1>6, <1>7, <1>8 DEF IInv


-----------------------------------------------------------------------------
(* Every step keeps the invariant.                                         *)
LEMMA StepInv == IInv /\ [Next]_vars => IInv'
<1> SUFFICES ASSUME IInv, [Next]_vars PROVE IInv'
  OBVIOUS
<1>1. CASE Select
  BY <1>1, SelectInv
<1>2. CASE PeerPacketOps
  BY <1>2, PacketOpsInv
<1>3. ASSUME NEW p \in Peers, CcFinished(p) \/ CcDead(p) PROVE IInv'
  BY <1>3, RemoveInv DEF CcFinished, CcDead
<1>4. ASSUME NEW p \in Peers, CcBackoff(p) PROVE IInv'
  BY <1>4, BackoffInv
<1>5. ASSUME NEW p \in Peers, CcSend(p) PROVE IInv'
  BY <1>5, SendInv
<1>6. ASSUME NEW p \in Peers, CcKeep(p) PROVE IInv'
  BY <1>6, KeepInv
<1>7. ASSUME NEW p \in Peers, NEW req \in Requests, ProcessWhohas(p, req) PROVE IInv'
  BY <1>7, WhohasInv
<1>8. ASSUME NEW p \in Peers, NEW h \in Hashes, ProcessGet(p, h) PROVE IInv'
  BY <1>8, GetInv
<1>9. ASSUME NEW p \in Peers, NEW n \in 0..NumPackets, ProcessAck(p, n) PROVE IInv'
  BY <1>9, ProcessAckInv
<1>10. ASSUME NEW h \in Hashes, LearnChunk(h) PROVE IInv'
  <2>1. has' \subseteq Hashes /\ queue \in Seq(Packet)
    BY <1>10 DEF LearnChunk, IInv, TypeOK
  <2> QED BY <1>10, <2>1, SpareInv DEF LearnChunk, Receiving
<1>11. CASE Idle
  <2>1. has \subseteq Hashes /\ queue \in Seq(Packet)
    BY DEF IInv, TypeOK
  <2> QED BY <1>11, <2>1, SpareInv DEF Idle
<1>12. CASE UNCHANGED vars
  BY <1>12 DEF vars, IInv, TypeOK, TimerCovers, NeverSentIsFresh, RepeatsHandled,
               InFlightWithinWindow, SlowStartBelowThreshold
<1> QED BY <1>1, <1>2, <1>3, <1>4, <1>5, <1>6, <1>7, <1>8, <1>9, <1>10, <1>11, <1>12
        DEF Next, Cc, Receive

(* Every reachable state satisfies the inductive invariant.                *)
THEOREM Invariance == Spec => []IInv
  BY InitInv, StepInv, PTL DEF Spec

(* The counters and windows of every sender stay in range: retransmit and  *)
(* dropped, chars in the code, never pass DupLimit and DropLimit.          *)
THEOREM TypeCorrect == Spec => []TypeOK
<1>1. IInv => TypeOK
  BY DEF IInv
<1> QED BY <1>1, Invariance, PTL

(* No upload is left without a running timer.                              *)
THEOREM TimerCoversAlways == Spec => []TimerCovers
<1>1. IInv => TimerCovers
  BY DEF IInv
<1> QED BY <1>1, Invariance, PTL

(* A sender without a timer has nothing outstanding, so the first pass     *)
(* sends its first burst.                                                  *)
THEOREM FreshWhenNeverSent == Spec => []NeverSentIsFresh
<1>1. IInv => NeverSentIsFresh
  BY DEF IInv
<1> QED BY <1>1, Invariance, PTL

(* Repeated ACKs are dealt with before the next packet is read.            *)
THEOREM RepeatsAlwaysHandled == Spec => []RepeatsHandled
<1>1. IInv => RepeatsHandled
  BY DEF IInv
<1> QED BY <1>1, Invariance, PTL

(* Never more outstanding than the window allows, for any window, chunk    *)
(* size and order of ACKs.                                                 *)
THEOREM FlowControl == Spec => []InFlightWithinWindow
<1>1. IInv => InFlightWithinWindow
  BY DEF IInv
<1> QED BY <1>1, Invariance, PTL

(* Slow start is left exactly when the window passes the threshold.        *)
THEOREM SlowStart == Spec => []SlowStartBelowThreshold
<1>1. IInv => SlowStartBelowThreshold
  BY DEF IInv
<1> QED BY <1>1, Invariance, PTL


-----------------------------------------------------------------------------
(* Only the first two exits of peer_cc shrink the list.                    *)
LEMMA Removing ==
    ASSUME IInv, [Next]_vars, NEW q \in DOMAIN upload \ DOMAIN upload'
    PROVE  \E p \in Peers : CcFinished(p) \/ CcDead(p)
<1>1. CASE Select \/ PeerPacketOps \/ Idle \/ UNCHANGED vars
  BY <1>1 DEF Select, PeerPacketOps, Idle, vars
<1>2. CASE \E p \in Peers : CcBackoff(p) \/ CcSend(p) \/ CcKeep(p)
  BY <1>2 DEF CcBackoff, CcSend, CcKeep, IInv, TypeOK
<1>3. CASE Receive
  BY <1>3 DEF Receive, ProcessWhohas, ProcessGet, ProcessAck, LearnChunk, Idle, IInv, TypeOK
<1> QED BY <1>1, <1>2, <1>3 DEF Next, Cc

(* A back-off counts at least one strike and acknowledges nothing.         *)
LEMMA BackoffKeeps ==
    ASSUME IInv, NEW p \in Peers, CcBackoff(p), NEW q \in DOMAIN upload
    PROVE  \/ upload'[q] = upload[q]
           \/ /\ upload'[q].last_acked = upload[q].last_acked
              /\ upload'[q].dropped >= upload[q].dropped
<1>1. upload[q] \in Sender /\ upload \in [DOMAIN upload -> Sender]
  BY DEF IInv, TypeOK
<1>2. CASE q # p
  BY <1>1, <1>2 DEF CcBackoff
<1>3. CASE q = p
  <2>1. Strikes(q) \in Nat /\ Strikes(q) >= upload[q].dropped
    <3>1. upload[q].dropped \in Nat
      BY <1>1, SMT DEF Sender
    <3> QED BY <3>1, SMT DEF Strikes
  <2>2. upload'[q] = Sent(Slowed(upload[q], Strikes(q)))
    BY <1>1, <1>3 DEF CcBackoff
  <2>3. /\ upload'[q].last_acked = upload[q].last_acked
        /\ upload'[q].dropped = Strikes(q)
    BY <1>1, <2>2, Zenon DEF Sent, Slowed, Sender
  <2> QED BY <2>1, <2>3
<1> QED BY <1>2, <1>3

(* A new burst acknowledges nothing and forgives nothing.                  *)
LEMMA SendKeeps ==
    ASSUME IInv, NEW p \in Peers, CcSend(p), NEW q \in DOMAIN upload
    PROVE  /\ upload'[q].last_acked = upload[q].last_acked
           /\ upload'[q].dropped = upload[q].dropped
<1>1. upload[q] \in Sender /\ upload \in [DOMAIN upload -> Sender]
  BY DEF IInv, TypeOK
<1>2. upload'[q] = upload[q] \/ upload'[q] = Sent(upload[q])
  BY <1>1 DEF CcSend
<1>3. /\ Sent(upload[q]).last_acked = upload[q].last_acked
      /\ Sent(upload[q]).dropped = upload[q].dropped
  BY <1>1, Zenon DEF Sent, Sender
<1> QED BY <1>2, <1>3

(* An upload leaves the list only complete, or with more than DropLimit    *)
(* losses counted since its last progress.                                 *)
THEOREM Quits == Spec => QuitsForAReason
<1> DEFINE Reason(p) == \/ upload[p].last_acked = NumPackets
                        \/ InTrouble(p) /\ Strikes(p) > DropLimit
<1>1. ASSUME IInv, [Next]_vars, NEW q \in DOMAIN upload \ DOMAIN upload'
      PROVE  Reason(q)
  <2>1. PICK p \in Peers : CcFinished(p) \/ CcDead(p)
    BY <1>1, Removing
  <2>2. q = p
    BY <2>1 DEF CcFinished, CcDead, Without
  <2>3. CASE CcFinished(p)
    BY <2>2, <2>3 DEF CcFinished
  <2>4. CASE CcDead(p)
    <3>1. Strikes(p) > DropLimit /\ p \in DOMAIN upload /\ upload[p] \in Sender
      BY <1>1, <2>4 DEF CcDead, IInv, TypeOK
    <3>2. InTrouble(p)
      <4>1. SUFFICES ASSUME ~InTrouble(p) PROVE FALSE
        OBVIOUS
      <4>2. Strikes(p) = upload[p].dropped + 0 + 0
        BY <4>1 DEF InTrouble, Strikes
      <4> QED BY <3>1, <4>2, SMT DEF Sender
    <3> QED BY <2>2, <3>1, <3>2
  <2> QED BY <2>1, <2>3, <2>4
<1>2. IInv /\ [Next]_vars =>
        [\A p \in DOMAIN upload \ DOMAIN upload' : Reason(p)]_vars
  BY <1>1
<1> QED BY <1>2, Invariance, PTL DEF Spec, QuitsForAReason

(* The strikes of a sender are a number after the step too.                *)
LEMMA DroppedInt ==
    ASSUME IInv, [Next]_vars, NEW q \in DOMAIN upload'
    PROVE  upload'[q].dropped \in Int
<1>1. upload'[q] \in Sender
  BY StepInv DEF IInv, TypeOK
<1> QED BY <1>1, SMT DEF Sender

(* Within one upload, last_acked never goes back, and only its advance     *)
(* forgives a strike.                                                      *)
THEOREM Progress == Spec => ProgressIsKept
<1> DEFINE Kept(p) == /\ upload'[p].last_acked >= upload[p].last_acked
                      /\ upload'[p].dropped < upload[p].dropped =>
                            upload'[p].last_acked > upload[p].last_acked
<1>1. ASSUME IInv, [Next]_vars, NEW q \in DOMAIN upload \cap DOMAIN upload'
      PROVE  Kept(q)
  <2>1. upload[q] \in Sender
    BY <1>1 DEF IInv, TypeOK
  <2>2. CASE upload'[q] = upload[q]
    BY <2>1, <2>2, SMT DEF Sender
  <2>3. ASSUME NEW p \in Peers, CcBackoff(p) PROVE Kept(q)
    <3>1. \/ upload'[q] = upload[q]
          \/ /\ upload'[q].last_acked = upload[q].last_acked
             /\ upload'[q].dropped >= upload[q].dropped
      BY <1>1, <2>3, BackoffKeeps
    <3>2. CASE upload'[q] = upload[q]
      BY <2>2, <3>2
    <3>3. CASE /\ upload'[q].last_acked = upload[q].last_acked
               /\ upload'[q].dropped >= upload[q].dropped
      <4>1. upload[q].last_acked \in Int /\ upload[q].dropped \in Int
        BY <2>1, SMT DEF Sender
      <4>2. upload[q].last_acked >= upload[q].last_acked
        BY <4>1, SMT
      <4>3. ~(upload'[q].dropped < upload[q].dropped)
        BY <1>1, <2>3, <3>3, <4>1, DroppedInt, SMT
      <4> QED BY <3>3, <4>2, <4>3
    <3> QED BY <3>1, <3>2, <3>3
  <2>4. ASSUME NEW p \in Peers, CcSend(p) PROVE Kept(q)
    <3>1. /\ upload'[q].last_acked = upload[q].last_acked
          /\ upload'[q].dropped = upload[q].dropped
      BY <1>1, <2>4, SendKeeps
    <3>2. upload[q].last_acked \in Int /\ upload[q].dropped \in Int
      BY <2>1, SMT DEF Sender
    <3> QED BY <3>1, <3>2, SMT
  <2>5. ASSUME NEW p \in Peers, NEW n \in 0..NumPackets, ProcessAck(p, n) PROVE Kept(q)
    <3>1. CASE p # q
      BY <1>1, <2>2, <2>5, <3>1 DEF ProcessAck, IInv, TypeOK
    <3>2. CASE p = q
      <4>1. upload'[q] = Grown(Acked(upload[q], n))
        BY <1>1, <2>5, <3>2 DEF ProcessAck, IInv, TypeOK
      <4>2. /\ upload[q].retransmit < DupLimit
            /\ upload[q].last_sent <= upload[q].last_acked + upload[q].window_size
            /\ upload[q].state = "start" <=> upload[q].window_size <= upload[q].ssthresh
        BY <1>1, <2>5 DEF ProcessAck, Receiving, IInv, RepeatsHandled,
                          InFlightWithinWindow, SlowStartBelowThreshold
      <4> QED BY <2>1, <4>1, <4>2, AckOK
    <3> QED BY <3>1, <3>2
  <2>6. CASE Select \/ PeerPacketOps \/ Idle \/ UNCHANGED vars
    BY <2>2, <2>6 DEF Select, PeerPacketOps, Idle, vars
  <2>7. ASSUME NEW p \in Peers, CcFinished(p) \/ CcDead(p) \/ CcKeep(p) PROVE Kept(q)
    BY <1>1, <2>2, <2>7 DEF CcFinished, CcDead, CcKeep, Without
  <2>8. ASSUME NEW p \in Peers, NEW h \in Hashes, ProcessGet(p, h) PROVE Kept(q)
    BY <1>1, <2>2, <2>8 DEF ProcessGet
  <2>9. CASE (\E p \in Peers, req \in Requests : ProcessWhohas(p, req))
               \/ \E h \in Hashes : LearnChunk(h)
    BY <2>2, <2>9 DEF ProcessWhohas, LearnChunk
  <2> QED BY <1>1, <2>3, <2>4, <2>5, <2>6, <2>7, <2>8, <2>9 DEF Next, Cc, Receive
<1>2. IInv /\ [Next]_vars =>
        [\A p \in DOMAIN upload \cap DOMAIN upload' : Kept(p)]_vars
  BY <1>1
<1> QED BY <1>2, Invariance, PTL DEF Spec, ProgressIsKept


=============================================================================
