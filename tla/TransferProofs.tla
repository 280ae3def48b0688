--------------------------- MODULE TransferProofs ---------------------------
(***************************************************************************)
(* Two peers, for any files, capacity and limits, with packets lost and    *)
(* either program stopped and started again at any time: each half keeps   *)
(* its inductive invariant (DownloadProofs, UploadProofs), whatever the    *)
(* other one sends and whatever of it arrives.                             *)
(*                                                                         *)
(* What is added is that a channel holds packets of the half at its other  *)
(* end: then what arrives is what that half's handler is written for.  A   *)
(* restart empties the download list together with the peer records, and   *)
(* the upload list together with the pass over it.                         *)
(***************************************************************************)
EXTENDS Transfer, SequenceTheorems, TLAPS

DP == INSTANCE DownloadProofs WITH
        Peers <- {B}, PeerList <- <<B>>, Owned <- OwnedA, IoResults <- {TRUE},
        pc <- d_pc, writable <- d_writable, scan <- d_scan, has <- d_has,
        queue <- d_queue

UP == INSTANCE UploadProofs WITH
        Peers <- {A}, Owned <- OwnedB, Requests <- GetFiles,
        pc <- u_pc, writable <- u_writable, has <- u_has, queue <- u_queue

(* A channel with packets of one kind.                                     *)
Holds(ch, Packets) == ch \in Seq(Packets) /\ Len(ch) <= Capacity

(* The inductive invariant: that of each half, and the channels between.   *)
TransferInv ==
    /\ DP!IInv /\ UP!IInv
    /\ Holds(toA, UP!Packet) /\ Holds(toB, DP!Packet)
    /\ losses \in 0..MaxLosses /\ restarts \in 0..MaxRestarts

USE NetworkAssumption DEF NetworkAssumption

-----------------------------------------------------------------------------
(* The halves.                                                             *)

(* The instances of a half with and without its proofs are the same.       *)
LEMMA SameDownload ==
    /\ (D!Init <=> DP!Init) /\ (D!Select <=> DP!Select)
    /\ (D!TimeoutCheck <=> DP!TimeoutCheck) /\ (D!Scan <=> DP!Scan)
    /\ (D!PeerPacketOps <=> DP!PeerPacketOps) /\ (D!Idle <=> DP!Idle)
    /\ \A f : D!ProcessUserGet(f) <=> DP!ProcessUserGet(f)
    /\ \A p, hs : D!ProcessIhave(p, hs) <=> DP!ProcessIhave(p, hs)
    /\ \A p, n, h : D!ProcessData(p, n, h) <=> DP!ProcessData(p, n, h)
    /\ \A p, n, h : D!DataCrash(p, n, h) <=> DP!DataCrash(p, n, h)
    /\ D!TypeOK <=> DP!TypeOK
    /\ D!ResetPeer = DP!ResetPeer
<1> USE DEF D!counts, DP!counts, D!ResetPeer, DP!ResetPeer
<1>1. (D!Init <=> DP!Init) /\ D!ResetPeer = DP!ResetPeer
    BY DEF D!Init, DP!Init
<1>2. D!Select <=> DP!Select
    BY DEF D!Select, DP!Select, D!Drained, DP!Drained
<1>3. D!TimeoutCheck <=> DP!TimeoutCheck
    BY DEF D!TimeoutCheck, DP!TimeoutCheck, D!GivenUp, DP!GivenUp, D!TimedOut, DP!TimedOut,
           D!AfterTimeout, DP!AfterTimeout, D!Released, DP!Released, D!Abandoned, DP!Abandoned
<1>4. D!Scan <=> DP!Scan
    BY DEF D!Scan, DP!Scan, D!ScanGet, DP!ScanGet, D!ScanWhohas, DP!ScanWhohas,
           D!ScanSkip, DP!ScanSkip, D!ScanEnd, DP!ScanEnd, D!Scanning, DP!Scanning,
           D!Wanted, DP!Wanted, D!Get, DP!Get, D!Flood, DP!Flood, D!Whohas, DP!Whohas
<1>5. (D!PeerPacketOps <=> DP!PeerPacketOps) /\ (D!Idle <=> DP!Idle)
    BY DEF D!PeerPacketOps, DP!PeerPacketOps, D!Idle, DP!Idle
<1> USE DEF D!Receiving, DP!Receiving, D!FinishGet, DP!FinishGet, D!Heard, DP!Heard
<1>6. ASSUME NEW f PROVE D!ProcessUserGet(f) <=> DP!ProcessUserGet(f)
    <2>1. \A S : D!Cardinality(S) = DP!Cardinality(S)
        BY DEF D!Cardinality, DP!Cardinality
    <2> QED
        BY <2>1 DEF D!ProcessUserGet, DP!ProcessUserGet, D!NewChunk, DP!NewChunk,
                    D!Whohas, DP!Whohas
<1>7. ASSUME NEW p, NEW hs PROVE D!ProcessIhave(p, hs) <=> DP!ProcessIhave(p, hs)
    BY DEF D!ProcessIhave, DP!ProcessIhave
<1> USE DEF D!AddPacketList, DP!AddPacketList, D!Placed, DP!Placed, D!FirstGap, DP!FirstGap,
            D!Verdicts, DP!Verdicts
<1>8. ASSUME NEW p, NEW n, NEW h PROVE D!ProcessData(p, n, h) <=> DP!ProcessData(p, n, h)
    BY DEF D!ProcessData, DP!ProcessData, D!FinishChunk, DP!FinishChunk, D!Ack, DP!Ack,
           D!num_chunks, DP!num_chunks, D!Released, DP!Released
<1>9. ASSUME NEW p, NEW n, NEW h PROVE D!DataCrash(p, n, h) <=> DP!DataCrash(p, n, h)
    BY DEF D!DataCrash, DP!DataCrash
<1>10. D!TypeOK <=> DP!TypeOK
    BY DEF D!TypeOK, DP!TypeOK, D!Chunk, DP!Chunk, D!PeerRecord, DP!PeerRecord,
           D!Packet, DP!Packet
<1> QED
    BY <1>1, <1>2, <1>3, <1>4, <1>5, <1>6, <1>7, <1>8, <1>9, <1>10

(* The same of the uploading half.                                        *)
LEMMA SameUpload ==
    /\ (U!Init <=> UP!Init) /\ (U!Select <=> UP!Select)
    /\ (U!PeerPacketOps <=> UP!PeerPacketOps) /\ (U!Idle <=> UP!Idle)
    /\ \A p : U!Cc(p) <=> UP!Cc(p)
    /\ \A p, hs : U!ProcessWhohas(p, hs) <=> UP!ProcessWhohas(p, hs)
    /\ \A p, h : U!ProcessGet(p, h) <=> UP!ProcessGet(p, h)
    /\ \A p, n : U!ProcessAck(p, n) <=> UP!ProcessAck(p, n)
    /\ U!TypeOK <=> UP!TypeOK
<1> USE DEF U!NewSender, UP!NewSender
<1>1. U!Init <=> UP!Init
    BY DEF U!Init, UP!Init
<1>2. (U!Select <=> UP!Select) /\ (U!PeerPacketOps <=> UP!PeerPacketOps) /\ (U!Idle <=> UP!Idle)
    BY DEF U!Select, UP!Select, U!PeerPacketOps, UP!PeerPacketOps, U!Idle, UP!Idle
<1>3. ASSUME NEW p PROVE U!Cc(p) <=> UP!Cc(p)
    BY DEF U!Cc, UP!Cc, U!CcFinished, UP!CcFinished, U!CcDead, UP!CcDead,
           U!CcBackoff, UP!CcBackoff, U!CcSend, UP!CcSend, U!CcKeep, UP!CcKeep,
           U!Without, UP!Without, U!Strikes, UP!Strikes, U!InTrouble, UP!InTrouble,
           U!Lost, UP!Lost, U!Slowed, UP!Slowed, U!Sent, UP!Sent, U!SendUpTo, UP!SendUpTo,
           U!Burst, UP!Burst, U!Data, UP!Data
<1> USE DEF U!Receiving, UP!Receiving
<1>4. ASSUME NEW p, NEW hs PROVE U!ProcessWhohas(p, hs) <=> UP!ProcessWhohas(p, hs)
    BY DEF U!ProcessWhohas, UP!ProcessWhohas, U!Reported, UP!Reported, U!Ihave, UP!Ihave
<1>5. ASSUME NEW p, NEW h PROVE U!ProcessGet(p, h) <=> UP!ProcessGet(p, h)
    BY DEF U!ProcessGet, UP!ProcessGet
<1>6. ASSUME NEW p, NEW n PROVE U!ProcessAck(p, n) <=> UP!ProcessAck(p, n)
    BY DEF U!ProcessAck, UP!ProcessAck, U!Acked, UP!Acked, U!Grown, UP!Grown
<1>7. U!TypeOK <=> UP!TypeOK
    BY DEF U!TypeOK, UP!TypeOK, U!Sender, UP!Sender, U!Packet, UP!Packet
<1> QED
    BY <1>1, <1>2, <1>3, <1>4, <1>5, <1>6, <1>7

(* A step of the one half keeps its invariant.                             *)
LEMMA DownloadKept == DP!IInv /\ [DP!Next]_(DP!vars) => DP!IInv'
BY DP!StepInv, HalvesAssumption
   DEF HalvesAssumption, D!PeersAssumption, D!DownloadAssumption, D!FilesAssumption

(* So does a step of the other.                                            *)
LEMMA UploadKept == UP!IInv /\ [UP!Next]_(UP!vars) => UP!IInv'
BY UP!StepInv, HalvesAssumption
   DEF HalvesAssumption, U!NumPacketsAssumption, U!LimitsAssumption, U!ChunksAssumption

-----------------------------------------------------------------------------
(* The channels.                                                           *)

(* Reading takes the first packet.                                         *)
LEMMA ReadHolds ==
    ASSUME NEW ch, NEW S, Holds(ch, S), ch # <<>>
    PROVE  Head(ch) \in S /\ Holds(Tail(ch), S)
<1>1. ch \in Seq(S) /\ Len(ch) <= Capacity /\ Len(ch) \in Nat
    BY LenProperties DEF Holds
<1>2. Head(ch) \in S /\ Tail(ch) \in Seq(S) /\ Len(Tail(ch)) = Len(ch) - 1
    BY <1>1, HeadTailProperties
<1> QED
    BY <1>1, <1>2 DEF Holds

(* A packet is put into a channel that has room for it, or none is.        *)
LEMMA TransmitHolds ==
    ASSUME NEW ch, NEW S, NEW m \in S, NEW ch2, Holds(ch, S), losses \in 0..MaxLosses,
           Transmit(ch, m, ch2)
    PROVE  Holds(ch2, S) /\ losses' \in 0..MaxLosses
<1>1. ch \in Seq(S) /\ Len(ch) <= Capacity /\ Len(ch) \in Nat
    BY LenProperties DEF Holds
<1>2. losses' \in 0..MaxLosses
    BY DEF Transmit
<1>3. CASE ch2 = ch
    BY <1>2, <1>3
<1>4. CASE ch2 = Append(ch, m) /\ Len(ch) < Capacity
    <2>1. ch2 \in Seq(S) /\ Len(ch2) = Len(ch) + 1
        BY <1>1, <1>4, AppendProperties
    <2> QED
        BY <1>1, <1>2, <1>4, <2>1 DEF Holds
<1> QED
    BY <1>3, <1>4 DEF Transmit

(* The last packets of a channel are in it.                                *)
LEMMA RemainderHolds ==
    ASSUME NEW ch, NEW S, Holds(ch, S), NEW ch2 \in Remainder(ch)
    PROVE  Holds(ch2, S)
<1>1. ch \in Seq(S) /\ Len(ch) <= Capacity /\ Len(ch) \in Nat
    BY LenProperties DEF Holds
<1>2. PICK k \in 1..(Len(ch) + 1) : ch2 = SubSeq(ch, k, Len(ch))
    BY DEF Remainder
<1>3. k \in Int /\ \A i \in k..Len(ch) : i \in 1..Len(ch)
    BY <1>1
<1>4. ch2 \in Seq(S) /\ Len(ch2) = IF k <= Len(ch) THEN Len(ch) - k + 1 ELSE 0
    BY <1>1, <1>2, <1>3, SubSeqProperties
<1>5. Len(ch2) <= Len(ch)
    BY <1>1, <1>3, <1>4
<1> QED
    BY <1>1, <1>4, <1>5 DEF Holds

-----------------------------------------------------------------------------
(* The steps.                                                              *)

(* What peer A takes is a step of its half.                                *)
LEMMA AIsDownload ==
    ASSUME TransferInv, StepA
    PROVE  [DP!Next]_(DP!vars)
<1> SUFFICES DP!Next
    OBVIOUS
<1>1. CASE ASelect \/ ASend
    BY <1>1, SameDownload DEF ASelect, ASend, DP!Next
<1>2. CASE AReceive
    <2> DEFINE m == Head(toA)
    <2>1. m \in UP!Packet
        BY <1>2, ReadHolds DEF AReceive, TransferInv
    <2>2. /\ m.type = "DATA" => m.seq \in 1..NumPackets /\ m.hash \in Hashes
          /\ m.type = "IHAVE" => m.hashes \in SUBSET Hashes
        <3> HIDE DEF m
        <3> QED
            BY <2>1 DEF UP!Packet
    <2>3. \/ m.type = "DATA" /\ D!ProcessData(B, m.seq, m.hash)
          \/ m.type = "DATA" /\ D!DataCrash(B, m.seq, m.hash)
          \/ m.type = "IHAVE" /\ D!ProcessIhave(B, m.hashes)
          \/ D!Idle
        BY <1>2 DEF AReceive
    <2> HIDE DEF m
    <2>4. CASE m.type = "DATA" /\ D!ProcessData(B, m.seq, m.hash)
        BY <2>2, <2>4, SameDownload DEF DP!Next, DP!Receive
    <2>5. CASE m.type = "DATA" /\ D!DataCrash(B, m.seq, m.hash)
        BY <2>2, <2>5, SameDownload DEF DP!Next, DP!Receive
    <2>6. CASE m.type = "IHAVE" /\ D!ProcessIhave(B, m.hashes)
        BY <2>2, <2>6, SameDownload DEF DP!Next, DP!Receive
    <2>7. CASE D!Idle
        BY <2>7, SameDownload DEF DP!Next, DP!Receive
    <2> QED
        BY <2>3, <2>4, <2>5, <2>6, <2>7
<1>3. CASE ALocal
    BY <1>3, SameDownload DEF ALocal, DP!Next, DP!Receive
<1> QED
    BY <1>1, <1>2, <1>3 DEF StepA

(* What peer B takes is a step of its own.                                 *)
LEMMA BIsUpload ==
    ASSUME TransferInv, StepB
    PROVE  UP!IInv'
<1>1. UP!IInv
    BY DEF TransferInv
<1>2. ASSUME UP!Next PROVE UP!IInv'
    BY <1>1, <1>2, UploadKept
<1>3. CASE BSelect \/ BSend
    BY <1>2, <1>3, SameUpload DEF BSelect, BSend, UP!Next
<1>4. CASE BReceive
    <2> DEFINE m == Head(toB)
    <2>1. m \in DP!Packet
        BY <1>4, ReadHolds DEF BReceive, TransferInv
    <2>2. /\ m.type = "GET" => m.hash \in Hashes
          /\ m.type = "ACK" => m.ack \in 0..NumPackets
        <3> HIDE DEF m
        <3> QED
            BY <2>1 DEF DP!Packet
    <2>3. \/ m.type = "WHOHAS" /\ U!ProcessWhohas(A, m.hashes)
          \/ m.type = "GET" /\ U!ProcessGet(A, m.hash)
          \/ m.type = "ACK" /\ U!ProcessAck(A, m.ack)
          \/ U!Idle
        BY <1>4 DEF BReceive
    <2> HIDE DEF m
    <2>4. CASE U!ProcessWhohas(A, m.hashes)
        <3>1. UP!ProcessWhohas(A, m.hashes)
            BY <2>4, SameUpload
        <3> QED
            BY <1>1, <3>1, UP!WhohasInv, HalvesAssumption
               DEF HalvesAssumption, U!NumPacketsAssumption, U!LimitsAssumption,
                   U!ChunksAssumption
    <2>5. CASE m.type = "GET" /\ U!ProcessGet(A, m.hash)
        BY <1>2, <2>2, <2>5, SameUpload DEF UP!Next, UP!Receive
    <2>6. CASE m.type = "ACK" /\ U!ProcessAck(A, m.ack)
        BY <1>2, <2>2, <2>6, SameUpload DEF UP!Next, UP!Receive
    <2>7. CASE U!Idle
        BY <1>2, <2>7, SameUpload DEF UP!Next, UP!Receive
    <2> QED
        BY <2>3, <2>4, <2>5, <2>6, <2>7
<1>5. CASE BLocal
    BY <1>2, <1>5, SameUpload DEF BLocal, UP!Next, UP!Receive
<1> QED
    BY <1>3, <1>4, <1>5 DEF StepB

(* A step of A: what it sends is of its half, and B is left alone.         *)
LEMMA AKeeps == TransferInv /\ StepA => TransferInv'
<1> SUFFICES ASSUME TransferInv, StepA PROVE TransferInv'
    OBVIOUS
<1>1. DP!IInv'
    BY AIsDownload, DownloadKept DEF TransferInv
<1>2. UP!IInv'
    <2>1. UNCHANGED UP!vars
        BY DEF StepA, ASelect, ASend, AReceive, ALocal, uvars, UP!vars
    <2> QED
        BY <2>1, UploadKept DEF TransferInv
<1>3. Holds(toA', UP!Packet)
    <2>1. toA' = toA \/ (toA # <<>> /\ toA' = Tail(toA))
        BY DEF StepA, ASelect, ASend, AReceive, ALocal
    <2> QED
        BY <2>1, ReadHolds DEF TransferInv
<1>4. Holds(toB', DP!Packet) /\ losses' \in 0..MaxLosses
    <2>1. CASE toB' = toB /\ losses' = losses
        BY <2>1 DEF TransferInv
    <2>2. CASE ASend /\ d_writable
        <3>1. d_queue \in Seq(DP!Packet) /\ d_queue # <<>>
            BY <2>2 DEF TransferInv, DP!IInv, DP!TypeOK
        <3>2. Head(d_queue) \in DP!Packet
            BY <3>1, HeadTailProperties
        <3>3. Transmit(toB, Head(d_queue), toB')
            BY <2>2 DEF ASend
        <3> QED
            BY <3>2, <3>3, TransmitHolds DEF TransferInv
    <2> QED
        BY <2>1, <2>2 DEF StepA, ASelect, ASend, AReceive, ALocal
<1>5. restarts' = restarts
    BY DEF StepA, ASelect, ASend, AReceive, ALocal
<1>6. UP!Packet' = UP!Packet /\ DP!Packet' = DP!Packet
    BY DEF UP!Packet, DP!Packet
<1> QED
    BY <1>1, <1>2, <1>3, <1>4, <1>5, <1>6 DEF TransferInv, Holds

(* The same the other way round.                                           *)
LEMMA BKeeps == TransferInv /\ StepB => TransferInv'
<1> SUFFICES ASSUME TransferInv, StepB PROVE TransferInv'
    OBVIOUS
<1>1. UP!IInv'
    BY BIsUpload
<1>2. DP!IInv'
    <2>1. UNCHANGED DP!vars
        BY DEF StepB, BSelect, BSend, BReceive, BLocal, dvars, DP!vars
    <2> QED
        BY <2>1, DownloadKept DEF TransferInv
<1>3. Holds(toB', DP!Packet)
    <2>1. toB' = toB \/ (toB # <<>> /\ toB' = Tail(toB))
        BY DEF StepB, BSelect, BSend, BReceive, BLocal
    <2> QED
        BY <2>1, ReadHolds DEF TransferInv
<1>4. Holds(toA', UP!Packet) /\ losses' \in 0..MaxLosses
    <2>1. CASE toA' = toA /\ losses' = losses
        BY <2>1 DEF TransferInv
    <2>2. CASE BSend /\ u_writable
        <3>1. u_queue \in Seq(UP!Packet) /\ u_queue # <<>>
            BY <2>2 DEF TransferInv, UP!IInv, UP!TypeOK
        <3>2. Head(u_queue) \in UP!Packet
            BY <3>1, HeadTailProperties
        <3>3. Transmit(toA, Head(u_queue), toA')
            BY <2>2 DEF BSend
        <3> QED
            BY <3>2, <3>3, TransmitHolds DEF TransferInv
    <2> QED
        BY <2>1, <2>2 DEF StepB, BSelect, BSend, BReceive, BLocal
<1>5. restarts' = restarts
    BY DEF StepB, BSelect, BSend, BReceive, BLocal
<1> QED
    BY <1>1, <1>2, <1>3, <1>4, <1>5 DEF TransferInv, Holds

-----------------------------------------------------------------------------
(* Starting over.                                                          *)

(* main leaves no peer waiting and no chunk fetched; files outlive it.     *)
LEMMA ARestartKeeps == TransferInv /\ ARestart => TransferInv'
<1> SUFFICES ASSUME TransferInv, ARestart PROVE TransferInv'
    OBVIOUS
<1> USE HalvesAssumption DEF HalvesAssumption, D!DownloadAssumption
<1>1. /\ d_pc' = "select" /\ d_writable' = FALSE /\ d_scan' = 1
      /\ download' = <<>> /\ peer' = [p \in {B} |-> DP!ResetPeer]
      /\ cur_download' = 0 /\ max_conn' = MaxConn /\ num_downloaded' = 0
      /\ whohas' = "due" /\ d_queue' = <<>> /\ d_has' = d_has /\ got' = got
    BY SameDownload DEF ARestart
<1>2. DP!IInv /\ got \in 0..MaxGets /\ d_has \subseteq Hashes
    BY DEF TransferInv, DP!IInv, DP!TypeOK
<1>3. DP!TypeOK'
    <2>1. DP!ResetPeer \in DP!PeerRecord
        <3>1. 0 \in 0..MaxTimeouts /\ 0 \in Nat
            OBVIOUS
        <3> QED
            BY <3>1 DEF DP!ResetPeer, DP!PeerRecord
    <2>2. peer' \in [{B} -> DP!PeerRecord']
        BY <1>1, <2>1 DEF DP!PeerRecord
    <2>3. download' \in Seq(DP!Chunk') /\ d_queue' \in Seq(DP!Packet')
        BY <1>1, EmptySeq
    <2>4. /\ cur_download' \in -ConnBound..0 /\ max_conn' \in MaxConn..ConnBound
          /\ num_downloaded' \in Nat /\ d_scan' \in Nat \ {0}
        BY <1>1
    <2>5. /\ d_pc' \in {"select", "timeouts", "scan", "send", "recv", "crashed"}
          /\ d_writable' \in BOOLEAN /\ ~d_writable' /\ whohas' \in {"due", "fresh"}
        BY <1>1
    <2>6. d_has' \subseteq Hashes /\ got' \in 0..MaxGets
        BY <1>1, <1>2
    <2> QED
        BY <2>2, <2>3, <2>4, <2>5, <2>6 DEF DP!TypeOK
<1>4. DOMAIN download' = {}
    BY <1>1
<1>5. DP!LinksConsistent'
    BY <1>1, <1>4 DEF DP!LinksConsistent, DP!ResetPeer
<1>6. DP!IInv'
    BY <1>1, <1>3, <1>4, <1>5
       DEF DP!IInv, DP!FetchesWhatIsMissing, DP!CountsAgree, DP!AcksCountThePrefix,
           DP!PacketsFit, DP!GetsLeft
<1>7. UP!IInv'
    <2>1. UNCHANGED UP!vars
        BY DEF ARestart, uvars, UP!vars
    <2> QED
        BY <2>1, UploadKept DEF TransferInv
<1>8. Holds(toA', UP!Packet) /\ toB' = toB /\ losses' = losses
    BY RemainderHolds DEF ARestart, TransferInv
<1>9. restarts' \in 0..MaxRestarts
    BY DEF ARestart, TransferInv
<1> QED
    BY <1>6, <1>7, <1>8, <1>9 DEF TransferInv, Holds

(* The other program starts with no upload and none left to pass.          *)
LEMMA BRestartKeeps == TransferInv /\ BRestart => TransferInv'
<1> SUFFICES ASSUME TransferInv, BRestart PROVE TransferInv'
    OBVIOUS
<1>1. /\ u_pc' = "select" /\ u_writable' = FALSE /\ expired' = {} /\ todo' = {}
      /\ u_queue' = <<>> /\ upload' = [p \in {} |-> U!NewSender(CHOOSE h \in Hashes : TRUE)]
      /\ u_has' = u_has
    BY DEF BRestart
<1>2. DOMAIN upload' = {} /\ upload' \in [DOMAIN upload' -> UP!Sender']
    BY <1>1
<1>3. UP!TypeOK'
    <2>1. u_queue' \in Seq(UP!Packet')
        BY <1>1, EmptySeq
    <2>2. u_has' \subseteq Hashes
        BY <1>1 DEF TransferInv, UP!IInv, UP!TypeOK
    <2>3. u_pc' \in {"select", "cc", "recv"} /\ u_writable' \in BOOLEAN /\ ~u_writable'
        BY <1>1
    <2>4. expired' \subseteq DOMAIN upload' /\ todo' \subseteq DOMAIN upload'
        BY <1>1
    <2> QED
        BY <1>2, <2>1, <2>2, <2>3, <2>4 DEF UP!TypeOK
<1>4. UP!IInv'
    BY <1>2, <1>3 DEF UP!IInv, UP!TimerCovers, UP!NeverSentIsFresh, UP!RepeatsHandled,
                      UP!InFlightWithinWindow, UP!SlowStartBelowThreshold
<1>5. DP!IInv'
    <2>1. UNCHANGED DP!vars
        BY DEF BRestart, dvars, DP!vars
    <2> QED
        BY <2>1, DownloadKept DEF TransferInv
<1>6. Holds(toB', DP!Packet) /\ toA' = toA /\ losses' = losses
    BY RemainderHolds DEF BRestart, TransferInv
<1>7. restarts' \in 0..MaxRestarts
    BY DEF BRestart, TransferInv
<1> QED
    BY <1>4, <1>5, <1>6, <1>7 DEF TransferInv, Holds

-----------------------------------------------------------------------------
(* Both halves, both channels and any restarts.                            *)

(* The programs start with nothing on its way.                             *)
LEMMA TransferStart == Init => TransferInv
<1> SUFFICES ASSUME Init PROVE TransferInv
    OBVIOUS
<1>1. DP!IInv
    BY SameDownload, DP!InitInv, HalvesAssumption
       DEF Init, HalvesAssumption, D!PeersAssumption, D!DownloadAssumption, D!FilesAssumption
<1>2. UP!IInv
    BY SameUpload, UP!InitInv, HalvesAssumption
       DEF Init, HalvesAssumption, U!NumPacketsAssumption, U!LimitsAssumption,
           U!ChunksAssumption
<1>3. Holds(toA, UP!Packet) /\ Holds(toB, DP!Packet)
    BY EmptySeq DEF Init, Holds
<1> QED
    BY <1>1, <1>2, <1>3 DEF Init, TransferInv

(* Every step keeps what is kept.                                          *)
LEMMA TransferStep == TransferInv /\ [Next]_vars => TransferInv'
<1> SUFFICES ASSUME TransferInv, UNCHANGED vars PROVE TransferInv'
    BY AKeeps, BKeeps, ARestartKeeps, BRestartKeeps DEF Next
<1>1. UNCHANGED DP!vars /\ UNCHANGED UP!vars
    BY DEF vars, dvars, uvars, DP!vars, UP!vars
<1>2. DP!IInv' /\ UP!IInv'
    BY <1>1, DownloadKept, UploadKept DEF TransferInv
<1> QED
    BY <1>2 DEF vars, TransferInv, Holds

(* Of all behaviours of two peers, both halves keep their types and        *)
(* neither channel ever holds more than a link does, whatever is lost and  *)
(* however often the programs are stopped (peer_run, spiffy's queues).     *)
THEOREM TransferTypes == Spec => []TypeOK
<1>1. TransferInv => TypeOK
    BY SameDownload, SameUpload DEF TransferInv, DP!IInv, UP!IInv, Holds, TypeOK
<1> QED
    BY <1>1, TransferStart, TransferStep, PTL DEF Spec

(* What is proved of a half by itself, for any packets, holds when the     *)
(* packets are those of the other half and both may be started again: the  *)
(* pointers of peers and chunks, the counts and ACKs of the receiver, the  *)
(* timers, repeats, window and threshold of the sender.                    *)
THEOREM HalvesSound ==
    Spec => /\ [](D!LinksConsistent /\ D!FetchesWhatIsMissing)
            /\ [](D!CountsAgree /\ D!AcksCountThePrefix)
            /\ [](U!TimerCovers /\ U!NeverSentIsFresh /\ U!RepeatsHandled)
            /\ [](U!InFlightWithinWindow /\ U!SlowStartBelowThreshold)
<1>1. \A S : D!Cardinality(S) = DP!Cardinality(S)
    BY DEF D!Cardinality, DP!Cardinality
<1>2. /\ DP!LinksConsistent => D!LinksConsistent
      /\ DP!FetchesWhatIsMissing => D!FetchesWhatIsMissing
    BY DEF D!LinksConsistent, DP!LinksConsistent, D!FetchesWhatIsMissing,
           DP!FetchesWhatIsMissing
<1>3. DP!CountsAgree => D!CountsAgree
    BY <1>1 DEF D!CountsAgree, DP!CountsAgree
<1>4. DP!AcksCountThePrefix => D!AcksCountThePrefix
    BY <1>1 DEF D!AcksCountThePrefix, DP!AcksCountThePrefix
<1>5. /\ UP!TimerCovers => U!TimerCovers
      /\ UP!NeverSentIsFresh => U!NeverSentIsFresh
      /\ UP!RepeatsHandled => U!RepeatsHandled
    BY DEF U!TimerCovers, UP!TimerCovers, U!NeverSentIsFresh, UP!NeverSentIsFresh,
           U!RepeatsHandled, UP!RepeatsHandled
<1>6. /\ UP!InFlightWithinWindow => U!InFlightWithinWindow
      /\ UP!SlowStartBelowThreshold => U!SlowStartBelowThreshold
    BY DEF U!InFlightWithinWindow, UP!InFlightWithinWindow, U!SlowStartBelowThreshold,
           UP!SlowStartBelowThreshold
<1>7. TransferInv => /\ D!LinksConsistent /\ D!FetchesWhatIsMissing
                     /\ D!CountsAgree /\ D!AcksCountThePrefix
                     /\ U!TimerCovers /\ U!NeverSentIsFresh /\ U!RepeatsHandled
                     /\ U!InFlightWithinWindow /\ U!SlowStartBelowThreshold
    BY <1>2, <1>3, <1>4, <1>5, <1>6 DEF TransferInv, DP!IInv, UP!IInv
<1> QED
    BY <1>7, TransferStart, TransferStep, PTL DEF Spec
=============================================================================
