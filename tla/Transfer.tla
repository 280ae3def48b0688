------------------------------ MODULE Transfer ------------------------------
(***************************************************************************)
(* Two peers and the network between them: the downloading half of peer A  *)
(* (Download) and the uploading half of peer B (Upload), each with its own *)
(* select loop, joined by one FIFO channel in each direction.  A channel   *)
(* is the queue of a link of the network simulator: it keeps order, holds  *)
(* at most Capacity packets and drops what arrives when it is full; UDP    *)
(* may lose MaxLosses further packets.  Neither reorders nor duplicates:   *)
(* every duplicate in this model comes from the peers' retransmissions.    *)
(* Either program may be stopped and started again: what is in its memory  *)
(* is gone, its has-chunk-file is not.                                     *)
(***************************************************************************)
EXTENDS Integers, Sequences, FiniteSets

CONSTANTS
    A, B,         \* the peer that downloads and the peer that uploads
    NoPeer, Hole, \* see Download
    Hashes, GetFiles, NumPackets, MaxTimeouts, MaxConn, MaxGets, MaxQueue, ConnBound,
    SsthreshInit, DupLimit, DropLimit, MaxWindow,
    Capacity,     \* packets a link holds (10 in the simulator)
    OwnedA, OwnedB, \* the has-chunk-files at start
    MaxLosses,    \* bound: packets the network loses
    MaxRestarts,  \* bound: times a program is started again
    Timely,       \* TRUE: no deadline passes while a packet is on its way, and
                  \* A's, of 15 seconds, not while B resends every 5
    Prompt        \* TRUE: the socket is always writable and a packet that has
                  \* arrived is read by the next iteration

ASSUME NetworkAssumption ==
    /\ A # B /\ Capacity \in Nat \ {0} /\ MaxLosses \in Nat /\ Timely \in BOOLEAN
    /\ Prompt \in BOOLEAN /\ MaxRestarts \in Nat
    /\ OwnedA \subseteq Hashes /\ OwnedB \subseteq Hashes

VARIABLES
    d_pc, d_writable, d_scan, download, peer, cur_download, max_conn,
    num_downloaded, whohas, d_has, got, d_queue,       \* peer A
    u_pc, u_writable, expired, todo, upload, u_has, u_queue,  \* peer B
    toA, toB,     \* the channels
    losses,       \* packets lost so far
    restarts      \* programs started again so far

dvars == <<d_pc, d_writable, d_scan, download, peer, cur_download, max_conn,
           num_downloaded, whohas, d_has, got, d_queue>>
uvars == <<u_pc, u_writable, expired, todo, upload, u_has, u_queue>>
vars  == <<dvars, uvars, toA, toB, losses, restarts>>

D == INSTANCE Download WITH
        Peers <- {B}, PeerList <- <<B>>, Owned <- OwnedA, IoResults <- {TRUE},
        pc <- d_pc, writable <- d_writable, scan <- d_scan, has <- d_has,
        queue <- d_queue

U == INSTANCE Upload WITH
        Peers <- {A}, Owned <- OwnedB, Requests <- GetFiles,
        pc <- u_pc, writable <- u_writable, has <- u_has, queue <- u_queue

(* The assumptions of the two halves on their constants.                   *)
ASSUME HalvesAssumption ==
    /\ D!PeersAssumption /\ D!DownloadAssumption /\ D!FilesAssumption
    /\ U!NumPacketsAssumption /\ U!LimitsAssumption /\ U!ChunksAssumption

-----------------------------------------------------------------------------
Init ==
    /\ D!Init /\ U!Init
    /\ toA = <<>> /\ toB = <<>>
    /\ losses = 0 /\ restarts = 0

(* Nothing queued, nothing on its way.                                     *)
Quiet == d_queue = <<>> /\ u_queue = <<>> /\ toA = <<>> /\ toB = <<>>

(* Mutant: the queue of a link takes one packet more than it holds.        *)
TransmitOver(ch, m, ch2) ==
    \/ Len(ch) <= Capacity /\ ch2 = Append(ch, m) /\ UNCHANGED losses
    \/ Len(ch) > Capacity /\ ch2 = ch /\ UNCHANGED losses

(* The packet m enters the channel that holds ch, becoming ch2: it is      *)
(* dropped at the tail of a full queue, or lost, or appended.              *)
Transmit(ch, m, ch2) ==
    \/ Len(ch) < Capacity /\ ch2 = Append(ch, m) /\ UNCHANGED losses
    \/ Len(ch) >= Capacity /\ ch2 = ch /\ UNCHANGED losses
    \/ Len(ch) < Capacity /\ losses < MaxLosses /\ ch2 = ch /\ losses' = losses + 1

-----------------------------------------------------------------------------
(* Peer A.                                                                 *)

ASelect ==
    /\ D!Select
    /\ Timely /\ ~(Quiet /\ DOMAIN upload = {}) =>
          peer'[B].last_response = peer[B].last_response
    /\ Timely /\ ~Quiet => peer'[B].bad = peer[B].bad /\ whohas' = whohas
    /\ Prompt => d_writable' = (d_queue # <<>>)
    /\ UNCHANGED <<uvars, toA, toB, losses, restarts>>

ASend ==
    /\ D!PeerPacketOps
    /\ IF d_writable THEN Transmit(toB, Head(d_queue), toB')
                     ELSE UNCHANGED <<toB, losses>>
    /\ UNCHANGED <<uvars, toA, restarts>>

AReceive ==
    /\ toA # <<>>
    /\ LET m == Head(toA)
       IN  \/ m.type = "DATA" /\ D!ProcessData(B, m.seq, m.hash)
           \/ m.type = "DATA" /\ D!DataCrash(B, m.seq, m.hash)
           \/ m.type = "DATA" /\ peer[B].chunk = 0 /\ D!Idle
           \/ m.type = "IHAVE" /\ D!ProcessIhave(B, m.hashes)
           \/ m.type = "IHAVE" /\ download = <<>> /\ D!Idle
    /\ toA' = Tail(toA)
    /\ UNCHANGED <<uvars, toB, losses, restarts>>

ALocal ==
    /\ \/ D!TimeoutCheck \/ D!Scan
       \/ D!Idle /\ (Prompt => toA = <<>> \/ ~D!Receiving)
       \/ \E file \in GetFiles : D!ProcessUserGet(file)
    /\ UNCHANGED <<uvars, toA, toB, losses, restarts>>

(* The first packets on the way were lost while the program was down: what *)
(* the operating system does with them is not in the code.                 *)
Remainder(ch) == {SubSeq(ch, k, Len(ch)) : k \in 1..(Len(ch) + 1)}

(* Mutant: the has-chunk-file does not outlive the program.                *)
ARestartForgets ==
    /\ restarts < MaxRestarts
    /\ d_pc' = "select" /\ d_writable' = FALSE /\ d_scan' = 1
    /\ download' = <<>> /\ peer' = [p \in {B} |-> D!ResetPeer]
    /\ cur_download' = 0 /\ max_conn' = MaxConn /\ num_downloaded' = 0
    /\ whohas' = "due" /\ d_queue' = <<>> /\ d_has' = OwnedA
    /\ toA' \in Remainder(toA)
    /\ restarts' = restarts + 1
    /\ UNCHANGED <<got, uvars, toB, losses>>

(* main starts over with an empty download list; got is the user's count.  *)
ARestart ==
    /\ restarts < MaxRestarts
    /\ d_pc' = "select" /\ d_writable' = FALSE /\ d_scan' = 1
    /\ download' = <<>> /\ peer' = [p \in {B} |-> D!ResetPeer]
    /\ cur_download' = 0 /\ max_conn' = MaxConn /\ num_downloaded' = 0
    /\ whohas' = "due" /\ d_queue' = <<>>
    /\ toA' \in Remainder(toA)
    /\ restarts' = restarts + 1
    /\ UNCHANGED <<d_has, got, uvars, toB, losses>>

(* Peer B.                                                                 *)

BSelect ==
    /\ U!Select
    /\ Timely /\ ~Quiet => expired' = {}
    /\ Prompt => u_writable' = (u_queue # <<>>)
    /\ UNCHANGED <<dvars, toA, toB, losses, restarts>>

BSend ==
    /\ U!PeerPacketOps
    /\ IF u_writable THEN Transmit(toA, Head(u_queue), toA')
                     ELSE UNCHANGED <<toA, losses>>
    /\ UNCHANGED <<dvars, toB, restarts>>

BReceive ==
    /\ toB # <<>>
    /\ LET m == Head(toB)
       IN  \/ m.type = "WHOHAS" /\ U!ProcessWhohas(A, m.hashes)
           \/ m.type = "GET" /\ U!ProcessGet(A, m.hash)
           \/ m.type = "GET" /\ A \in DOMAIN upload /\ U!Idle
           \/ m.type = "ACK" /\ U!ProcessAck(A, m.ack)
           \/ m.type = "ACK" /\ A \notin DOMAIN upload /\ U!Idle
    /\ toB' = Tail(toB)
    /\ UNCHANGED <<dvars, toA, losses, restarts>>

BLocal ==
    /\ \/ U!Cc(A)
       \/ U!Idle /\ (Prompt => toB = <<>> \/ ~U!Receiving)
    /\ UNCHANGED <<dvars, toA, toB, losses, restarts>>

BRestart ==
    /\ restarts < MaxRestarts
    /\ u_pc' = "select" /\ u_writable' = FALSE
    /\ expired' = {} /\ todo' = {} /\ u_queue' = <<>>
    /\ upload' = [p \in {} |-> U!NewSender(CHOOSE h \in Hashes : TRUE)]
    /\ toB' \in Remainder(toB)
    /\ restarts' = restarts + 1
    /\ UNCHANGED <<u_has, dvars, toA, losses>>

StepA == ASelect \/ ASend \/ AReceive \/ ALocal
StepB == BSelect \/ BSend \/ BReceive \/ BLocal

Next == StepA \/ StepB \/ ARestart \/ BRestart

Spec == Init /\ [][Next]_vars

(* Each loop runs, and every deadline that can pass again and again does   *)
(* pass.  With Prompt nothing else is needed for packets to travel.        *)
Live ==
    /\ WF_vars(StepA) /\ WF_vars(StepB)
    /\ SF_vars(BSelect /\ expired' # {})
    /\ SF_vars(ASelect /\ peer'[B].last_response # peer[B].last_response)
    /\ SF_vars(ASelect /\ peer'[B].bad # peer[B].bad)
    /\ SF_vars(ASelect /\ whohas' # whohas)

LiveSpec == Spec /\ Live

-----------------------------------------------------------------------------
(* Both halves keep their types, and the channels their capacity.          *)
TypeOK ==
    /\ D!TypeOK /\ U!TypeOK
    /\ Len(toA) <= Capacity /\ Len(toB) <= Capacity
    /\ losses \in 0..MaxLosses /\ restarts \in 0..MaxRestarts

(* An upload is finished only when the receiver has the chunk: "Once all   *)
(* ACK reponses have been received, the sender is done!" (readme.txt:29).  *)
(* ACKs carry neither a chunk nor an attempt; it is the order of the       *)
(* channel, ACKs before the next GET, that keeps them apart.               *)
DoneMeansReceived ==
    \A p \in DOMAIN upload :
        upload[p].last_acked = NumPackets => upload[p].hash \in d_has

(* While nothing is lost and nobody is stopped, chunks are handed over     *)
(* cleanly: a GET that B reads always starts the upload of its chunk.  B   *)
(* refuses a GET, without an answer, while it still uploads to A           *)
(* (peer_sender.c:124), and A asks for the next chunk as soon as it has    *)
(* the last packet of one (peer_receiver.c:249, 347); B's pass of peer_cc  *)
(* between the last ACK and that GET has to be enough (peer.c:236).        *)
GetsAreServed ==
    [][/\ toB # <<>> /\ toB' = Tail(toB) /\ Head(toB).type = "GET"
       /\ losses = 0 /\ restarts' = 0
       => /\ A \notin DOMAIN upload
          /\ A \in DOMAIN upload' /\ upload'[A].hash = Head(toB).hash]_vars

(* "Shouldn't get here!!!" (peer_receiver.c:212): no chunk ever counts     *)
(* more bytes than it has.                                                 *)
NeverTooMuch ==
    \A i \in DOMAIN download : download[i].total_data <= NumPackets

(* "queue up packets up to window size" (peer.c:276): after a pass of      *)
(* peer_cc an unfinished upload has packets outstanding.                   *)
SomethingOutstanding ==
    \A p \in DOMAIN upload :
        u_pc = "recv" => upload[p].last_acked < upload[p].last_sent

(* "Upon receiving a WHOHAS request, the peer checks for the chunks and    *)
(* returns an IHAVE response" (readme.txt:21-22): once a flood has been    *)
(* answered and nothing was lost, A knows B for every chunk B has.         *)
FloodFindsOwners ==
    (/\ Quiet /\ whohas = "fresh"
     /\ d_pc = "select" /\ u_pc = "select"
     /\ losses = 0 /\ restarts = 0)
        => \A i \in DOMAIN download : download[i].hash \in u_has => B \in download[i].peers

(* What the user asked for arrives: the peers recover from losses, from    *)
(* uploads given up, from chunks given up and from a source that was       *)
(* stopped and started again; a GET typed again after A was is not held up *)
(* by the upload B still has for the one before (peer_receiver.c:106).     *)
GetCompletes == download # <<>> ~> download = <<>>

=============================================================================
