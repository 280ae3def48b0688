------------------------------ MODULE Download ------------------------------
(***************************************************************************)
(* The downloading half of one peer: the list of wanted chunks and the     *)
(* peer records of bt_parse.c, the user's GET (peer.c), and the timeouts,  *)
(* the scan for chunks to GET and the IHAVE and DATA handlers of           *)
(* peer_receiver.c, with the output queue they write to.                   *)
(*                                                                         *)
(* One iteration of the loop of peer_run is                                *)
(*   Select ; TimeoutCheck ; one Scan... step per chunk ; PeerPacketOps ;  *)
(*   one Process... step, or Idle.                                         *)
(* A pointer to a chunk is its position in the list, 0 being NULL.  Clocks *)
(* are abstracted to which deadlines Select finds to have passed.  Sizes   *)
(* are counted in packets: every DATA packet of a chunk but its last has   *)
(* the same length, so the byte count reaches BT_CHUNK_SIZE exactly when   *)
(* the packet count reaches NumPackets.                                    *)
(***************************************************************************)
EXTENDS Integers, Sequences, FiniteSets

CONSTANTS
    Peers,       \* the other peers of the peer list file
    PeerList,    \* their order in config->peers
    NoPeer,      \* a NULL bt_peer_t
    Hashes,      \* chunk hashes
    Hole,        \* the place of a packet not received yet
    Owned,       \* hashes in the has-chunk-file at start
    GetFiles,    \* the chunk files a user may GET: sequences of hashes
    NumPackets,  \* DATA packets per chunk (354 in the code)
    MaxTimeouts, \* MAX_TIMEOUTS, 5 in the code
    MaxConn,     \* the -m option
    IoResults,   \* {TRUE}, or {TRUE, FALSE} when opening files may fail
    MaxGets,     \* bound: GETs the user types
    MaxQueue,    \* bound: no packet is taken while more are queued
    ConnBound    \* bound: where the connection counters stop counting

ASSUME PeersAssumption ==
    PeerList \in Seq(Peers) /\ NoPeer \notin Peers
ASSUME DownloadAssumption ==
    /\ NumPackets \in Nat \ {0} /\ MaxTimeouts \in Nat \ {0}
    /\ MaxConn \in Nat /\ MaxGets \in Nat /\ MaxQueue \in Nat
    /\ ConnBound \in Nat /\ MaxConn <= ConnBound
    /\ IoResults \subseteq BOOLEAN
ASSUME FilesAssumption ==
    /\ Hole \notin Hashes /\ Owned \subseteq Hashes
    /\ GetFiles \subseteq Seq(Hashes)

VARIABLES
    pc,             \* where the select loop is
    writable,       \* the socket was reported writable by this select
    scan,           \* the chunk get_all_the_thingz has come to
    download,       \* config->download, the list of wanted chunks
    peer,           \* the mutable part of each bt_peer_t
    cur_download, max_conn, num_downloaded,
    whohas,         \* "due" when 15 seconds have passed since the last flood
    has,            \* the has-chunk-file
    got,            \* GOT lines printed
    queue           \* the output queue, head first

vars == <<pc, writable, scan, download, peer, cur_download, max_conn,
          num_downloaded, whohas, has, got, queue>>
counts == <<cur_download, max_conn, num_downloaded>>

-----------------------------------------------------------------------------
Whohas(p, hs) == [type |-> "WHOHAS", to |-> p, hashes |-> hs]
Get(p, h)     == [type |-> "GET", to |-> p, hash |-> h]
Ack(p, n)     == [type |-> "ACK", to |-> p, ack |-> n]

Packet ==
    [type : {"WHOHAS"}, to : Peers, hashes : Seq(Hashes)]
        \cup [type : {"GET"}, to : Peers, hash : Hashes]
        \cup [type : {"ACK"}, to : Peers, ack : 0..NumPackets]

(* A chunk of the list.  heap tells whether packets still points to        *)
(* allocated nodes; total_data = NumPackets + 1 stands for any size above  *)
(* that of a chunk.                                                        *)
Chunk ==
    [hash : Hashes, next_expected : 1..(NumPackets + 1), downloaded : {0, 1},
     total_data : 0..(NumPackets + 1), peer : Peers \cup {NoPeer},
     peers : SUBSET Peers, packets : Seq(Hashes \cup {Hole}),
     heap : {"live", "freed"}]

NewChunk(h) ==
    [hash |-> h, next_expected |-> 1, downloaded |-> IF h \in has THEN 1 ELSE 0,
     total_data |-> IF h \in has THEN NumPackets ELSE 0, peer |-> NoPeer,
     peers |-> {}, packets |-> <<>>, heap |-> "live"]

(* last_response is -1, at most TIMEOUT_MILLIS ago, or longer ago; bad is  *)
(* is_bad of the code: a bad_time less than BAD_RESET_MILLIS ago.          *)
PeerRecord ==
    [downloading : {0, 1}, consec_timeouts : 0..MaxTimeouts, bad : {0, 1},
     last_response : {"none", "recent", "old"}, chunk : Nat]

ResetPeer ==
    [downloading |-> 0, consec_timeouts |-> 0, bad |-> 0,
     last_response |-> "none", chunk |-> 0]

(* Mutant: the peer keeps pointing at the chunk.                           *)
ReleasedHolding(r) == [r EXCEPT !.downloading = 0, !.last_response = "none"]

Released(r) == [r EXCEPT !.downloading = 0, !.last_response = "none", !.chunk = 0]

Heard(r) == [r EXCEPT !.consec_timeouts = 0, !.bad = 0]

num_chunks == Len(download)

Flood == [k \in DOMAIN PeerList |->
             Whohas(PeerList[k], [i \in DOMAIN download |-> download[i].hash])]

-----------------------------------------------------------------------------
(* add_packet_list: fill the packet's place, creating the empty places     *)
(* before it, unless it is filled already; then find the first gap.        *)

(* Mutant: one past the first gap.                                         *)
FirstGapPast(packets) ==
    1 + CHOOSE k \in 1..(Len(packets) + 1) :
           /\ \A i \in 1..(k - 1) : packets[i] # Hole
           /\ k \in DOMAIN packets => packets[k] = Hole

FirstGap(packets) ==
    CHOOSE k \in 1..(Len(packets) + 1) :
        /\ \A i \in 1..(k - 1) : packets[i] # Hole
        /\ k \in DOMAIN packets => packets[k] = Hole

Placed(packets, n, h) ==
    [i \in 1..(IF n > Len(packets) THEN n ELSE Len(packets)) |->
        IF i = n THEN h ELSE IF i <= Len(packets) THEN packets[i] ELSE Hole]

(* Mutants: the number that came in is taken for the prefix; a repeated    *)
(* packet replaces the one held.                                           *)
AddPacketListBlind(c, n, h) ==
    IF n \in DOMAIN c.packets /\ c.packets[n] # Hole THEN c
    ELSE [c EXCEPT !.packets = Placed(c.packets, n, h),
                   !.total_data = IF @ <= NumPackets THEN @ + 1 ELSE @,
                   !.next_expected = n + 1]

AddPacketListOver(c, n, h) ==
    [c EXCEPT !.packets = Placed(c.packets, n, h),
              !.total_data = IF n \in DOMAIN c.packets /\ c.packets[n] # Hole
                             THEN @ ELSE @ + 1,
              !.next_expected = FirstGap(Placed(c.packets, n, h))]

AddPacketList(c, n, h) ==
    IF n \in DOMAIN c.packets /\ c.packets[n] # Hole THEN c
    ELSE [c EXCEPT !.packets = Placed(c.packets, n, h),
                   !.total_data = IF @ <= NumPackets THEN @ + 1 ELSE @,
                   !.next_expected = FirstGap(Placed(c.packets, n, h))]

(* What write_to_buffer and the SHA-1 of the buffer can come to.  A list   *)
(* with a gap, or short of a chunk, leaves the outcome to whatever the     *)
(* stack and the heap hold: data_len of a gap is never set and its data is *)
(* NULL.                                                                   *)
Verdicts(c) ==
    IF Len(c.packets) = NumPackets /\ \A i \in DOMAIN c.packets : c.packets[i] # Hole
    THEN {IF \A i \in DOMAIN c.packets : c.packets[i] = c.hash THEN "match" ELSE "mismatch"}
    ELSE {"match", "mismatch", "crash"}

-----------------------------------------------------------------------------
Init ==
    /\ pc = "select"
    /\ writable = FALSE
    /\ scan = 1
    /\ download = <<>>
    /\ peer = [p \in Peers |-> ResetPeer]
    /\ cur_download = 0 /\ max_conn = MaxConn /\ num_downloaded = 0
    /\ whohas = "due"
    /\ has = Owned
    /\ got = 0
    /\ queue = <<>>

(* select() returns after any lapse of time.  Deadlines are at least       *)
(* fifteen seconds long, enough to drain the output queue, so none passes  *)
(* while more than MaxQueue packets are in it.                             *)
Drained == Len(queue) <= MaxQueue

Select ==
    /\ pc = "select"
    /\ pc' = "timeouts"
    /\ writable' \in {FALSE, queue # <<>>}
    /\ \E late \in SUBSET {p \in Peers : Drained /\ peer[p].last_response = "recent"},
          forgiven \in SUBSET {p \in Peers : Drained /\ peer[p].bad = 1} :
          peer' = [p \in Peers |->
                     [peer[p] EXCEPT !.last_response = IF p \in late THEN "old" ELSE @,
                                     !.bad = IF p \in forgiven THEN 0 ELSE @]]
    /\ whohas' \in {whohas} \cup (IF Drained THEN {"due"} ELSE {})
    /\ UNCHANGED <<scan, download, counts, has, got, queue>>

(* timeout_check.  A peer that has been silent too long gets one more      *)
(* timeout in every iteration of the loop.                                 *)
TimedOut(p) == peer[p].last_response = "old"

GivenUp == {p \in Peers : TimedOut(p) /\ peer[p].consec_timeouts + 1 >= MaxTimeouts}

(* Mutant: giving a peer up does not stop its clock.                       *)
AfterTimeoutStuck(p) ==
    IF p \in GivenUp
    THEN [peer[p] EXCEPT !.downloading = 0, !.chunk = 0, !.bad = 1,
                         !.consec_timeouts = MaxTimeouts]
    ELSE IF TimedOut(p) THEN [peer[p] EXCEPT !.consec_timeouts = @ + 1]
                        ELSE peer[p]

AfterTimeout(p) ==
    IF p \in GivenUp
    THEN [Released(peer[p]) EXCEPT !.bad = 1, !.consec_timeouts = MaxTimeouts]
    ELSE IF TimedOut(p) THEN [peer[p] EXCEPT !.consec_timeouts = @ + 1]
                        ELSE peer[p]

(* Mutant: the chunk keeps pointing at the peer.                           *)
AbandonedHeld(c) ==
    [c EXCEPT !.next_expected = 1, !.total_data = 0, !.downloaded = 0, !.heap = "freed"]

Abandoned(c) ==
    [c EXCEPT !.peer = NoPeer, !.next_expected = 1, !.total_data = 0,
              !.downloaded = 0, !.heap = "freed"]

TimeoutCheck ==
    /\ pc = "timeouts"
    /\ pc' = "scan" /\ scan' = 1
    /\ IF download = <<>> THEN UNCHANGED <<download, peer>>
       ELSE /\ peer' = [p \in Peers |-> AfterTimeout(p)]
            /\ download' = [i \in DOMAIN download |->
                              IF \E p \in GivenUp : peer[p].chunk = i
                              THEN Abandoned(download[i]) ELSE download[i]]
    /\ UNCHANGED <<writable, counts, whohas, has, got, queue>>

-----------------------------------------------------------------------------
(* get_all_the_thingz, chunk by chunk.                                     *)

Scanning == pc = "scan" /\ scan \in DOMAIN download /\ cur_download < max_conn

Wanted(c) == c.downloaded = 0 /\ c.peer = NoPeer

(* Mutant: send_get does not start a new packet list.                      *)
ScanGetKeeps(p) ==
    /\ Scanning /\ Wanted(download[scan])
    /\ p \in download[scan].peers /\ peer[p].downloading = 0 /\ peer[p].bad = 0
    /\ max_conn' = IF max_conn < ConnBound THEN max_conn + 1 ELSE max_conn
    /\ peer' = [peer EXCEPT ![p].chunk = scan, ![p].downloading = 1,
                            ![p].last_response = "recent"]
    /\ download' = [download EXCEPT ![scan].peer = p, ![scan].next_expected = 1]
    /\ queue' = Append(queue, Get(p, download[scan].hash))
    /\ scan' = scan + 1
    /\ UNCHANGED <<pc, writable, cur_download, num_downloaded, whohas, has, got>>

(* Mutant: a peer something is being fetched from already is asked again.  *)
ScanGetBusy(p) ==
    /\ Scanning /\ Wanted(download[scan])
    /\ p \in download[scan].peers /\ peer[p].bad = 0
    /\ max_conn' = IF max_conn < ConnBound THEN max_conn + 1 ELSE max_conn
    /\ peer' = [peer EXCEPT ![p].chunk = scan, ![p].downloading = 1,
                            ![p].last_response = "recent"]
    /\ download' = [download EXCEPT ![scan].peer = p, ![scan].next_expected = 1,
                                    ![scan].packets = <<>>, ![scan].heap = "live"]
    /\ queue' = Append(queue, Get(p, download[scan].hash))
    /\ scan' = scan + 1
    /\ UNCHANGED <<pc, writable, cur_download, num_downloaded, whohas, has, got>>

(* send_get.  It is max_conn that counts up here, not cur_download.        *)
ScanGet(p) ==
    /\ Scanning /\ Wanted(download[scan])
    /\ p \in download[scan].peers /\ peer[p].downloading = 0 /\ peer[p].bad = 0
    /\ max_conn' = IF max_conn < ConnBound THEN max_conn + 1 ELSE max_conn
    /\ peer' = [peer EXCEPT ![p].chunk = scan, ![p].downloading = 1,
                            ![p].last_response = "recent"]
    /\ download' = [download EXCEPT ![scan].peer = p, ![scan].next_expected = 1,
                                    ![scan].packets = <<>>, ![scan].heap = "live"]
    /\ queue' = Append(queue, Get(p, download[scan].hash))
    /\ scan' = scan + 1
    /\ UNCHANGED <<pc, writable, cur_download, num_downloaded, whohas, has, got>>

(* No peer that may have the chunk is in good standing: flood again, if    *)
(* the last flood is old enough.                                           *)
ScanWhohas ==
    /\ Scanning /\ Wanted(download[scan])
    /\ \A p \in download[scan].peers : peer[p].bad = 1
    /\ queue' = IF whohas = "due" THEN queue \o Flood ELSE queue
    /\ whohas' = "fresh"
    /\ scan' = scan + 1
    /\ UNCHANGED <<pc, writable, download, peer, counts, has, got>>

ScanSkip ==
    /\ Scanning
    /\ Wanted(download[scan]) =>
          /\ \A p \in download[scan].peers : peer[p].downloading = 1 \/ peer[p].bad = 1
          /\ \E p \in download[scan].peers : peer[p].bad = 0
    /\ scan' = scan + 1
    /\ UNCHANGED <<pc, writable, download, peer, counts, whohas, has, got, queue>>

ScanEnd ==
    /\ pc = "scan" /\ ~Scanning
    /\ pc' = "send" /\ scan' = 1
    /\ UNCHANGED <<writable, download, peer, counts, whohas, has, got, queue>>

PeerPacketOps ==
    /\ pc = "send"
    /\ pc' = "recv"
    /\ queue' = IF writable THEN Tail(queue) ELSE queue
    /\ writable' = FALSE
    /\ UNCHANGED <<scan, download, peer, counts, whohas, has, got>>

-----------------------------------------------------------------------------
Receiving == pc = "recv" /\ Len(queue) <= MaxQueue

(* finish_get: the output file is written from the master data file and    *)
(* the list is freed, unless a file cannot be opened or read.              *)
FinishGet(list) ==
    \/ TRUE \in IoResults /\ download' = <<>> /\ got' = got + 1
    \/ FALSE \in IoResults /\ download' = list /\ UNCHANGED got

(* Mutant: the chunks counted for the last GET count for this one.         *)
ProcessUserGetCounting(file) ==
    LET list == [i \in DOMAIN file |-> NewChunk(file[i])]
        owned == Cardinality({i \in DOMAIN file : file[i] \in has})
    IN  /\ Receiving /\ download = <<>> /\ got < MaxGets
        /\ peer' = [p \in Peers |-> ResetPeer]
        /\ cur_download' = 0 /\ num_downloaded' = num_downloaded + owned
        /\ UNCHANGED <<queue, whohas>>
        /\ IF owned = Len(file) THEN FinishGet(list)
                                ELSE download' = list /\ UNCHANGED got
        /\ pc' = "select"
        /\ UNCHANGED <<writable, scan, max_conn, has>>

(* A GET typed by the user while none is going on.                         *)
ProcessUserGet(file) ==
    LET list == [i \in DOMAIN file |-> NewChunk(file[i])]
        owned == Cardinality({i \in DOMAIN file : file[i] \in has})
    IN  /\ Receiving /\ download = <<>> /\ got < MaxGets
        /\ peer' = [p \in Peers |-> ResetPeer]
        /\ cur_download' = 0 /\ num_downloaded' = owned
        /\ IF file # <<>> /\ whohas = "due"
           THEN /\ queue' = queue \o [k \in DOMAIN PeerList |-> Whohas(PeerList[k], file)]
                /\ whohas' = "fresh"
           ELSE UNCHANGED <<queue, whohas>>
        /\ IF owned = Len(file) THEN FinishGet(list)
                                ELSE download' = list /\ UNCHANGED got
        /\ pc' = "select"
        /\ UNCHANGED <<writable, scan, max_conn, has>>

(* Each hash of the IHAVE adds the peer to the first chunk with that hash. *)
ProcessIhave(p, hs) ==
    /\ Receiving /\ download # <<>>
    /\ peer' = [peer EXCEPT ![p] = Heard(@)]
    /\ download' = [i \in DOMAIN download |->
          IF /\ download[i].hash \in hs
             /\ \A j \in 1..(i - 1) : download[j].hash # download[i].hash
          THEN [download[i] EXCEPT !.peers = @ \cup {p}]
          ELSE download[i]]
    /\ pc' = "select"
    /\ UNCHANGED <<writable, scan, counts, whohas, has, got, queue>>

(* Mutant: the GET is finished when one chunk is still missing.            *)
FinishChunkEarly(i, c, peers) ==
    /\ peer' = [peers EXCEPT ![c.peer] = Released(@)]
    /\ UNCHANGED cur_download
    /\ "match" \in Verdicts(c)
    /\ has' = has \cup {c.hash}
    /\ num_downloaded' = num_downloaded + 1
    /\ LET list == [download EXCEPT ![i] = [c EXCEPT !.peer = NoPeer, !.downloaded = 1]]
       IN  IF num_downloaded + 2 >= num_chunks THEN FinishGet(list)
                                              ELSE download' = list /\ UNCHANGED got

(* finish_chunk for chunk i, whose record has become c.                    *)
FinishChunk(i, c, peers) ==
    /\ peer' = [peers EXCEPT ![c.peer] = Released(@)]
    /\ cur_download' = IF cur_download > -ConnBound THEN cur_download - 1 ELSE cur_download
    /\ \/ \* wrong hash, or the has-chunk-file cannot be appended to
          /\ "mismatch" \in Verdicts(c) \/ FALSE \in IoResults
          /\ download' = [download EXCEPT ![i] = [c EXCEPT !.peer = NoPeer]]
          /\ UNCHANGED <<num_downloaded, has, got>>
       \/ /\ "match" \in Verdicts(c)
          /\ has' = has \cup {c.hash}
          /\ num_downloaded' = num_downloaded + 1
          /\ LET list == [download EXCEPT ![i] = [c EXCEPT !.peer = NoPeer, !.downloaded = 1]]
             IN  IF num_downloaded + 1 = num_chunks THEN FinishGet(list)
                                                    ELSE download' = list /\ UNCHANGED got

(* DATA number n from p; the payload is a packet of chunk h.  (The code    *)
(* takes any number up to MAX_SEQNUM, the bytes of a chunk; no peer of     *)
(* this program sends one above NumPackets, and none is enumerated.)       *)
ProcessData(p, n, h) ==
    /\ Receiving /\ peer[p].chunk # 0
    /\ LET i == peer[p].chunk
           c == AddPacketList(download[i], n, h)
           heard == [peer EXCEPT ![p] = [Heard(@) EXCEPT !.last_response = "recent"]]
       IN  /\ IF c.total_data < NumPackets
              THEN /\ download' = [download EXCEPT ![i] = c]
                   /\ peer' = heard
                   /\ UNCHANGED <<cur_download, num_downloaded, has, got>>
              ELSE FinishChunk(i, c, heard)
           /\ queue' = Append(queue, Ack(p, c.next_expected - 1))
    /\ pc' = "select"
    /\ UNCHANGED <<writable, scan, max_conn, whohas>>

(* The memcpy of write_to_buffer faults.                                   *)
DataCrash(p, n, h) ==
    /\ Receiving /\ peer[p].chunk # 0
    /\ LET c == AddPacketList(download[peer[p].chunk], n, h)
       IN  c.total_data >= NumPackets /\ "crash" \in Verdicts(c)
    /\ pc' = "crashed"
    /\ UNCHANGED <<writable, scan, download, peer, counts, whohas, has, got, queue>>

(* No packet, or one that is thrown out: DATA from a peer nothing is being *)
(* fetched from, IHAVE when nothing is wanted, malformed packets.          *)
Idle ==
    /\ pc = "recv"
    /\ pc' = "select"
    /\ UNCHANGED <<writable, scan, download, peer, counts, whohas, has, got, queue>>

-----------------------------------------------------------------------------
Scan == (\E p \in Peers : ScanGet(p)) \/ ScanWhohas \/ ScanSkip \/ ScanEnd

Receive ==
    \/ \E file \in GetFiles : ProcessUserGet(file)
    \/ \E p \in Peers, hs \in SUBSET Hashes : ProcessIhave(p, hs)
    \/ \E p \in Peers, n \in 1..NumPackets, h \in Hashes : ProcessData(p, n, h)
    \/ \E p \in Peers, n \in 1..NumPackets, h \in Hashes : DataCrash(p, n, h)
    \/ Idle

Next == Select \/ TimeoutCheck \/ Scan \/ PeerPacketOps \/ Receive

Spec == Init /\ [][Next]_vars

(* The loop never blocks: select has a 100 ms limit.                       *)
LiveSpec == Spec /\ WF_vars(Next)

-----------------------------------------------------------------------------
(* Every variable has its type (bt_parse.h:24-113).                        *)
TypeOK ==
    /\ pc \in {"select", "timeouts", "scan", "send", "recv", "crashed"}
    /\ writable \in BOOLEAN
    /\ writable => queue # <<>>
    /\ scan \in Nat \ {0}
    /\ download \in Seq(Chunk)
    /\ peer \in [Peers -> PeerRecord]
    /\ cur_download \in -ConnBound..0
    /\ max_conn \in MaxConn..ConnBound
    /\ num_downloaded \in Nat
    /\ whohas \in {"due", "fresh"}
    /\ has \subseteq Hashes
    /\ got \in 0..MaxGets
    /\ queue \in Seq(Packet)

(* A peer record and a chunk point at each other or neither points at all, *)
(* and a peer is waited for exactly while it has a chunk.  timeout_check   *)
(* and finish_chunk follow both pointers without testing them              *)
(* (peer_receiver.c:23, 249), and a freed list must leave none behind.     *)
LinksConsistent ==
    /\ \A p \in Peers :
          LET r == peer[p]
          IN  /\ r.chunk # 0 => /\ r.chunk \in DOMAIN download
                                /\ download[r.chunk].peer = p
              /\ r.chunk # 0 <=> r.downloading = 1
              /\ r.chunk # 0 <=> r.last_response # "none"
    /\ \A i \in DOMAIN download :
          download[i].peer # NoPeer => peer[download[i].peer].chunk = i

(* A chunk being fetched is one still missing, and is fetched into a       *)
(* packet list that is allocated: the list timeout_check frees is never    *)
(* walked again (peer_receiver.c:27, 180, bt_parse.c:347).                 *)
FetchesWhatIsMissing ==
    \A i \in DOMAIN download :
        /\ download[i].peer # NoPeer => download[i].downloaded = 0
        /\ download[i].peer # NoPeer \/ download[i].downloaded = 1 =>
              download[i].heap = "live"

(* num_downloaded, on which finish_get hangs, counts the chunks marked     *)
(* downloaded, and each of them is in the has-chunk-file by then           *)
(* (peer_receiver.c:282-297, bt_parse.c:313-318).                          *)
CountsAgree ==
    download # <<>> =>
        /\ num_downloaded = Cardinality({i \in DOMAIN download : download[i].downloaded = 1})
        /\ \A i \in DOMAIN download : download[i].downloaded = 1 => download[i].hash \in has

(* What the ACKs say: while a chunk is fetched, exactly the packets before *)
(* next_expected are there, and the byte count, at which the chunk counts  *)
(* as complete, is that of the packets held (bt_parse.c:269-286,           *)
(* peer_receiver.c:210, 485).  Only before the first packet may it be that *)
(* of an attempt whose hash failed: send_get does not reset it             *)
(* (peer_receiver.c:179-180, 267).                                         *)
AcksCountThePrefix ==
    \A i \in DOMAIN download :
        LET c == download[i]
            held == {k \in DOMAIN c.packets : c.packets[k] # Hole}
        IN  c.peer # NoPeer =>
              /\ \A k \in 1..(c.next_expected - 1) : c.packets[k] # Hole
              /\ c.next_expected \notin held
              /\ \/ c.total_data = Cardinality(held)
                 \/ c.total_data >= NumPackets /\ held = {}

(* GOT is printed only when every chunk the user asked for is owned        *)
(* (finish_get, peer_receiver.c:455).                                      *)
GotMeansAll ==
    [][got' # got =>
          \A i \in DOMAIN download : download[i].hash \in has']_vars

(* A fetch loses no ground: as long as a chunk stays with the same peer,   *)
(* the next packet expected never goes back and no packet held is changed  *)
(* (add_packet_list; bt_parse.c:240 keeps the first copy).                 *)
FetchKeepsGround ==
    [][\A i \in DOMAIN download \cap DOMAIN download' :
          download[i].peer # NoPeer /\ download'[i].peer = download[i].peer =>
             /\ download'[i].next_expected >= download[i].next_expected
             /\ \A k \in DOMAIN download[i].packets :
                   download[i].packets[k] # Hole =>
                      download'[i].packets[k] = download[i].packets[k]]_vars

(* Packets, timers, counters and pointers together do what the user was    *)
(* promised: the code implements the abstract specification Fetch.  Two    *)
(* chunks are never fetched from one peer (peer_receiver.c:346), a chunk   *)
(* held is never given up, and GOT is printed with the last chunk and not  *)
(* before (peer_receiver.c:249-315, 455).                                  *)
FetchList ==
    [i \in DOMAIN download |->
        [hash |-> download[i].hash, held |-> download[i].downloaded = 1,
         from |-> download[i].peer]]

F == INSTANCE Fetch WITH list <- FetchList

ImplementsFetch == F!Spec

(* A peer that has gone silent does not hold its chunk for ever.  Only     *)
(* hearing IHAVEs from it again and again can keep it: they restart the    *)
(* count of timeouts without counting as a response to the GET             *)
(* (timeout_check; peer_receiver.c:117).                                   *)
SilentPeersReleased ==
    \A p \in Peers :
        <>[](peer[p].last_response = "old" /\ pc # "crashed") =>
            []<>(peer[p].consec_timeouts = 0)

=============================================================================
