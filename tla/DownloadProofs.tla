---------------------------- MODULE DownloadProofs ----------------------------
(***************************************************************************)
(* The invariants of Download, for any peers, files, chunk size and        *)
(* limits, what its steps may do, and that it implements Fetch.            *)
(*                                                                         *)
(* IInv is inductive, and its parts need each other: peers and chunks      *)
(* point at each other after a list was freed only because finish_get      *)
(* runs with the last chunk (CountsAgree), when nothing is being fetched   *)
(* any more (FetchesWhatIsMissing); next_expected has its type because no  *)
(* packet list is longer than a chunk (PacketsFit).                        *)
(***************************************************************************)
EXTENDS Download, LeastNumber, SequenceTheorems, FiniteSetTheorems, TLAPS

(* A packet list is no longer than a chunk, and while the chunk is         *)
(* fetched the next packet expected is at most one past its end.  One that *)
(* nobody fetches counts no bytes, or all of them: its attempt was given   *)
(* up (timeout_check clears the count) or went to its end (finish_chunk    *)
(* does not).                                                              *)
Fits(c) ==
    /\ Len(c.packets) <= NumPackets
    /\ c.peer # NoPeer => c.next_expected <= Len(c.packets) + 1
    /\ c.peer = NoPeer => c.total_data = 0 \/ c.total_data >= NumPackets

PacketsFit == \A i \in DOMAIN download : Fits(download[i])

(* The bound on GETs counts the one that is going on.                      *)
GetsLeft == download # <<>> => got < MaxGets

IInv ==
    /\ TypeOK
    /\ LinksConsistent
    /\ FetchesWhatIsMissing
    /\ CountsAgree
    /\ AcksCountThePrefix
    /\ PacketsFit
    /\ GetsLeft

USE PeersAssumption, DownloadAssumption, FilesAssumption
    DEF PeersAssumption, DownloadAssumption, FilesAssumption

-----------------------------------------------------------------------------
(* Packet lists.                                                           *)
PacketList == Seq(Hashes \cup {Hole})

Filled(packets) == {k \in DOMAIN packets : packets[k] # Hole}

(* The search of add_packet_list for the first gap ends, at the latest one *)
(* past the end of the list.                                               *)
LEMMA FirstGapOK ==
    ASSUME NEW packets \in PacketList
    PROVE  /\ FirstGap(packets) \in 1..(Len(packets) + 1)
           /\ \A k \in 1..(FirstGap(packets) - 1) : packets[k] # Hole
           /\ FirstGap(packets) \in DOMAIN packets => packets[FirstGap(packets)] = Hole
<1> DEFINE Gap(k) == /\ \A i \in 1..(k - 1) : packets[i] # Hole
                     /\ k \in DOMAIN packets => packets[k] = Hole
           gaps == {k \in 1..(Len(packets) + 1) : k \in DOMAIN packets => packets[k] = Hole}
<1>1. Len(packets) \in Nat /\ DOMAIN packets = 1..Len(packets)
    BY LenProperties DEF PacketList
<1>2. gaps \in SUBSET Nat /\ Len(packets) + 1 \in gaps
    BY <1>1
<1>3. Min(gaps) \in gaps /\ \A k \in gaps : Min(gaps) <= k
    <2> HIDE DEF gaps
    <2> QED
        BY <1>2, LeastIsOne
<1>4. Gap(Min(gaps))
    <2>1. ASSUME NEW i \in 1..(Min(gaps) - 1) PROVE packets[i] # Hole
        <3>1. i \in 1..(Len(packets) + 1) /\ ~(Min(gaps) <= i)
            BY <1>1, <1>3
        <3> QED
            BY <1>3, <3>1
    <2> QED
        BY <1>3, <2>1
<1>5. \E k \in 1..(Len(packets) + 1) : Gap(k)
    BY <1>3, <1>4
<1>6. FirstGap(packets) = CHOOSE k \in 1..(Len(packets) + 1) : Gap(k)
    BY DEF FirstGap
<1>7. FirstGap(packets) \in 1..(Len(packets) + 1) /\ Gap(FirstGap(packets))
    <2> HIDE DEF Gap
    <2> QED
        BY <1>5, <1>6
<1> QED
    BY <1>7

(* The list new is packets with h at n.                                    *)
Extended(packets, new, n, h) ==
    /\ new \in PacketList
    /\ Len(new) <= NumPackets /\ Len(packets) <= Len(new) /\ n <= Len(new)
    /\ new[n] = h
    /\ \A k \in DOMAIN packets \ {n} : new[k] = packets[k]
    /\ Filled(new) = Filled(packets) \cup {n}

(* A packet put in its place leaves the others where they are.             *)
LEMMA PlacedOK ==
    ASSUME NEW packets \in PacketList, Len(packets) <= NumPackets,
           NEW n \in 1..NumPackets, NEW h \in Hashes
    PROVE  Extended(packets, Placed(packets, n, h), n, h)
<1> DEFINE m == IF n > Len(packets) THEN n ELSE Len(packets)
           at(i) == IF i = n THEN h ELSE IF i <= Len(packets) THEN packets[i] ELSE Hole
<1>1. Len(packets) \in Nat /\ DOMAIN packets = 1..Len(packets)
      /\ \A k \in 1..Len(packets) : packets[k] \in Hashes \cup {Hole}
    BY LenProperties, ElementOfSeq DEF PacketList
<1>2. m \in Nat /\ m <= NumPackets /\ Len(packets) <= m /\ n \in 1..m
    BY <1>1
<1>3. \A i \in 1..m : at(i) \in Hashes \cup {Hole}
    BY <1>1
<1>4. Placed(packets, n, h) = [i \in 1..m |-> at(i)]
    BY DEF Placed
<1> HIDE DEF m
<1>5. Placed(packets, n, h) \in PacketList /\ Len(Placed(packets, n, h)) = m
    <2> HIDE DEF at
    <2>1. [i \in 1..m |-> at(i)] \in Seq(Hashes \cup {Hole})
        BY <1>2, <1>3, IsASeq
    <2>2. Len([i \in 1..m |-> at(i)]) = m
        BY <1>2, <2>1, LenProperties
    <2> QED
        BY <1>4, <2>1, <2>2 DEF PacketList
<1>6. \A i \in 1..m : Placed(packets, n, h)[i] = at(i)
    BY <1>4
<1>7. DOMAIN Placed(packets, n, h) = 1..m
    BY <1>4
<1>8. Filled(Placed(packets, n, h)) = Filled(packets) \cup {n}
    <2>1. ASSUME NEW i
          PROVE  i \in Filled(Placed(packets, n, h)) <=> i \in Filled(packets) \cup {n}
        <3>1. CASE i \in 1..m
            BY <1>1, <1>2, <1>6, <1>7, <3>1 DEF Filled
        <3>2. CASE i \notin 1..m
            BY <1>1, <1>2, <1>7, <3>2 DEF Filled
        <3> QED
            BY <3>1, <3>2
    <2> QED
        BY <2>1
<1>9. /\ Placed(packets, n, h)[n] = h
      /\ \A k \in DOMAIN packets \ {n} : Placed(packets, n, h)[k] = packets[k]
    BY <1>1, <1>2, <1>6
<1> QED
    BY <1>2, <1>5, <1>8, <1>9 DEF Extended

-----------------------------------------------------------------------------
(* Chunks, one at a time.                                                  *)
Prefix(c) ==
    /\ \A k \in 1..(c.next_expected - 1) : c.packets[k] # Hole
    /\ c.next_expected \notin Filled(c.packets)
    /\ \/ c.total_data = Cardinality(Filled(c.packets))
       \/ c.total_data >= NumPackets /\ Filled(c.packets) = {}

(* A chunk that is being filled, its bytes complete or not.                *)
Filling(c) ==
    /\ c \in Chunk
    /\ Fits(c)
    /\ c.downloaded = 0
    /\ c.heap = "live"

ChunkOK(c) ==
    /\ c \in Chunk
    /\ Fits(c)
    /\ c.peer # NoPeer => Prefix(c) /\ c.downloaded = 0
    /\ c.peer # NoPeer \/ c.downloaded = 1 => c.heap = "live"

(* What the invariants say of chunks they say of one after the other.      *)
LEMMA Chunkwise ==
    /\ IInv => /\ download \in Seq(Chunk)
               /\ \A i \in DOMAIN download : ChunkOK(download[i])
    /\ /\ download \in Seq(Chunk)
       /\ \A i \in DOMAIN download : ChunkOK(download[i])
       => FetchesWhatIsMissing /\ AcksCountThePrefix /\ PacketsFit
<1>1. ASSUME IInv, NEW i \in DOMAIN download PROVE ChunkOK(download[i])
    <2>1. download[i] \in Chunk
        BY <1>1, LenProperties, ElementOfSeq DEF IInv, TypeOK
    <2> QED
        BY <1>1, <2>1 DEF IInv, FetchesWhatIsMissing, AcksCountThePrefix, PacketsFit,
                          ChunkOK, Prefix, Filled
<1>2. ASSUME \A i \in DOMAIN download : ChunkOK(download[i])
      PROVE  FetchesWhatIsMissing /\ AcksCountThePrefix /\ PacketsFit
    BY <1>2 DEF FetchesWhatIsMissing, AcksCountThePrefix, PacketsFit, ChunkOK, Prefix, Filled
<1> QED
    BY <1>1, <1>2 DEF IInv, TypeOK

(* The places 1..n are n.                                                  *)
LEMMA IntervalSize ==
    ASSUME NEW n \in Nat
    PROVE  IsFiniteSet(1..n) /\ Cardinality(1..n) = n
<1>1. IsFiniteSet(1..n) /\ Cardinality(1..n) = IF 1 > n THEN 0 ELSE n - 1 + 1
    BY FS_Interval
<1> QED
    BY <1>1

(* A set of places in a packet list has at most as many as the list.       *)
LEMMA FilledFinite ==
    ASSUME NEW packets \in PacketList
    PROVE  /\ IsFiniteSet(Filled(packets))
           /\ Cardinality(Filled(packets)) \in Nat
           /\ Cardinality(Filled(packets)) <= Len(packets)
<1>1. Len(packets) \in Nat /\ Filled(packets) \in SUBSET (1..Len(packets))
    BY LenProperties DEF PacketList, Filled
<1>2. IsFiniteSet(1..Len(packets)) /\ Cardinality(1..Len(packets)) = Len(packets)
    BY <1>1, IntervalSize
<1>3. /\ IsFiniteSet(Filled(packets))
      /\ Cardinality(Filled(packets)) <= Cardinality(1..Len(packets))
    BY <1>1, <1>2, FS_Subset
<1> QED
    BY <1>2, <1>3, FS_CardinalityType

(* add_packet_list keeps a chunk being fetched in order: the packets       *)
(* before next_expected are there, none held is replaced or lost, and      *)
(* until the byte count says that the chunk is complete it is that of the  *)
(* packets held.  (When it says so it may be wrong: the first packet after *)
(* a failed attempt.)                                                      *)
LEMMA AddOK ==
    ASSUME NEW c, ChunkOK(c), c.peer # NoPeer, NEW n \in 1..NumPackets, NEW h \in Hashes
    PROVE  LET d == AddPacketList(c, n, h)
           IN  /\ Filling(d)
               /\ d.total_data < NumPackets => ChunkOK(d)
               /\ d.hash = c.hash /\ d.peer = c.peer /\ d.downloaded = c.downloaded
               /\ d.next_expected >= c.next_expected
               /\ \A k \in DOMAIN c.packets : c.packets[k] # Hole =>
                     k \in DOMAIN d.packets /\ d.packets[k] = c.packets[k]
<1> DEFINE d == AddPacketList(c, n, h)
           new == Placed(c.packets, n, h)
           gap == FirstGap(new)
           size == IF c.total_data <= NumPackets THEN c.total_data + 1 ELSE c.total_data
<1>0. /\ c \in Chunk /\ c.packets \in PacketList /\ Len(c.packets) <= NumPackets
      /\ Prefix(c) /\ c.next_expected <= Len(c.packets) + 1
      /\ c.next_expected \in 1..(NumPackets + 1) /\ Filling(c)
    BY DEF ChunkOK, Filling, Fits, Chunk, PacketList
<1>1. CASE n \in DOMAIN c.packets /\ c.packets[n] # Hole
    <2>1. d = c
        BY <1>1 DEF AddPacketList
    <2> HIDE DEF d
    <2> QED
        BY <1>0, <2>1 DEF d
<1>2. CASE ~(n \in DOMAIN c.packets /\ c.packets[n] # Hole)
    <2>1. d = [c EXCEPT !.packets = new, !.total_data = size, !.next_expected = gap]
        BY <1>2 DEF AddPacketList
    <2>2. /\ new \in PacketList /\ Len(new) <= NumPackets
          /\ Len(c.packets) <= Len(new)
          /\ \A k \in DOMAIN c.packets \ {n} : new[k] = c.packets[k]
          /\ Filled(new) = Filled(c.packets) \cup {n}
          /\ new[n] = h /\ n <= Len(new)
        <3>1. PICK q : q = c.packets
            OBVIOUS
        <3>2. q \in PacketList /\ Len(q) <= NumPackets /\ new = Placed(q, n, h)
            BY <1>0, <3>1
        <3> HIDE DEF new
        <3>3. Extended(q, new, n, h)
            BY <3>2, PlacedOK
        <3> QED
            BY <3>1, <3>3 DEF Extended
    <2> HIDE DEF new
    <2>3. /\ gap \in 1..(Len(new) + 1)
          /\ \A k \in 1..(gap - 1) : new[k] # Hole
          /\ gap \in DOMAIN new => new[gap] = Hole
        BY <2>2, FirstGapOK
    <2>4. /\ size \in 0..(NumPackets + 1)
          /\ size < NumPackets => size = Cardinality(Filled(new))
        <3>1. /\ c.total_data \in 0..(NumPackets + 1)
              /\ c.total_data < NumPackets => c.total_data = Cardinality(Filled(c.packets))
            BY <1>0 DEF Chunk, Prefix
        <3>2. IsFiniteSet(Filled(c.packets)) /\ Cardinality(Filled(c.packets)) \in Nat
            BY <1>0, FilledFinite
        <3>3. Cardinality(Filled(new)) = Cardinality(Filled(c.packets)) + 1
            <4> DEFINE S == Filled(c.packets)
            <4>1. Filled(new) = S \cup {n} /\ IsFiniteSet(S)
                BY <2>2, <3>2
            <4>2. n \notin S
                BY <1>2 DEF Filled
            <4> HIDE DEF S
            <4>3. Cardinality(S \cup {n}) = Cardinality(S) + 1
                BY <4>1, <4>2, FS_AddElement
            <4> QED
                BY <4>1, <4>3 DEF S
        <3> QED
            BY DownloadAssumption, <3>1, <3>2, <3>3
    <2> HIDE DEF gap, size
    <2>5. gap \in 1..(NumPackets + 1) /\ gap <= Len(new) + 1
        BY <2>2, <2>3, LenProperties DEF PacketList
    <2>6. /\ d \in Chunk
          /\ d.packets = new /\ d.total_data = size /\ d.next_expected = gap
          /\ d.hash = c.hash /\ d.peer = c.peer /\ d.downloaded = c.downloaded
          /\ d.heap = c.heap
        BY <1>0, <2>1, <2>2, <2>4, <2>5 DEF Chunk, PacketList
    <2> HIDE DEF d
    <2>7. gap \notin Filled(new)
        BY <2>3 DEF Filled
    <2>8. ASSUME NEW k \in DOMAIN c.packets, c.packets[k] # Hole
          PROVE  k \in DOMAIN new /\ new[k] = c.packets[k]
        <3>1. k # n
            BY <1>2, <2>8
        <3>2. DOMAIN new = 1..Len(new) /\ DOMAIN c.packets = 1..Len(c.packets)
              /\ Len(new) \in Nat /\ Len(c.packets) \in Nat
            BY <1>0, <2>2, LenProperties DEF PacketList
        <3> QED
            BY <2>2, <2>8, <3>1, <3>2
    <2>9. gap >= c.next_expected
        <3>1. SUFFICES ASSUME gap < c.next_expected PROVE FALSE
            BY <1>0, <2>5
        <3>2. DOMAIN c.packets = 1..Len(c.packets) /\ Len(c.packets) \in Nat
            BY <1>0, LenProperties DEF PacketList
        <3>3. gap \in 1..(c.next_expected - 1) /\ gap \in DOMAIN c.packets
            BY <1>0, <2>5, <3>1, <3>2
        <3>4. c.packets[gap] # Hole /\ c.packets[gap] \in Hashes \cup {Hole}
            BY <1>0, <3>2, <3>3, ElementOfSeq DEF Prefix, PacketList
        <3> QED
            BY <2>3, <2>8, <3>3, <3>4
    <2>10. Filling(d)
        BY <1>0, <2>2, <2>5, <2>6 DEF Filling, Fits
    <2>11. ASSUME d.total_data < NumPackets PROVE ChunkOK(d)
        <3>1. Prefix(d)
            BY <2>3, <2>4, <2>6, <2>7, <2>11 DEF Prefix
        <3> QED
            BY <2>10, <3>1 DEF ChunkOK, Filling
    <2> QED
        BY <2>6, <2>8, <2>9, <2>10, <2>11 DEF d
<1> QED
    BY <1>1, <1>2

-----------------------------------------------------------------------------
(* Lists of chunks.                                                        *)
Done(list) == {i \in DOMAIN list : list[i].downloaded = 1}

(* A list of as many chunks is a list of chunks.                           *)
LEMMA ListOf ==
    ASSUME NEW n \in Nat, NEW list \in [1..n -> Chunk]
    PROVE  list \in Seq(Chunk) /\ Len(list) = n /\ DOMAIN list = 1..n
<1>1. list \in Seq(Chunk)
    BY SeqDef
<1> QED
    BY <1>1, LenProperties

(* The chunks done are finitely many, no more than there are.              *)
LEMMA DoneFinite ==
    ASSUME NEW list \in Seq(Chunk)
    PROVE  /\ IsFiniteSet(Done(list))
           /\ Cardinality(Done(list)) \in Nat
           /\ Cardinality(Done(list)) = Len(list) => Done(list) = DOMAIN list
<1>1. /\ Len(list) \in Nat /\ DOMAIN list = 1..Len(list)
      /\ Done(list) \in SUBSET (1..Len(list))
    BY LenProperties DEF Done
<1>2. IsFiniteSet(1..Len(list)) /\ Cardinality(1..Len(list)) = Len(list)
    BY <1>1, IntervalSize
<1>3. /\ IsFiniteSet(Done(list))
      /\ Cardinality(1..Len(list)) = Cardinality(Done(list)) => 1..Len(list) = Done(list)
    BY <1>1, <1>2, FS_Subset
<1> QED
    BY <1>1, <1>2, <1>3, FS_CardinalityType

(* What a step that neither fetches nor finishes anything keeps: chunks    *)
(* may learn of peers, peers may be given another standing.                *)
SameLinks ==
    /\ DOMAIN download' = DOMAIN download
    /\ \A i \in DOMAIN download :
          /\ download'[i].peer = download[i].peer
          /\ download'[i].downloaded = download[i].downloaded
          /\ download'[i].hash = download[i].hash
    /\ \A p \in Peers :
          /\ peer'[p].chunk = peer[p].chunk
          /\ peer'[p].downloading = peer[p].downloading
          /\ peer'[p].last_response = "none" <=> peer[p].last_response = "none"
    /\ num_downloaded' = num_downloaded /\ has' = has /\ got' = got

(* A step that leaves the links alone keeps IInv when it keeps the types   *)
(* and every chunk in order.                                               *)
LEMMA Frame ==
    ASSUME IInv, TypeOK', SameLinks,
           \A i \in DOMAIN download' : ChunkOK(download'[i])
    PROVE  IInv'
<1>1. FetchesWhatIsMissing' /\ AcksCountThePrefix' /\ PacketsFit'
    BY DEF FetchesWhatIsMissing, AcksCountThePrefix, PacketsFit, ChunkOK, Prefix, Filled
<1>2. LinksConsistent'
    <2>1. LinksConsistent
        BY DEF IInv
    <2>2. \A i \in DOMAIN download : download[i].peer # NoPeer => download[i].peer \in Peers
        BY Chunkwise DEF ChunkOK, Chunk
    <2> QED
        BY <2>1, <2>2 DEF LinksConsistent, SameLinks
<1>3. download' # <<>> => download # <<>>
    <2>1. download \in Seq(Chunk) /\ download' \in Seq(Chunk)
        BY DEF IInv, TypeOK
    <2>2. DOMAIN download = {} => download' = <<>>
        BY <2>1, LenProperties, EmptySeq DEF SameLinks
    <2> QED
        BY <2>2 DEF SameLinks
<1>4. CountsAgree'
    <2>1. CountsAgree
        BY DEF IInv
    <2>2. Done(download') = Done(download)
        BY DEF Done, SameLinks
    <2> QED
        BY <1>3, <2>1, <2>2 DEF CountsAgree, Done, SameLinks
<1>5. GetsLeft'
    BY <1>3 DEF GetsLeft, IInv, SameLinks
<1> QED
    BY <1>1, <1>2, <1>4, <1>5 DEF IInv

-----------------------------------------------------------------------------
(* Steps that fetch nothing and finish nothing.                            *)

(* A flood is a sequence of packets.                                       *)
LEMMA FloodOK ==
    ASSUME NEW hs \in Seq(Hashes)
    PROVE  [k \in DOMAIN PeerList |-> Whohas(PeerList[k], hs)] \in Seq(Packet)
<1> DEFINE at(k) == Whohas(PeerList[k], hs)
<1>1. Len(PeerList) \in Nat /\ DOMAIN PeerList = 1..Len(PeerList)
    BY LenProperties
<1>2. ASSUME NEW k \in 1..Len(PeerList) PROVE at(k) \in Packet
    <2>1. PeerList[k] \in Peers
        BY ElementOfSeq
    <2> QED
        BY <2>1 DEF Whohas, Packet
<1>3. [k \in 1..Len(PeerList) |-> at(k)] \in [1..Len(PeerList) -> Packet]
    <2> HIDE DEF at
    <2> QED
        BY <1>2
<1> HIDE DEF at
<1>4. [k \in 1..Len(PeerList) |-> at(k)] \in Seq(Packet)
    BY <1>1, <1>3, SeqDef
<1> QED
    BY <1>1, <1>4 DEF at

(* The hashes a flood asks for are those of the list.                      *)
LEMMA FloodAll ==
    ASSUME TypeOK
    PROVE  Flood \in Seq(Packet)
<1> DEFINE hs == [i \in DOMAIN download |-> download[i].hash]
<1>1. /\ Len(download) \in Nat /\ DOMAIN download = 1..Len(download)
      /\ \A i \in DOMAIN download : download[i] \in Chunk
    BY LenProperties, ElementOfSeq DEF TypeOK
<1>2. hs \in [1..Len(download) -> Hashes]
    BY <1>1 DEF Chunk
<1>3. hs \in Seq(Hashes)
    BY <1>1, <1>2, SeqDef
<1> HIDE DEF hs
<1>4. [k \in DOMAIN PeerList |-> Whohas(PeerList[k], hs)] \in Seq(Packet)
    BY <1>3, FloodOK
<1> QED
    BY <1>4 DEF Flood, hs

(* select only lets time pass.                                             *)
LEMMA SelectInv ==
    ASSUME IInv, Select
    PROVE  IInv'
<1>1. PICK late \in SUBSET {p \in Peers : Drained /\ peer[p].last_response = "recent"},
           forgiven \in SUBSET {p \in Peers : Drained /\ peer[p].bad = 1} :
          peer' = [p \in Peers |->
                     [peer[p] EXCEPT !.last_response = IF p \in late THEN "old" ELSE @,
                                     !.bad = IF p \in forgiven THEN 0 ELSE @]]
    BY DEF Select
<1>2. \A p \in Peers : peer[p] \in PeerRecord
    BY DEF IInv, TypeOK
<1>3. ASSUME NEW p \in Peers
      PROVE  /\ peer'[p] \in PeerRecord
             /\ peer'[p].chunk = peer[p].chunk
             /\ peer'[p].downloading = peer[p].downloading
             /\ peer'[p].last_response = "none" <=> peer[p].last_response = "none"
    <2>1. peer'[p] = [peer[p] EXCEPT !.last_response = IF p \in late THEN "old" ELSE @,
                                     !.bad = IF p \in forgiven THEN 0 ELSE @]
        BY <1>1
    <2>2. p \in late => peer[p].last_response = "recent"
        BY <1>1
    <2> QED
        BY <1>2, <2>1, <2>2 DEF PeerRecord
<1>4. peer' \in [Peers -> PeerRecord]
    BY <1>1, <1>3
<1>5. /\ writable' \in BOOLEAN /\ (writable' => queue' # <<>>)
    BY DEF Select
<1>6. whohas' \in {"due", "fresh"}
    BY DEF Select, IInv, TypeOK
<1>7. /\ pc' = "timeouts"
      /\ UNCHANGED <<scan, download, cur_download, max_conn, num_downloaded, has, got, queue>>
    BY DEF Select, counts
<1>8. TypeOK'
    BY <1>4, <1>5, <1>6, <1>7 DEF IInv, TypeOK
<1>9. SameLinks
    BY <1>3, <1>7 DEF SameLinks
<1> QED
    BY <1>7, <1>8, <1>9, Chunkwise, Frame

(* A scan that starts nothing, sending, and iterations in which nothing    *)
(* comes touch neither chunks nor peers.                                   *)
LEMMA QuietInv ==
    ASSUME IInv,
           \/ ScanWhohas \/ ScanSkip \/ ScanEnd \/ PeerPacketOps \/ Idle
           \/ \E p \in Peers, n \in 1..NumPackets, h \in Hashes : DataCrash(p, n, h)
           \/ UNCHANGED vars
    PROVE  IInv'
<1>1. UNCHANGED <<download, peer, cur_download, max_conn, num_downloaded, has, got>>
    BY DEF ScanWhohas, ScanSkip, ScanEnd, PeerPacketOps, Idle, DataCrash, vars, counts
<1>2. /\ pc' \in {"select", "timeouts", "scan", "send", "recv", "crashed"}
      /\ scan' \in Nat \ {0}
      /\ whohas' \in {"due", "fresh"}
    BY DEF ScanWhohas, ScanSkip, ScanEnd, PeerPacketOps, Idle, DataCrash, vars, IInv, TypeOK
<1>3. /\ writable' \in BOOLEAN /\ (writable' => queue' # <<>>)
      /\ queue' \in Seq(Packet)
    <2>1. queue \in Seq(Packet) /\ writable \in BOOLEAN /\ (writable => queue # <<>>)
        BY DEF IInv, TypeOK
    <2>2. CASE ScanWhohas
        <3>1. Flood \in Seq(Packet)
            BY FloodAll DEF IInv
        <3>2. queue \o Flood \in Seq(Packet) /\ (queue # <<>> => queue \o Flood # <<>>)
            <4>1. /\ queue \o Flood \in Seq(Packet)
                  /\ Len(queue \o Flood) = Len(queue) + Len(Flood)
                BY <2>1, <3>1, ConcatProperties
            <4>2. Len(Flood) \in Nat /\ (queue # <<>> => Len(queue) \in Nat \ {0})
                BY <2>1, <3>1, LenProperties, EmptySeq
            <4>3. Len(<<>>) = 0
                OBVIOUS
            <4> QED
                BY <4>1, <4>2, <4>3
        <3>3. writable' = writable /\ queue' = IF whohas = "due" THEN queue \o Flood ELSE queue
            BY <2>2 DEF ScanWhohas
        <3> QED
            BY <2>1, <3>2, <3>3
    <2>3. CASE PeerPacketOps
        <3>1. writable' = FALSE /\ queue' = IF writable THEN Tail(queue) ELSE queue
            BY <2>3 DEF PeerPacketOps
        <3>2. queue # <<>> => Tail(queue) \in Seq(Packet)
            BY <2>1, HeadTailProperties
        <3> QED
            BY <2>1, <3>1, <3>2
    <2>4. CASE ~ScanWhohas /\ ~PeerPacketOps
        <3>1. writable' = writable /\ queue' = queue
            BY <2>4 DEF ScanSkip, ScanEnd, Idle, DataCrash, vars
        <3> QED
            BY <2>1, <3>1
    <2> QED
        BY <2>2, <2>3, <2>4
<1>4. TypeOK'
    BY <1>1, <1>2, <1>3 DEF IInv, TypeOK
<1>5. SameLinks
    BY <1>1 DEF SameLinks
<1> QED
    BY <1>1, <1>4, <1>5, Chunkwise, Frame

(* Forgiving and releasing a peer, and abandoning a chunk, leave them      *)
(* peers and chunks.                                                       *)
LEMMA RecordsOK ==
    /\ \A r \in PeerRecord :
          /\ Heard(r) \in PeerRecord
          /\ Heard(r).chunk = r.chunk /\ Heard(r).downloading = r.downloading
          /\ Heard(r).last_response = r.last_response
          /\ Released(r) \in PeerRecord
          /\ Released(r).chunk = 0 /\ Released(r).downloading = 0
          /\ Released(r).last_response = "none"
    /\ \A c \in Chunk :
          /\ Abandoned(c) \in Chunk
          /\ Abandoned(c).peer = NoPeer /\ Abandoned(c).downloaded = 0
          /\ Abandoned(c).hash = c.hash /\ Abandoned(c).packets = c.packets
          /\ Abandoned(c).total_data = 0
<1>1. /\ 0 \in 0..MaxTimeouts /\ 1 \in 1..(NumPackets + 1)
      /\ 0 \in 0..(NumPackets + 1) /\ 0 \in Nat
    OBVIOUS
<1>2. ASSUME NEW r \in PeerRecord
      PROVE  /\ Heard(r) \in PeerRecord
             /\ Heard(r).chunk = r.chunk /\ Heard(r).downloading = r.downloading
             /\ Heard(r).last_response = r.last_response
    BY <1>1, Zenon DEF Heard, PeerRecord
<1>3. ASSUME NEW r \in PeerRecord
      PROVE  /\ Released(r) \in PeerRecord
             /\ Released(r).chunk = 0 /\ Released(r).downloading = 0
             /\ Released(r).last_response = "none"
    BY <1>1, Zenon DEF Released, PeerRecord
<1>4. ASSUME NEW c \in Chunk
      PROVE  /\ Abandoned(c) \in Chunk
             /\ Abandoned(c).peer = NoPeer /\ Abandoned(c).downloaded = 0
             /\ Abandoned(c).hash = c.hash /\ Abandoned(c).packets = c.packets
             /\ Abandoned(c).total_data = 0
    BY <1>1, Zenon DEF Abandoned, Chunk
<1> QED
    BY <1>2, <1>3, <1>4

(* An IHAVE adds a peer to chunks, and a peer that is heard is forgiven.   *)
LEMMA IhaveInv ==
    ASSUME IInv, NEW p \in Peers, NEW hs \in SUBSET Hashes, ProcessIhave(p, hs)
    PROVE  IInv'
<1>0. /\ Len(download) \in Nat /\ DOMAIN download = 1..Len(download)
      /\ \A i \in DOMAIN download : ChunkOK(download[i])
    BY Chunkwise, LenProperties
<1>1. /\ peer' = [peer EXCEPT ![p] = Heard(@)]
      /\ UNCHANGED <<writable, scan, cur_download, max_conn, num_downloaded, whohas,
                     has, got, queue>>
      /\ pc' = "select"
    BY DEF ProcessIhave, counts
<1>2. \A q \in Peers : peer[q] \in PeerRecord
    BY DEF IInv, TypeOK
<1>3. ASSUME NEW q \in Peers
      PROVE  /\ peer'[q] \in PeerRecord
             /\ peer'[q].chunk = peer[q].chunk
             /\ peer'[q].downloading = peer[q].downloading
             /\ peer'[q].last_response = "none" <=> peer[q].last_response = "none"
    <2>1. peer'[q] = IF q = p THEN Heard(peer[q]) ELSE peer[q]
        BY <1>1 DEF IInv, TypeOK
    <2> QED
        BY <1>2, <2>1, RecordsOK
<1>4. peer' \in [Peers -> PeerRecord]
    BY <1>1, <1>3 DEF IInv, TypeOK
<1>5. /\ DOMAIN download' = DOMAIN download
      /\ \A i \in DOMAIN download :
            \/ download'[i] = download[i]
            \/ download'[i] = [download[i] EXCEPT !.peers = @ \cup {p}]
    BY DEF ProcessIhave
<1>6. ASSUME NEW i \in DOMAIN download
      PROVE  /\ ChunkOK(download'[i])
             /\ download'[i].peer = download[i].peer
             /\ download'[i].downloaded = download[i].downloaded
             /\ download'[i].hash = download[i].hash
    <2>1. CASE download'[i] = download[i]
        BY <1>0, <2>1
    <2>2. CASE download'[i] = [download[i] EXCEPT !.peers = @ \cup {p}]
        <3> DEFINE c == download[i]
                   d == download'[i]
        <3>1. ChunkOK(c) /\ d = [c EXCEPT !.peers = @ \cup {p}]
            BY <1>0, <2>2
        <3> HIDE DEF c, d
        <3>2. /\ d \in Chunk
              /\ d.peer = c.peer /\ d.downloaded = c.downloaded /\ d.hash = c.hash
              /\ d.packets = c.packets /\ d.next_expected = c.next_expected
              /\ d.total_data = c.total_data /\ d.heap = c.heap
            BY <3>1 DEF ChunkOK, Chunk
        <3>3. ChunkOK(d)
            BY <3>1, <3>2 DEF ChunkOK, Fits, Prefix
        <3> QED
            BY <3>2, <3>3 DEF c, d
    <2> QED
        BY <1>5, <2>1, <2>2
<1>7. download' \in Seq(Chunk)
    <2>1. \A i \in 1..Len(download) : download'[i] \in Chunk
        BY <1>0, <1>6 DEF ChunkOK
    <2>2. download' \in [1..Len(download) -> Chunk]
        BY <1>0, <2>1 DEF ProcessIhave
    <2> QED
        BY <1>0, <2>2, ListOf
<1>8. TypeOK'
    BY <1>1, <1>4, <1>7 DEF IInv, TypeOK
<1>9. SameLinks
    BY <1>1, <1>3, <1>5, <1>6 DEF SameLinks
<1> QED
    BY <1>5, <1>6, <1>8, <1>9, Frame

-----------------------------------------------------------------------------
(* Steps that fetch and finish.                                            *)

(* A peer given up has a chunk that it was to send.                        *)
LEMMA GivenUpHolds ==
    ASSUME IInv, NEW p \in GivenUp
    PROVE  /\ p \in Peers
           /\ peer[p].chunk \in DOMAIN download /\ peer[p].chunk # 0
           /\ download[peer[p].chunk].peer = p
<1>1. p \in Peers /\ peer[p].last_response = "old"
    BY DEF GivenUp, TimedOut
<1> QED
    BY <1>1 DEF IInv, LinksConsistent

(* timeout_check releases a peer and its chunk together.                   *)
LEMMA TimeoutInv ==
    ASSUME IInv, TimeoutCheck
    PROVE  IInv'
<1>0. /\ Len(download) \in Nat /\ DOMAIN download = 1..Len(download)
      /\ \A i \in DOMAIN download : ChunkOK(download[i])
    BY Chunkwise, LenProperties
<1>1. /\ pc' = "scan" /\ scan' = 1
      /\ UNCHANGED <<writable, cur_download, max_conn, num_downloaded, whohas, has, got, queue>>
    BY DEF TimeoutCheck, counts
<1>2. CASE download = <<>>
    <2>1. UNCHANGED <<download, peer>>
        BY <1>2 DEF TimeoutCheck
    <2>2. TypeOK'
        BY <1>1, <2>1 DEF IInv, TypeOK
    <2>3. SameLinks
        BY <1>1, <2>1 DEF SameLinks
    <2> QED
        BY <1>0, <2>1, <2>2, <2>3, Frame
<1>3. CASE download # <<>>
    <2> DEFINE Lost(i) == \E p \in GivenUp : peer[p].chunk = i
    <2>1. /\ peer' = [p \in Peers |-> AfterTimeout(p)]
          /\ download' = [i \in DOMAIN download |->
                            IF Lost(i) THEN Abandoned(download[i]) ELSE download[i]]
        BY <1>3 DEF TimeoutCheck
    <2>2. ASSUME NEW p \in Peers
          PROVE  /\ peer'[p] \in PeerRecord
                 /\ p \in GivenUp => /\ peer'[p].chunk = 0 /\ peer'[p].downloading = 0
                                     /\ peer'[p].last_response = "none"
                 /\ p \notin GivenUp =>
                       /\ peer'[p].chunk = peer[p].chunk
                       /\ peer'[p].downloading = peer[p].downloading
                       /\ peer'[p].last_response = peer[p].last_response
        <3>1. peer[p] \in PeerRecord /\ peer'[p] = AfterTimeout(p)
            BY <2>1 DEF IInv, TypeOK
        <3>2. CASE p \in GivenUp
            <4> DEFINE r == Released(peer[p])
            <4>1. /\ r \in PeerRecord /\ r.chunk = 0 /\ r.downloading = 0
                  /\ r.last_response = "none"
                BY <3>1, RecordsOK
            <4>2. peer'[p] = [r EXCEPT !.bad = 1, !.consec_timeouts = MaxTimeouts]
                BY <3>1, <3>2 DEF AfterTimeout
            <4>3. MaxTimeouts \in 0..MaxTimeouts
                OBVIOUS
            <4> HIDE DEF r
            <4> QED
                BY <3>2, <4>1, <4>2, <4>3, Zenon DEF PeerRecord
        <3>3. CASE p \notin GivenUp /\ TimedOut(p)
            <4>1. peer[p].consec_timeouts + 1 \in 0..MaxTimeouts
                BY <3>1, <3>3 DEF GivenUp, PeerRecord
            <4>2. peer'[p] = [peer[p] EXCEPT !.consec_timeouts = peer[p].consec_timeouts + 1]
                BY <3>1, <3>3 DEF AfterTimeout
            <4> QED
                BY <3>1, <3>3, <4>1, <4>2 DEF PeerRecord
        <3>4. CASE p \notin GivenUp /\ ~TimedOut(p)
            BY <3>1, <3>4 DEF AfterTimeout
        <3> QED
            BY <3>2, <3>3, <3>4
    <2>3. ASSUME NEW i \in DOMAIN download, Lost(i)
          PROVE  /\ download'[i] = Abandoned(download[i])
                 /\ ChunkOK(download'[i]) /\ download'[i].peer = NoPeer
                 /\ download'[i].downloaded = 0 /\ download[i].downloaded = 0
                 /\ download'[i].hash = download[i].hash
        <3>1. download[i].peer # NoPeer
            BY <2>3, GivenUpHolds
        <3>2. download'[i] = Abandoned(download[i])
            BY <2>1, <2>3
        <3> DEFINE c == download[i]
        <3>3. ChunkOK(c) /\ c.peer # NoPeer
            BY <1>0, <3>1
        <3> HIDE DEF c
        <3>4. /\ Abandoned(c) \in Chunk /\ Abandoned(c).peer = NoPeer
              /\ Abandoned(c).downloaded = 0 /\ Abandoned(c).hash = c.hash
              /\ Abandoned(c).packets = c.packets /\ Abandoned(c).total_data = 0
            BY <3>3, RecordsOK DEF ChunkOK
        <3>5. ChunkOK(Abandoned(c)) /\ c.downloaded = 0
            BY <3>3, <3>4 DEF ChunkOK, Fits
        <3> QED
            BY <3>2, <3>4, <3>5 DEF c
    <2>4. ASSUME NEW i \in DOMAIN download, ~Lost(i)
          PROVE  download'[i] = download[i]
        BY <2>1, <2>4
    <2>5. DOMAIN download' = DOMAIN download
        BY <2>1
    <2> HIDE DEF Lost
    <2>6. \A i \in DOMAIN download : ChunkOK(download'[i])
        BY <1>0, <2>3, <2>4
    <2>7. download' \in Seq(Chunk)
        <3>1. download' \in [1..Len(download) -> Chunk]
            BY <1>0, <2>1, <2>6 DEF ChunkOK
        <3> QED
            BY <1>0, <3>1, ListOf
    <2>8. TypeOK'
        <3>1. peer' \in [Peers -> PeerRecord]
            BY <2>1, <2>2
        <3> QED
            BY <1>1, <2>7, <3>1 DEF IInv, TypeOK
    <2>9. LinksConsistent'
        <3>1. LinksConsistent
            BY DEF IInv
        <3>2. ASSUME NEW p \in Peers, p \notin GivenUp, peer[p].chunk # 0
              PROVE  /\ peer[p].chunk \in DOMAIN download /\ download[peer[p].chunk].peer = p
                     /\ ~Lost(peer[p].chunk)
            <4>1. peer[p].chunk \in DOMAIN download /\ download[peer[p].chunk].peer = p
                BY <3>1, <3>2 DEF LinksConsistent
            <4> QED
                BY <3>2, <4>1, GivenUpHolds DEF Lost
        <3>3. ASSUME NEW p \in Peers
              PROVE  /\ peer'[p].chunk # 0 => /\ peer'[p].chunk \in DOMAIN download'
                                              /\ download'[peer'[p].chunk].peer = p
                     /\ peer'[p].chunk # 0 <=> peer'[p].downloading = 1
                     /\ peer'[p].chunk # 0 <=> peer'[p].last_response # "none"
            BY <2>2, <2>4, <2>5, <3>1, <3>2 DEF LinksConsistent
        <3>4. ASSUME NEW i \in DOMAIN download', download'[i].peer # NoPeer
              PROVE  peer'[download'[i].peer].chunk = i
            <4>1. ~Lost(i) /\ download'[i] = download[i]
                BY <2>3, <2>4, <2>5, <3>4
            <4>2. download[i].peer \in Peers /\ peer[download[i].peer].chunk = i
                BY <1>0, <2>5, <3>1, <3>4, <4>1 DEF LinksConsistent, ChunkOK, Chunk
            <4>3. download[i].peer \notin GivenUp
                BY <4>1, <4>2 DEF Lost
            <4> QED
                BY <2>2, <4>1, <4>2, <4>3
        <3> QED
            BY <3>3, <3>4 DEF LinksConsistent
    <2>10. CountsAgree'
        <3>1. /\ num_downloaded = Cardinality(Done(download))
              /\ \A i \in DOMAIN download : download[i].downloaded = 1 => download[i].hash \in has
            BY <1>3 DEF IInv, CountsAgree, Done
        <3>2. Done(download') = Done(download)
            BY <2>3, <2>4, <2>5 DEF Done
        <3>3. \A i \in DOMAIN download' : download'[i].downloaded = 1 => download'[i].hash \in has
            BY <2>3, <2>4, <2>5, <3>1
        <3> QED
            BY <1>1, <3>1, <3>2, <3>3 DEF CountsAgree, Done
    <2>11. GetsLeft'
        BY <1>1, <1>3 DEF IInv, GetsLeft
    <2>12. FetchesWhatIsMissing' /\ AcksCountThePrefix' /\ PacketsFit'
        BY <2>5, <2>6 DEF FetchesWhatIsMissing, AcksCountThePrefix, PacketsFit,
                          ChunkOK, Prefix, Filled
    <2> QED
        BY <2>8, <2>9, <2>10, <2>11, <2>12 DEF IInv
<1> QED
    BY <1>2, <1>3

(* A packet pushed leaves a queue, and not an empty one.                   *)
LEMMA PushedOK ==
    ASSUME TypeOK, NEW m \in Packet
    PROVE  Append(queue, m) \in Seq(Packet) /\ Append(queue, m) # <<>>
<1>1. queue \in Seq(Packet)
    BY DEF TypeOK
<1>2. /\ Append(queue, m) \in Seq(Packet)
      /\ Len(Append(queue, m)) = Len(queue) + 1 /\ Len(queue) \in Nat
    BY <1>1, AppendProperties, LenProperties
<1> QED
    BY <1>2, EmptySeq

(* What send_get makes of the chunk and the peer.                          *)
Fetched(c, p) ==
    [c EXCEPT !.peer = p, !.next_expected = 1, !.packets = <<>>, !.heap = "live"]

Asked(r) == [r EXCEPT !.chunk = scan, !.downloading = 1, !.last_response = "recent"]

(* A chunk asked for is in order again, from its first packet.             *)
LEMMA FetchedOK ==
    ASSUME NEW c, ChunkOK(c), Wanted(c), NEW p \in Peers
    PROVE  LET d == Fetched(c, p)
           IN  /\ ChunkOK(d)
               /\ d.peer = p /\ d.hash = c.hash /\ d.downloaded = 0
<1>1. /\ 1 \in 1..(NumPackets + 1) /\ <<>> \in PacketList /\ Len(<<>>) = 0
      /\ Filled(<<>>) = {} /\ c \in Chunk /\ c.downloaded = 0
    BY EmptySeq DEF ChunkOK, Wanted, PacketList, Filled
<1> DEFINE d == Fetched(c, p)
<1>2. /\ d \in Chunk /\ d.peer = p /\ d.next_expected = 1 /\ d.packets = <<>>
      /\ d.heap = "live" /\ d.hash = c.hash /\ d.downloaded = c.downloaded
      /\ d.total_data = c.total_data
    BY <1>1, Zenon DEF Fetched, Chunk, PacketList
<1> HIDE DEF d
<1>3. Prefix(d)
    <2>1. d.total_data = 0 \/ d.total_data >= NumPackets
        BY <1>2 DEF ChunkOK, Fits, Wanted
    <2>2. Cardinality({}) = 0
        BY FS_EmptySet
    <2> QED
        <3>1. d.next_expected = 1 /\ 1..(1 - 1) = {} /\ Filled(d.packets) = {}
            BY <1>1, <1>2
        <3>2. \/ d.total_data = Cardinality(Filled(d.packets))
              \/ d.total_data >= NumPackets /\ Filled(d.packets) = {}
            BY <2>1, <2>2, <3>1
        <3> QED
            BY <3>1, <3>2 DEF Prefix
<1>4. Fits(d)
    BY <1>1, <1>2 DEF Fits
<1>5. ChunkOK(d)
    BY <1>1, <1>2, <1>3, <1>4 DEF ChunkOK
<1> QED
    BY <1>1, <1>2, <1>5 DEF d

(* send_get ties a peer and a chunk that are both free.                    *)
LEMMA ScanGetInv ==
    ASSUME IInv, NEW p \in Peers, ScanGet(p)
    PROVE  IInv'
<1>0. /\ Len(download) \in Nat /\ DOMAIN download = 1..Len(download)
      /\ download \in Seq(Chunk)
      /\ \A i \in DOMAIN download : ChunkOK(download[i])
    BY Chunkwise, LenProperties
<1>1. /\ scan \in DOMAIN download /\ Wanted(download[scan])
      /\ peer[p].downloading = 0
    BY DEF ScanGet, Scanning
<1>2. /\ scan' = scan + 1
      /\ UNCHANGED <<pc, writable, cur_download, num_downloaded, whohas, has, got>>
      /\ queue' = Append(queue, Get(p, download[scan].hash))
      /\ max_conn' = IF max_conn < ConnBound THEN max_conn + 1 ELSE max_conn
    BY DEF ScanGet
<1>3. peer[p] \in PeerRecord /\ peer \in [Peers -> PeerRecord]
    BY DEF IInv, TypeOK
<1>4. /\ peer' = [peer EXCEPT ![p] = Asked(peer[p])]
      /\ download' = [download EXCEPT ![scan] = Fetched(download[scan], p)]
    BY DEF ScanGet, Asked, Fetched
<1>5. /\ Asked(peer[p]) \in PeerRecord /\ Asked(peer[p]).chunk = scan
      /\ Asked(peer[p]).downloading = 1 /\ Asked(peer[p]).last_response = "recent"
    <2>1. scan \in Nat
        BY <1>0, <1>1
    <2> QED
        BY <1>3, <2>1, Zenon DEF Asked, PeerRecord
<1>6. /\ ChunkOK(Fetched(download[scan], p)) /\ Fetched(download[scan], p).peer = p
      /\ Fetched(download[scan], p).hash = download[scan].hash
      /\ Fetched(download[scan], p).downloaded = 0
    BY <1>0, <1>1, FetchedOK
<1> DEFINE c == Fetched(download[scan], p)
           r == Asked(peer[p])
<1> HIDE DEF c, r
<1>7. /\ peer' \in [Peers -> PeerRecord]
      /\ peer'[p].chunk = scan /\ peer'[p].downloading = 1 /\ peer'[p].last_response = "recent"
      /\ \A q \in Peers \ {p} : peer'[q] = peer[q]
    BY <1>3, <1>4, <1>5 DEF r
<1>8. /\ download' \in Seq(Chunk) /\ DOMAIN download' = DOMAIN download
      /\ download'[scan] = c
      /\ \A i \in DOMAIN download \ {scan} : download'[i] = download[i]
    <2>1. download' = [download EXCEPT ![scan] = c] /\ c \in Chunk
        BY <1>4, <1>6 DEF c, ChunkOK
    <2> QED
        BY <1>0, <1>1, <2>1, ExceptSeq
<1>9. ChunkOK(c) /\ c.peer = p /\ c.hash = download[scan].hash /\ c.downloaded = 0
    BY <1>6 DEF c
<1>10. \A i \in DOMAIN download' : ChunkOK(download'[i])
    BY <1>0, <1>8, <1>9
<1>11. TypeOK'
    <2>1. download[scan].hash \in Hashes
        BY <1>0, <1>1 DEF ChunkOK, Chunk
    <2>2. Get(p, download[scan].hash) \in Packet
        BY <2>1 DEF Get, Packet
    <2>3. queue' \in Seq(Packet) /\ queue' # <<>>
        BY <1>2, <2>2, PushedOK DEF IInv
    <2>4. max_conn' \in MaxConn..ConnBound
        BY <1>2 DEF IInv, TypeOK
    <2>5. scan' \in Nat \ {0}
        BY <1>2 DEF IInv, TypeOK
    <2> QED
        BY <1>2, <1>7, <1>8, <2>3, <2>4, <2>5 DEF IInv, TypeOK
<1>12. LinksConsistent'
    <2>1. LinksConsistent /\ peer[p].chunk = 0 /\ download[scan].peer = NoPeer
        BY <1>1 DEF IInv, LinksConsistent, Wanted
    <2>2. scan # 0
        BY <1>0, <1>1
    <2>3. ASSUME NEW q \in Peers
          PROVE  /\ peer'[q].chunk # 0 => /\ peer'[q].chunk \in DOMAIN download'
                                          /\ download'[peer'[q].chunk].peer = q
                 /\ peer'[q].chunk # 0 <=> peer'[q].downloading = 1
                 /\ peer'[q].chunk # 0 <=> peer'[q].last_response # "none"
        <3>1. CASE q = p
            BY <1>1, <1>7, <1>8, <1>9, <2>2, <3>1
        <3>2. CASE q # p
            <4>1. peer'[q] = peer[q]
                BY <1>7, <3>2
            <4>2. peer[q].chunk # 0 => /\ peer[q].chunk \in DOMAIN download
                                       /\ download[peer[q].chunk].peer = q
                BY <2>1 DEF LinksConsistent
            <4>3. peer[q].chunk # 0 => peer[q].chunk # scan
                BY <2>1, <4>2
            <4> QED
                BY <1>8, <2>1, <4>1, <4>2, <4>3 DEF LinksConsistent
        <3> QED
            BY <3>1, <3>2
    <2>4. ASSUME NEW i \in DOMAIN download', download'[i].peer # NoPeer
          PROVE  peer'[download'[i].peer].chunk = i
        <3>1. CASE i = scan
            BY <1>7, <1>8, <1>9, <3>1
        <3>2. CASE i # scan
            <4>1. download'[i] = download[i] /\ i \in DOMAIN download
                BY <1>8, <2>4, <3>2
            <4>2. download[i].peer \in Peers /\ peer[download[i].peer].chunk = i
                BY <1>0, <2>1, <2>4, <4>1 DEF LinksConsistent, ChunkOK, Chunk
            <4>3. i # 0
                BY <1>0, <4>1
            <4> QED
                BY <1>7, <2>1, <4>1, <4>2, <4>3
        <3> QED
            BY <3>1, <3>2
    <2> QED
        BY <2>3, <2>4 DEF LinksConsistent
<1>13. CountsAgree' /\ GetsLeft'
    <2>1. download # <<>>
        BY <1>1
    <2>2. /\ num_downloaded = Cardinality(Done(download))
          /\ \A i \in DOMAIN download : download[i].downloaded = 1 => download[i].hash \in has
        BY <2>1 DEF IInv, CountsAgree, Done
    <2>3. Done(download') = Done(download)
        BY <1>1, <1>8, <1>9 DEF Done, Wanted
    <2>4. \A i \in DOMAIN download' : download'[i].downloaded = 1 => download'[i].hash \in has
        BY <1>8, <1>9, <2>2
    <2> QED
        BY <1>2, <2>1, <2>2, <2>3, <2>4 DEF IInv, CountsAgree, Done, GetsLeft
<1>14. FetchesWhatIsMissing' /\ AcksCountThePrefix' /\ PacketsFit'
    BY <1>10 DEF FetchesWhatIsMissing, AcksCountThePrefix, PacketsFit, ChunkOK, Prefix, Filled
<1> QED
    BY <1>11, <1>12, <1>13, <1>14 DEF IInv

(* A chunk asked for is either there or yet to be fetched.                 *)
LEMMA NewChunkOK ==
    ASSUME NEW h \in Hashes
    PROVE  /\ ChunkOK(NewChunk(h))
           /\ NewChunk(h).hash = h /\ NewChunk(h).peer = NoPeer
           /\ NewChunk(h).downloaded = 1 <=> h \in has
<1> DEFINE c == NewChunk(h)
<1>1. /\ 1 \in 1..(NumPackets + 1) /\ <<>> \in PacketList /\ Len(<<>>) = 0
      /\ 0 \in 0..(NumPackets + 1) /\ NumPackets \in 0..(NumPackets + 1)
    BY EmptySeq DEF PacketList
<1>2. /\ c \in Chunk /\ c.hash = h /\ c.peer = NoPeer /\ c.packets = <<>>
      /\ c.heap = "live" /\ c.downloaded = IF h \in has THEN 1 ELSE 0
      /\ c.total_data = IF h \in has THEN NumPackets ELSE 0
    <2>1. PICK n \in 0..(NumPackets + 1) : n = IF h \in has THEN NumPackets ELSE 0
        BY <1>1
    <2>2. PICK b \in {0, 1} : b = IF h \in has THEN 1 ELSE 0
        OBVIOUS
    <2>3. c = [hash |-> h, next_expected |-> 1, downloaded |-> b, total_data |-> n,
               peer |-> NoPeer, peers |-> {}, packets |-> <<>>, heap |-> "live"]
        BY <2>1, <2>2 DEF NewChunk
    <2> HIDE DEF c
    <2>4. c \in Chunk
        BY <1>1, <2>3, Zenon DEF Chunk, PacketList
    <2> QED
        BY <2>1, <2>2, <2>3, <2>4
<1> HIDE DEF c
<1>3. ChunkOK(c)
    <2>1. c.total_data = 0 \/ c.total_data >= NumPackets
        BY DownloadAssumption, <1>2
    <2> QED
        BY <1>1, <1>2, <2>1 DEF ChunkOK, Fits
<1>4. NewChunk(h) = c
    BY DEF c
<1> QED
    BY <1>2, <1>3, <1>4

(* finish_get ends with the list or without, counting the GET only without.*)
LEMMA FinishGetEnds ==
    ASSUME NEW list, FinishGet(list)
    PROVE  \/ download' = <<>> /\ got' = got + 1
           \/ download' = list /\ got' = got
BY DEF FinishGet

(* A GET starts with a list in order, and peers nothing is expected of.    *)
LEMMA GetInv ==
    ASSUME IInv, NEW file \in GetFiles, ProcessUserGet(file)
    PROVE  IInv'
<1> DEFINE list == [i \in DOMAIN file |-> NewChunk(file[i])]
           owned == Cardinality({i \in DOMAIN file : file[i] \in has})
<1>0. /\ file \in Seq(Hashes) /\ Len(file) \in Nat /\ DOMAIN file = 1..Len(file)
      /\ \A i \in DOMAIN file : file[i] \in Hashes
    <2>1. file \in Seq(Hashes)
        OBVIOUS
    <2> QED
        BY <2>1, LenProperties, ElementOfSeq
<1>1. /\ \A i \in DOMAIN file :
            /\ ChunkOK(list[i]) /\ list[i].hash = file[i] /\ list[i].peer = NoPeer
            /\ list[i].downloaded = 1 <=> file[i] \in has
      /\ DOMAIN list = DOMAIN file
    BY <1>0, NewChunkOK
<1>2. list \in Seq(Chunk) /\ Len(list) = Len(file)
    <2>1. list \in [1..Len(file) -> Chunk]
        BY <1>0, <1>1 DEF ChunkOK
    <2> HIDE DEF list
    <2> QED
        BY <1>0, <2>1, ListOf
<1>3. owned = Cardinality(Done(list))
    <2>1. Done(list) = {i \in DOMAIN file : file[i] \in has}
        BY <1>1 DEF Done
    <2> QED
        BY <2>1
<1>4. /\ pc' = "select" /\ got < MaxGets
      /\ peer' = [p \in Peers |-> ResetPeer]
      /\ cur_download' = 0 /\ num_downloaded' = owned
      /\ UNCHANGED <<writable, scan, max_conn, has>>
      /\ \/ /\ queue' = queue \o [k \in DOMAIN PeerList |-> Whohas(PeerList[k], file)]
            /\ whohas' = "fresh"
         \/ UNCHANGED <<queue, whohas>>
      /\ \/ FinishGet(list)
         \/ download' = list /\ UNCHANGED got
    BY DEF ProcessUserGet
<1> HIDE DEF list, owned
<1>5. \/ download' = <<>> /\ got' = got + 1
      \/ download' = list /\ got' = got
    BY <1>4, FinishGetEnds
<1>6. download' \in Seq(Chunk)
    BY <1>2, <1>5, EmptySeq
<1>7. TypeOK'
    <2>1. queue' \in Seq(Packet) /\ (writable' => queue' # <<>>) /\ whohas' \in {"due", "fresh"}
        <3>1. /\ queue \in Seq(Packet) /\ writable \in BOOLEAN /\ (writable => queue # <<>>)
              /\ whohas \in {"due", "fresh"} /\ writable' = writable
            BY <1>4 DEF IInv, TypeOK
        <3> DEFINE flood == [k \in DOMAIN PeerList |-> Whohas(PeerList[k], file)]
        <3>2. flood \in Seq(Packet)
            BY <1>0, FloodOK
        <3>3. CASE queue' = queue \o flood /\ whohas' = "fresh"
            <4> HIDE DEF flood
            <4>1. /\ queue' \in Seq(Packet)
                  /\ Len(queue') = Len(queue) + Len(flood)
                BY <3>1, <3>2, <3>3, ConcatProperties
            <4>2. Len(flood) \in Nat /\ (queue # <<>> => Len(queue) \in Nat \ {0})
                BY <3>1, <3>2, LenProperties, EmptySeq
            <4>3. queue # <<>> => queue' # <<>>
                BY <4>1, <4>2, EmptySeq
            <4> QED
                BY <3>1, <3>3, <4>1, <4>3
        <3>4. CASE UNCHANGED <<queue, whohas>>
            BY <3>1, <3>4
        <3> QED
            BY <1>4, <3>3, <3>4
    <2>2. peer' \in [Peers -> PeerRecord]
        <3>1. 0 \in 0..MaxTimeouts /\ 0 \in Nat
            OBVIOUS
        <3>2. ResetPeer \in PeerRecord
            BY <3>1 DEF ResetPeer, PeerRecord
        <3> QED
            BY <1>4, <3>2
    <2>3. num_downloaded' \in Nat
        BY <1>2, <1>3, <1>4, DoneFinite
    <2>4. got' \in 0..MaxGets
        BY <1>4, <1>5 DEF IInv, TypeOK
    <2>5. cur_download' \in -ConnBound..0
        BY <1>4
    <2>6. /\ pc' = "select" /\ writable' = writable /\ scan' = scan
          /\ max_conn' = max_conn /\ has' = has
        BY <1>4
    <2> QED
        BY <1>6, <2>1, <2>2, <2>3, <2>4, <2>5, <2>6 DEF IInv, TypeOK
<1>8. ASSUME NEW i \in DOMAIN download'
      PROVE  /\ ChunkOK(download'[i]) /\ download'[i].peer = NoPeer
             /\ download'[i].downloaded = 1 => download'[i].hash \in has
    <2>1. download' = list
        <3>1. DOMAIN <<>> = {}
            OBVIOUS
        <3> QED
            BY <1>5, <1>8, <3>1
    <2> QED
        BY <1>1, <1>8, <2>1
<1>9. LinksConsistent'
    <2>1. \A p \in Peers : /\ peer'[p].chunk = 0 /\ peer'[p].downloading = 0
                           /\ peer'[p].last_response = "none"
        BY <1>4 DEF ResetPeer
    <2> QED
        BY <1>8, <2>1 DEF LinksConsistent
<1>10. CountsAgree'
    <2>1. SUFFICES ASSUME download' # <<>> PROVE CountsAgree'
        BY DEF CountsAgree
    <2>2. num_downloaded' = Cardinality(Done(download'))
        BY <1>3, <1>4, <1>5, <2>1
    <2> QED
        BY <1>4, <1>8, <2>2 DEF CountsAgree, Done
<1>11. GetsLeft'
    BY <1>4, <1>5 DEF GetsLeft
<1>12. FetchesWhatIsMissing' /\ AcksCountThePrefix' /\ PacketsFit'
    BY <1>8 DEF FetchesWhatIsMissing, AcksCountThePrefix, PacketsFit, ChunkOK, Prefix, Filled
<1> QED
    BY <1>7, <1>9, <1>10, <1>11, <1>12 DEF IInv

-----------------------------------------------------------------------------
(* DATA.                                                                   *)
TheChunk(p) == download[peer[p].chunk]

Answered(r) == [Heard(r) EXCEPT !.last_response = "recent"]

(* DATA from a peer that has a chunk is added to that chunk.               *)
LEMMA DataChunk ==
    ASSUME IInv, NEW p \in Peers, peer[p].chunk # 0, NEW n \in 1..NumPackets, NEW h \in Hashes
    PROVE  LET c == AddPacketList(TheChunk(p), n, h)
           IN  /\ peer[p].chunk \in DOMAIN download
               /\ TheChunk(p).peer = p /\ TheChunk(p).downloaded = 0
               /\ Filling(c)
               /\ c.total_data < NumPackets => ChunkOK(c)
               /\ c.hash = TheChunk(p).hash /\ c.peer = p /\ c.downloaded = 0
<1>1. /\ peer[p].chunk \in DOMAIN download
      /\ TheChunk(p).peer = p /\ p # NoPeer
    BY DEF IInv, LinksConsistent, TheChunk
<1>2. ChunkOK(TheChunk(p))
    BY <1>1, Chunkwise DEF TheChunk
<1>3. TheChunk(p).downloaded = 0
    BY <1>1, <1>2 DEF ChunkOK
<1>4. LET c == AddPacketList(TheChunk(p), n, h)
      IN  /\ Filling(c)
          /\ c.total_data < NumPackets => ChunkOK(c)
          /\ c.hash = TheChunk(p).hash /\ c.peer = TheChunk(p).peer
          /\ c.downloaded = TheChunk(p).downloaded
    BY <1>1, <1>2, AddOK
<1> QED
    BY <1>1, <1>3, <1>4

(* When num_downloaded is one short of the list only the chunk being       *)
(* fetched is missing.                                                     *)
LEMMA LastChunk ==
    ASSUME IInv, NEW i \in DOMAIN download, download[i].downloaded = 0
    PROVE  /\ Cardinality(Done(download) \cup {i}) = num_downloaded + 1
           /\ num_downloaded + 1 = num_chunks =>
                 \A j \in DOMAIN download \ {i} : download[j].downloaded = 1
<1>1. /\ download \in Seq(Chunk) /\ download # <<>>
      /\ Len(download) \in Nat /\ DOMAIN download = 1..Len(download)
    BY LenProperties DEF IInv, TypeOK
<1>2. num_downloaded = Cardinality(Done(download)) /\ IsFiniteSet(Done(download))
    BY <1>1, DoneFinite DEF IInv, CountsAgree, Done
<1>3. i \notin Done(download)
    BY DEF Done
<1>4. /\ IsFiniteSet(Done(download) \cup {i})
      /\ Cardinality(Done(download) \cup {i}) = num_downloaded + 1
    BY <1>2, <1>3, FS_AddElement
<1>5. ASSUME num_downloaded + 1 = num_chunks
      PROVE  Done(download) \cup {i} = DOMAIN download
    <2>1. /\ IsFiniteSet(1..Len(download))
          /\ Cardinality(1..Len(download)) = Cardinality(Done(download) \cup {i})
        BY <1>1, <1>4, <1>5, IntervalSize DEF num_chunks
    <2>2. Done(download) \cup {i} \in SUBSET (1..Len(download))
        BY <1>1 DEF Done
    <2> QED
        BY <1>1, <2>1, <2>2, FS_Subset
<1> QED
    BY <1>4, <1>5 DEF Done

(* What DATA makes of the peer it comes from.                              *)
LEMMA AnsweredOK ==
    ASSUME NEW r \in PeerRecord
    PROVE  /\ Answered(r) \in PeerRecord /\ Answered(r).last_response = "recent"
           /\ Answered(r).chunk = r.chunk /\ Answered(r).downloading = r.downloading
<1> DEFINE s == Heard(r)
<1>1. s \in PeerRecord /\ s.chunk = r.chunk /\ s.downloading = r.downloading
    BY RecordsOK
<1>2. Answered(r) = [s EXCEPT !.last_response = "recent"]
    BY DEF Answered
<1> HIDE DEF s
<1> QED
    BY <1>1, <1>2, Zenon DEF PeerRecord

(* A packet that does not complete the chunk's bytes changes the chunk.    *)
LEMMA DataMoreInv ==
    ASSUME IInv, NEW p \in Peers, NEW n \in 1..NumPackets, NEW h \in Hashes,
           ProcessData(p, n, h),
           AddPacketList(TheChunk(p), n, h).total_data < NumPackets
    PROVE  IInv'
<1> DEFINE i == peer[p].chunk
           c == AddPacketList(TheChunk(p), n, h)
<1>1. /\ i \in DOMAIN download /\ i # 0
      /\ TheChunk(p).peer = p /\ TheChunk(p).downloaded = 0 /\ TheChunk(p) = download[i]
      /\ ChunkOK(c) /\ c.hash = TheChunk(p).hash /\ c.peer = p /\ c.downloaded = 0
    BY DataChunk DEF ProcessData, TheChunk
<1>2. /\ download' = [download EXCEPT ![i] = c]
      /\ peer' = [peer EXCEPT ![p] = Answered(peer[p])]
      /\ UNCHANGED <<cur_download, num_downloaded, has, got>>
      /\ queue' = Append(queue, Ack(p, c.next_expected - 1))
      /\ pc' = "select" /\ UNCHANGED <<writable, scan, max_conn, whohas>>
    BY DEF ProcessData, TheChunk, Answered
<1> HIDE DEF i, c
<1>3. /\ download \in Seq(Chunk) /\ Len(download) \in Nat /\ DOMAIN download = 1..Len(download)
      /\ \A j \in DOMAIN download : ChunkOK(download[j])
    BY Chunkwise, LenProperties
<1>4. /\ download' \in Seq(Chunk) /\ DOMAIN download' = DOMAIN download
      /\ download'[i] = c
      /\ \A j \in DOMAIN download \ {i} : download'[j] = download[j]
    <2>1. c \in Chunk
        BY <1>1 DEF ChunkOK
    <2> QED
        BY <1>1, <1>2, <1>3, <2>1, ExceptSeq
<1>5. /\ peer[p] \in PeerRecord /\ peer \in [Peers -> PeerRecord]
      /\ peer[p].last_response # "none"
    BY <1>1 DEF IInv, TypeOK, LinksConsistent, i
<1>6. /\ Answered(peer[p]) \in PeerRecord /\ Answered(peer[p]).last_response = "recent"
      /\ Answered(peer[p]).chunk = peer[p].chunk
      /\ Answered(peer[p]).downloading = peer[p].downloading
    BY <1>5, AnsweredOK
<1>7. SameLinks
    BY <1>1, <1>2, <1>4, <1>5, <1>6 DEF SameLinks
<1>8. TypeOK'
    <2>1. c.next_expected - 1 \in 0..NumPackets
        BY <1>1 DEF ChunkOK, Chunk
    <2>2. Ack(p, c.next_expected - 1) \in Packet
        BY <2>1 DEF Ack, Packet
    <2>3. queue' \in Seq(Packet) /\ queue' # <<>>
        BY <1>2, <2>2, PushedOK DEF IInv
    <2>4. peer' \in [Peers -> PeerRecord]
        BY <1>2, <1>5, <1>6
    <2> QED
        BY <1>2, <1>4, <2>3, <2>4 DEF IInv, TypeOK
<1> QED
    BY <1>1, <1>3, <1>4, <1>7, <1>8, Frame

(* A chunk let go of is in order, done or not.                             *)
LEMMA LetGoOK ==
    ASSUME NEW c, Filling(c), ~(c.total_data < NumPackets)
    PROVE  /\ LET d == [c EXCEPT !.peer = NoPeer]
              IN  ChunkOK(d) /\ d.peer = NoPeer /\ d.hash = c.hash /\ d.downloaded = 0
           /\ LET d == [c EXCEPT !.peer = NoPeer, !.downloaded = 1]
              IN  ChunkOK(d) /\ d.peer = NoPeer /\ d.hash = c.hash /\ d.downloaded = 1
<1>1. /\ c \in Chunk /\ c.downloaded = 0 /\ c.heap = "live" /\ Len(c.packets) <= NumPackets
      /\ c.total_data >= NumPackets
    BY DEF Filling, Fits, Chunk
<1>2. ASSUME NEW d, d \in Chunk, d.peer = NoPeer, d.heap = "live", d.packets = c.packets,
             d.total_data = c.total_data
      PROVE  ChunkOK(d)
    BY <1>1, <1>2 DEF ChunkOK, Fits
<1> DEFINE lost == [c EXCEPT !.peer = NoPeer]
           done == [c EXCEPT !.peer = NoPeer, !.downloaded = 1]
<1>3. /\ lost \in Chunk /\ lost.peer = NoPeer /\ lost.heap = "live"
      /\ lost.packets = c.packets /\ lost.total_data = c.total_data
      /\ lost.hash = c.hash /\ lost.downloaded = 0
    BY <1>1, Zenon DEF Chunk
<1>4. /\ done \in Chunk /\ done.peer = NoPeer /\ done.heap = "live"
      /\ done.packets = c.packets /\ done.total_data = c.total_data
      /\ done.hash = c.hash /\ done.downloaded = 1
    BY <1>1, Zenon DEF Chunk
<1> HIDE DEF lost, done
<1>5. ChunkOK(lost) /\ ChunkOK(done)
    BY <1>2, <1>3, <1>4
<1> QED
    BY <1>3, <1>4, <1>5 DEF lost, done

(* The bytes complete: finish_chunk releases the peer and lets go of the   *)
(* chunk, which is done or has to be fetched again.                        *)
Finished(i, c, list) ==
    /\ DOMAIN list = DOMAIN download
    /\ \A j \in DOMAIN download \ {i} : list[j] = download[j]
    /\ ChunkOK(list[i]) /\ list[i].peer = NoPeer /\ list[i].hash = c.hash

(* What finish_chunk can come to: the chunk failed, or it is done, and     *)
(* with the last one the GET may be over.                                  *)
LEMMA FinishCases ==
    ASSUME IInv, NEW p \in Peers, NEW n \in 1..NumPackets, NEW h \in Hashes,
           ProcessData(p, n, h),
           ~(AddPacketList(TheChunk(p), n, h).total_data < NumPackets)
    PROVE  LET i == peer[p].chunk
           IN  \E list \in Seq(Chunk) :
                  /\ Finished(i, TheChunk(p), list)
                  /\ peer' = [peer EXCEPT ![p] = Released(Answered(peer[p]))]
                  /\ cur_download' \in -ConnBound..0
                  /\ \/ /\ list[i].downloaded = 0 /\ download' = list
                        /\ UNCHANGED <<num_downloaded, has, got>>
                     \/ /\ list[i].downloaded = 1
                        /\ has' = has \cup {TheChunk(p).hash}
                        /\ num_downloaded' = num_downloaded + 1
                        /\ \/ download' = list /\ UNCHANGED got
                           \/ /\ num_downloaded + 1 = num_chunks
                              /\ download' = <<>> /\ got' = got + 1
<1> DEFINE i == peer[p].chunk
           c == AddPacketList(TheChunk(p), n, h)
           heard == [peer EXCEPT ![p] = Answered(peer[p])]
           lost == [c EXCEPT !.peer = NoPeer]
           done == [c EXCEPT !.peer = NoPeer, !.downloaded = 1]
           cold == [download EXCEPT ![i] = lost]
           hot == [download EXCEPT ![i] = done]
<1>1. /\ i \in DOMAIN download /\ i # 0
      /\ TheChunk(p).peer = p /\ TheChunk(p).downloaded = 0 /\ TheChunk(p) = download[i]
      /\ Filling(c) /\ c.hash = TheChunk(p).hash /\ c.peer = p /\ c.downloaded = 0
      /\ ~(c.total_data < NumPackets)
    BY DataChunk DEF ProcessData, TheChunk
<1>2. FinishChunk(i, c, heard)
    BY DEF ProcessData, TheChunk, Answered
<1>3. peer \in [Peers -> PeerRecord]
    BY DEF IInv, TypeOK
<1>4. peer' = [peer EXCEPT ![p] = Released(Answered(peer[p]))]
    <2>1. peer' = [heard EXCEPT ![c.peer] = Released(@)]
        BY <1>2 DEF FinishChunk
    <2> HIDE DEF c
    <2> QED
        BY <1>1, <1>3, <2>1
<1>5. cur_download' \in -ConnBound..0
    BY SMTT(30), <1>2 DEF FinishChunk, IInv, TypeOK
<1>6. \/ /\ download' = cold
         /\ UNCHANGED <<num_downloaded, has, got>>
      \/ /\ has' = has \cup {c.hash} /\ num_downloaded' = num_downloaded + 1
         /\ \/ num_downloaded + 1 = num_chunks /\ FinishGet(hot)
            \/ download' = hot /\ UNCHANGED got
    BY <1>2 DEF FinishChunk
<1>7. /\ ChunkOK(lost) /\ lost.peer = NoPeer /\ lost.hash = c.hash /\ lost.downloaded = 0
      /\ ChunkOK(done) /\ done.peer = NoPeer /\ done.hash = c.hash /\ done.downloaded = 1
    <2> HIDE DEF c
    <2> QED
        BY <1>1, LetGoOK
<1> HIDE DEF c, lost, done, i
<1>8. /\ cold \in Seq(Chunk) /\ Finished(i, TheChunk(p), cold) /\ cold[i].downloaded = 0
      /\ hot \in Seq(Chunk) /\ Finished(i, TheChunk(p), hot) /\ hot[i].downloaded = 1
    <2>1. download \in Seq(Chunk) /\ DOMAIN download = 1..Len(download)
        BY LenProperties DEF IInv, TypeOK
    <2>2. lost \in Chunk /\ done \in Chunk
        BY <1>7 DEF ChunkOK
    <2>3. cold \in Seq(Chunk) /\ hot \in Seq(Chunk)
        BY <1>1, <2>1, <2>2, ExceptSeq
    <2> QED
        BY <1>1, <1>7, <2>1, <2>3 DEF Finished
<1> HIDE DEF cold, hot
<1>9. CASE /\ download' = cold
           /\ UNCHANGED <<num_downloaded, has, got>>
    BY <1>4, <1>5, <1>8, <1>9 DEF i
<1>10. CASE /\ has' = has \cup {c.hash} /\ num_downloaded' = num_downloaded + 1
            /\ \/ num_downloaded + 1 = num_chunks /\ FinishGet(hot)
               \/ download' = hot /\ UNCHANGED got
    <2>1. \/ download' = hot /\ UNCHANGED got
          \/ num_downloaded + 1 = num_chunks /\ download' = <<>> /\ got' = got + 1
        BY <1>10, FinishGetEnds
    <2> QED
        BY <1>1, <1>4, <1>5, <1>8, <1>10, <2>1 DEF i
<1> QED
    BY <1>6, <1>9, <1>10

(* A finished chunk and its peer let go of each other, and the list is     *)
(* dropped only when nothing else is being fetched.                        *)
LEMMA FinishInv ==
    ASSUME IInv, NEW p \in Peers, NEW n \in 1..NumPackets, NEW h \in Hashes,
           ProcessData(p, n, h),
           ~(AddPacketList(TheChunk(p), n, h).total_data < NumPackets)
    PROVE  IInv'
<1> DEFINE i == peer[p].chunk
           c == AddPacketList(TheChunk(p), n, h)
<1>1. /\ i \in DOMAIN download /\ i # 0
      /\ TheChunk(p).peer = p /\ TheChunk(p).downloaded = 0 /\ TheChunk(p) = download[i]
      /\ Filling(c)
    BY DataChunk DEF ProcessData, TheChunk
<1>2. PICK list \in Seq(Chunk) :
          /\ Finished(i, TheChunk(p), list)
          /\ peer' = [peer EXCEPT ![p] = Released(Answered(peer[p]))]
          /\ cur_download' \in -ConnBound..0
          /\ \/ /\ list[i].downloaded = 0 /\ download' = list
                /\ UNCHANGED <<num_downloaded, has, got>>
             \/ /\ list[i].downloaded = 1
                /\ has' = has \cup {TheChunk(p).hash}
                /\ num_downloaded' = num_downloaded + 1
                /\ \/ download' = list /\ UNCHANGED got
                   \/ /\ num_downloaded + 1 = num_chunks
                      /\ download' = <<>> /\ got' = got + 1
    BY FinishCases
<1>3. /\ queue' = Append(queue, Ack(p, c.next_expected - 1))
      /\ pc' = "select" /\ UNCHANGED <<writable, scan, max_conn, whohas>>
    BY DEF ProcessData, TheChunk
<1> HIDE DEF i, c
<1>4. /\ DOMAIN list = DOMAIN download
      /\ \A j \in DOMAIN download \ {i} : list[j] = download[j]
      /\ ChunkOK(list[i]) /\ list[i].peer = NoPeer /\ list[i].hash = download[i].hash
    BY <1>1, <1>2 DEF Finished
<1>5. /\ download \in Seq(Chunk) /\ Len(download) \in Nat /\ DOMAIN download = 1..Len(download)
      /\ \A j \in DOMAIN download : ChunkOK(download[j])
    BY Chunkwise, LenProperties
<1>6. /\ peer \in [Peers -> PeerRecord]
      /\ Released(Answered(peer[p])) \in PeerRecord
      /\ Released(Answered(peer[p])).chunk = 0
      /\ Released(Answered(peer[p])).downloading = 0
      /\ Released(Answered(peer[p])).last_response = "none"
    <2>1. peer \in [Peers -> PeerRecord] /\ peer[p] \in PeerRecord
        BY DEF IInv, TypeOK
    <2>2. Answered(peer[p]) \in PeerRecord
        BY <2>1, AnsweredOK
    <2> QED
        BY <2>1, <2>2, RecordsOK
<1>7. /\ peer' \in [Peers -> PeerRecord]
      /\ peer'[p].chunk = 0 /\ peer'[p].downloading = 0 /\ peer'[p].last_response = "none"
      /\ \A q \in Peers \ {p} : peer'[q] = peer[q]
    BY <1>2, <1>6
<1>8. download' = list \/ download' = <<>>
    BY <1>2
<1>9. \A j \in DOMAIN list : ChunkOK(list[j])
    BY <1>1, <1>4, <1>5
<1>10. DOMAIN <<>> = {}
    OBVIOUS
<1>11. \A j \in DOMAIN download' : ChunkOK(download'[j])
    BY <1>8, <1>9, <1>10
<1>12. download # <<>> /\ got < MaxGets
    BY <1>1, <1>10 DEF IInv, GetsLeft
<1>13. LinksConsistent
    BY DEF IInv
<1>14. ASSUME NEW q \in Peers, q # p, peer[q].chunk # 0
       PROVE  /\ peer[q].chunk \in DOMAIN download /\ peer[q].chunk # i
              /\ download[peer[q].chunk].peer = q
              /\ download[peer[q].chunk].downloaded = 0
    <2>1. peer[q].chunk \in DOMAIN download /\ download[peer[q].chunk].peer = q
        BY <1>13, <1>14 DEF LinksConsistent
    <2>2. q # NoPeer
        OBVIOUS
    <2>3. download[peer[q].chunk].downloaded = 0
        BY <1>5, <2>1, <2>2 DEF ChunkOK
    <2> QED
        BY <1>1, <1>14, <2>1, <2>3
<1>15. TypeOK'
    <2>1. c.next_expected - 1 \in 0..NumPackets
        BY <1>1 DEF Filling, Chunk
    <2>2. Ack(p, c.next_expected - 1) \in Packet
        BY <2>1 DEF Ack, Packet
    <2>3. queue' \in Seq(Packet) /\ queue' # <<>>
        BY <1>3, <2>2, PushedOK DEF IInv
    <2>4. download' \in Seq(Chunk)
        BY <1>2, <1>8, EmptySeq
    <2>5. num_downloaded' \in Nat /\ got' \in 0..MaxGets
        <3>1. num_downloaded \in Nat /\ got \in 0..MaxGets
            BY DEF IInv, TypeOK
        <3>2. /\ num_downloaded' = num_downloaded \/ num_downloaded' = num_downloaded + 1
              /\ got' = got \/ got' = got + 1
            BY <1>2
        <3> QED
            BY <1>12, <3>1, <3>2
    <2>6. has' \subseteq Hashes
        <3>1. TheChunk(p).hash \in Hashes /\ has \subseteq Hashes
            BY <1>1, <1>5 DEF ChunkOK, Chunk, IInv, TypeOK
        <3>2. has' = has \/ has' = has \cup {TheChunk(p).hash}
            BY <1>2
        <3> QED
            BY <3>1, <3>2
    <2>7. cur_download' \in -ConnBound..0
        BY <1>2
    <2> QED
        BY <1>3, <1>7, <2>3, <2>4, <2>5, <2>6, <2>7 DEF IInv, TypeOK
<1>16. CASE download' = list
    <2>1. LinksConsistent'
        <3>1. ASSUME NEW q \in Peers
              PROVE  /\ peer'[q].chunk # 0 => /\ peer'[q].chunk \in DOMAIN download'
                                              /\ download'[peer'[q].chunk].peer = q
                     /\ peer'[q].chunk # 0 <=> peer'[q].downloading = 1
                     /\ peer'[q].chunk # 0 <=> peer'[q].last_response # "none"
            <4>1. CASE q = p
                BY <1>7, <4>1
            <4>2. CASE q # p
                <5>1. peer'[q] = peer[q]
                    BY <1>7, <4>2
                <5> QED
                    BY <1>4, <1>13, <1>14, <1>16, <4>2, <5>1 DEF LinksConsistent
            <4> QED
                BY <4>1, <4>2
        <3>2. ASSUME NEW j \in DOMAIN download', download'[j].peer # NoPeer
              PROVE  peer'[download'[j].peer].chunk = j
            <4>1. j # i /\ j \in DOMAIN download /\ download'[j] = download[j]
                BY <1>4, <1>16, <3>2
            <4>2. download[j].peer \in Peers /\ peer[download[j].peer].chunk = j
                BY <1>5, <1>13, <3>2, <4>1 DEF LinksConsistent, ChunkOK, Chunk
            <4>3. download[j].peer # p
                BY <4>1, <4>2 DEF i
            <4> QED
                BY <1>7, <4>1, <4>2, <4>3
        <3> QED
            BY <3>1, <3>2 DEF LinksConsistent
    <2>2. CountsAgree'
        <3>1. /\ num_downloaded = Cardinality(Done(download))
              /\ \A j \in DOMAIN download : download[j].downloaded = 1 => download[j].hash \in has
            BY <1>12 DEF IInv, CountsAgree, Done
        <3>2. CASE list[i].downloaded = 0 /\ UNCHANGED <<num_downloaded, has, got>>
            <4>1. Done(download') = Done(download)
                BY <1>1, <1>4, <1>16, <3>2 DEF Done
            <4>2. \A j \in DOMAIN download' :
                      download'[j].downloaded = 1 => download'[j].hash \in has'
                BY <1>4, <1>16, <3>1, <3>2
            <4> QED
                BY <3>1, <3>2, <4>1, <4>2 DEF CountsAgree, Done
        <3>3. CASE /\ list[i].downloaded = 1 /\ has' = has \cup {TheChunk(p).hash}
                   /\ num_downloaded' = num_downloaded + 1
            <4>1. Done(download') = Done(download) \cup {i}
                BY <1>1, <1>4, <1>16, <3>3 DEF Done
            <4>2. num_downloaded' = Cardinality(Done(download'))
                BY <1>1, <3>3, <4>1, LastChunk
            <4>3. \A j \in DOMAIN download' :
                      download'[j].downloaded = 1 => download'[j].hash \in has'
                BY <1>1, <1>4, <1>16, <3>1, <3>3
            <4> QED
                BY <4>2, <4>3 DEF CountsAgree, Done
        <3> QED
            BY <1>2, <3>2, <3>3
    <2>3. GetsLeft'
        <3>1. list # <<>>
            BY <1>1, <1>4, <1>10
        <3> QED
            BY <1>2, <1>12, <1>16, <3>1 DEF GetsLeft
    <2>4. FetchesWhatIsMissing' /\ AcksCountThePrefix' /\ PacketsFit'
        BY <1>11 DEF FetchesWhatIsMissing, AcksCountThePrefix, PacketsFit,
                     ChunkOK, Prefix, Filled
    <2> QED
        BY <1>15, <2>1, <2>2, <2>3, <2>4 DEF IInv
<1>17. CASE download' = <<>> /\ download' # list
    <2>1. num_downloaded + 1 = num_chunks
        BY <1>2, <1>17
    <2>2. \A j \in DOMAIN download \ {i} : download[j].downloaded = 1
        BY <1>1, <2>1, LastChunk
    <2>3. \A q \in Peers : /\ peer'[q].chunk = 0 /\ peer'[q].downloading # 1
                           /\ peer'[q].last_response = "none"
        <3>1. \A q \in Peers \ {p} : peer[q].chunk = 0
            BY <1>14, <2>2
        <3> QED
            BY <1>7, <1>13, <3>1 DEF LinksConsistent
    <2>4. LinksConsistent'
        BY <1>10, <1>17, <2>3 DEF LinksConsistent
    <2>5. /\ FetchesWhatIsMissing' /\ AcksCountThePrefix' /\ PacketsFit'
          /\ CountsAgree' /\ GetsLeft'
        BY <1>10, <1>17 DEF FetchesWhatIsMissing, AcksCountThePrefix, PacketsFit,
                            CountsAgree, GetsLeft
    <2> QED
        BY <1>15, <2>4, <2>5 DEF IInv
<1> QED
    BY <1>8, <1>16, <1>17

-----------------------------------------------------------------------------
(* Nothing is wanted of anybody at first.                                  *)
LEMMA InitInv == Init => IInv
<1> SUFFICES ASSUME Init PROVE IInv
    OBVIOUS
<1>1. DOMAIN <<>> = {} /\ download = <<>>
    BY DEF Init
<1>2. TypeOK
    <2>1. 0 \in 0..MaxTimeouts /\ 0 \in Nat
        OBVIOUS
    <2>2. ResetPeer \in PeerRecord
        BY <2>1 DEF ResetPeer, PeerRecord
    <2>3. peer \in [Peers -> PeerRecord]
        BY <2>2 DEF Init
    <2>4. download \in Seq(Chunk) /\ queue \in Seq(Packet)
        BY EmptySeq DEF Init
    <2>5. writable = FALSE /\ queue = <<>>
        BY DEF Init
    <2>6. /\ pc = "select" /\ scan = 1 /\ cur_download \in -ConnBound..0
          /\ max_conn \in MaxConn..ConnBound /\ num_downloaded \in Nat
          /\ whohas = "due" /\ has \subseteq Hashes /\ got \in 0..MaxGets
        BY DEF Init
    <2>7. writable \in BOOLEAN /\ (writable => queue # <<>>)
        BY <2>5, Zenon
    <2>8. scan \in Nat \ {0} /\ pc \in {"select", "timeouts", "scan", "send", "recv", "crashed"}
          /\ whohas \in {"due", "fresh"}
        BY <2>6
    <2> QED
        BY <2>3, <2>4, <2>6, <2>7, <2>8 DEF TypeOK
<1>3. LinksConsistent
    BY <1>1 DEF Init, LinksConsistent, ResetPeer
<1> QED
    BY <1>1, <1>2, <1>3 DEF IInv, FetchesWhatIsMissing, CountsAgree, AcksCountThePrefix,
                            PacketsFit, GetsLeft

(* Every step keeps IInv.                                                  *)
LEMMA StepInv == IInv /\ [Next]_vars => IInv'
<1> SUFFICES ASSUME IInv, [Next]_vars PROVE IInv'
    OBVIOUS
<1>1. CASE Select
    BY <1>1, SelectInv
<1>2. CASE TimeoutCheck
    BY <1>2, TimeoutInv
<1>3. ASSUME NEW p \in Peers, ScanGet(p) PROVE IInv'
    BY <1>3, ScanGetInv
<1>4. CASE \/ ScanWhohas \/ ScanSkip \/ ScanEnd \/ PeerPacketOps \/ Idle
           \/ \E p \in Peers, n \in 1..NumPackets, h \in Hashes : DataCrash(p, n, h)
           \/ UNCHANGED vars
    BY <1>4, QuietInv
<1>5. ASSUME NEW file \in GetFiles, ProcessUserGet(file) PROVE IInv'
    BY <1>5, GetInv
<1>6. ASSUME NEW p \in Peers, NEW hs \in SUBSET Hashes, ProcessIhave(p, hs) PROVE IInv'
    BY <1>6, IhaveInv
<1>7. ASSUME NEW p \in Peers, NEW n \in 1..NumPackets, NEW h \in Hashes, ProcessData(p, n, h)
      PROVE  IInv'
    BY <1>7, DataMoreInv, FinishInv
<1> QED
    BY <1>1, <1>2, <1>3, <1>4, <1>5, <1>6, <1>7 DEF Next, Scan, Receive

(* The inductive invariant holds in every state.                           *)
THEOREM Invariance == Spec => []IInv
    BY InitInv, StepInv, PTL DEF Spec

(* Every variable has its type, next_expected and the counters among them  *)
(* (bt_parse.h).                                                           *)
THEOREM TypeCorrect == Spec => []TypeOK
<1>1. IInv => TypeOK
    BY DEF IInv
<1> QED
    BY <1>1, Invariance, PTL

(* Peers and chunks point at each other or not at all, through timeouts,   *)
(* failed chunks and freed lists, so that timeout_check and finish_chunk   *)
(* may follow both pointers (peer_receiver.c:23, 249).                     *)
THEOREM LinksAlwaysConsistent == Spec => []LinksConsistent
<1>1. IInv => LinksConsistent
    BY DEF IInv
<1> QED
    BY <1>1, Invariance, PTL

(* Only a missing chunk is fetched, into a packet list that is allocated   *)
(* (timeout_check, send_get, add_packet_list).                             *)
THEOREM FetchesOnlyMissing == Spec => []FetchesWhatIsMissing
<1>1. IInv => FetchesWhatIsMissing
    BY DEF IInv
<1> QED
    BY <1>1, Invariance, PTL

(* num_downloaded counts the chunks downloaded, and they are in the        *)
(* has-chunk-file (finish_chunk, add_receiver_list).                       *)
THEOREM CountsAlwaysAgree == Spec => []CountsAgree
<1>1. IInv => CountsAgree
    BY DEF IInv
<1> QED
    BY <1>1, Invariance, PTL

(* An ACK names exactly the packets before the first gap, and the byte     *)
(* count is that of the packets held, but for what a failed attempt has    *)
(* left before the first packet (add_packet_list, finish_chunk).           *)
THEOREM AcksTellTheTruth == Spec => []AcksCountThePrefix
<1>1. IInv => AcksCountThePrefix
    BY DEF IInv
<1> QED
    BY <1>1, Invariance, PTL

-----------------------------------------------------------------------------
(* What a step may do: GOT means all, a fetch keeps its ground, and every  *)
(* step is one of Fetch or changes nothing Fetch sees.                     *)

(* The steps that fetch, finish and give up nothing.                       *)
Quiet ==
    \/ Select \/ ScanWhohas \/ ScanSkip \/ ScanEnd \/ PeerPacketOps \/ Idle
    \/ \E p \in Peers, hs \in SUBSET Hashes : ProcessIhave(p, hs)
    \/ \E p \in Peers, n \in 1..NumPackets, h \in Hashes : DataCrash(p, n, h)
    \/ UNCHANGED vars

(* DATA that leaves the chunk short, and DATA that completes it.           *)
More(p, n, h) ==
    ProcessData(p, n, h) /\ AddPacketList(TheChunk(p), n, h).total_data < NumPackets

Last(p, n, h) ==
    ProcessData(p, n, h) /\ ~(AddPacketList(TheChunk(p), n, h).total_data < NumPackets)

(* The kinds of step the three theorems below are proved for in turn.      *)
LEMMA Steps ==
    ASSUME [Next]_vars
    PROVE  \/ Quiet \/ TimeoutCheck
           \/ \E p \in Peers : ScanGet(p)
           \/ \E file \in GetFiles : ProcessUserGet(file)
           \/ \E p \in Peers, n \in 1..NumPackets, h \in Hashes : More(p, n, h) \/ Last(p, n, h)
BY DEF Next, Scan, Receive, Quiet, More, Last

(* Chunk d is c but for the peers known to have it.                        *)
SameData(c, d) ==
    /\ d.hash = c.hash /\ d.peer = c.peer /\ d.downloaded = c.downloaded
    /\ d.next_expected = c.next_expected /\ d.packets = c.packets

(* A quiet step keeps every chunk's hash, source and packets, what is      *)
(* owned, and what was told.                                               *)
LEMMA QuietKeeps ==
    ASSUME IInv, Quiet
    PROVE  /\ has' = has /\ got' = got
           /\ DOMAIN download' = DOMAIN download
           /\ \A i \in DOMAIN download : SameData(download[i], download'[i])
<1>1. CASE \E p \in Peers, hs \in SUBSET Hashes : ProcessIhave(p, hs)
    <2>1. \A i \in DOMAIN download : download[i] \in Chunk
        BY Chunkwise DEF ChunkOK
    <2>2. PICK p \in Peers, hs \in SUBSET Hashes : ProcessIhave(p, hs)
        BY <1>1
    <2>3. /\ has' = has /\ got' = got /\ DOMAIN download' = DOMAIN download
          /\ \A i \in DOMAIN download :
                \/ download'[i] = download[i]
                \/ download'[i] = [download[i] EXCEPT !.peers = @ \cup {p}]
        BY <2>2 DEF ProcessIhave
    <2>4. ASSUME NEW c \in Chunk, NEW d, d = [c EXCEPT !.peers = @ \cup {p}]
          PROVE  SameData(c, d)
        BY <2>4 DEF Chunk, SameData
    <2>5. \A i \in DOMAIN download : SameData(download[i], download'[i])
        BY <2>1, <2>3, <2>4 DEF SameData
    <2> QED
        BY <2>3, <2>5
<1>2. CASE UNCHANGED <<download, has, got>>
    BY <1>2 DEF SameData
<1> QED
    BY <1>1, <1>2 DEF Quiet, Select, ScanWhohas, ScanSkip, ScanEnd, PeerPacketOps, Idle,
                      DataCrash, vars

(* timeout_check takes the sources from some of the chunks, and those were *)
(* being fetched.                                                          *)
LEMMA TimeoutGives ==
    ASSUME IInv, TimeoutCheck
    PROVE  /\ has' = has /\ got' = got
           /\ DOMAIN download' = DOMAIN download
           /\ \A i \in DOMAIN download :
                 \/ download'[i] = download[i]
                 \/ /\ download[i].peer # NoPeer /\ download[i].downloaded = 0
                    /\ download'[i].hash = download[i].hash
                    /\ download'[i].peer = NoPeer /\ download'[i].downloaded = 0
<1>1. \A i \in DOMAIN download : ChunkOK(download[i])
    BY Chunkwise
<1>2. has' = has /\ got' = got
    BY DEF TimeoutCheck
<1>3. CASE download = <<>>
    BY <1>2, <1>3 DEF TimeoutCheck
<1>4. CASE download # <<>>
    <2>1. download' = [i \in DOMAIN download |->
                          IF \E p \in GivenUp : peer[p].chunk = i
                          THEN Abandoned(download[i]) ELSE download[i]]
        BY <1>4 DEF TimeoutCheck
    <2>2. ASSUME NEW i \in DOMAIN download, NEW p \in GivenUp, peer[p].chunk = i
          PROVE  /\ download[i].peer # NoPeer /\ download[i].downloaded = 0
                 /\ Abandoned(download[i]).hash = download[i].hash
                 /\ Abandoned(download[i]).peer = NoPeer
                 /\ Abandoned(download[i]).downloaded = 0
        <3>1. download[i].peer = p /\ p \in Peers
            BY <2>2, GivenUpHolds
        <3>2. download[i].downloaded = 0 /\ download[i] \in Chunk
            BY <1>1, <3>1 DEF ChunkOK
        <3> QED
            BY <3>1, <3>2, RecordsOK
    <2> QED
        BY <1>2, <2>1, <2>2
<1> QED
    BY <1>3, <1>4

-----------------------------------------------------------------------------
(* DATA for a chunk keeps the chunk's source and adds to its packets.      *)
LEMMA MoreAdds ==
    ASSUME IInv, NEW p \in Peers, NEW n \in 1..NumPackets, NEW h \in Hashes, More(p, n, h)
    PROVE  LET i == peer[p].chunk
               c == AddPacketList(TheChunk(p), n, h)
           IN  /\ has' = has /\ got' = got
               /\ i \in DOMAIN download /\ download[i].peer # NoPeer
               /\ download' = [download EXCEPT ![i] = c]
               /\ c.hash = download[i].hash /\ c.peer = download[i].peer
               /\ c.downloaded = download[i].downloaded
               /\ c.next_expected >= download[i].next_expected
               /\ \A k \in DOMAIN download[i].packets :
                     download[i].packets[k] # Hole =>
                        c.packets[k] = download[i].packets[k]
<1> DEFINE i == peer[p].chunk
           c == AddPacketList(TheChunk(p), n, h)
<1>1. ProcessData(p, n, h) /\ c.total_data < NumPackets /\ i # 0
    BY DEF More, ProcessData
<1>2. /\ i \in DOMAIN download /\ TheChunk(p) = download[i]
      /\ TheChunk(p).peer # NoPeer /\ ChunkOK(TheChunk(p))
    BY <1>1, DataChunk, Chunkwise DEF TheChunk
<1>3. has' = has /\ got' = got /\ download' = [download EXCEPT ![i] = c]
    BY <1>1 DEF ProcessData, TheChunk
<1>4. /\ c.hash = TheChunk(p).hash /\ c.peer = TheChunk(p).peer
      /\ c.downloaded = TheChunk(p).downloaded
      /\ c.next_expected >= TheChunk(p).next_expected
      /\ \A k \in DOMAIN TheChunk(p).packets :
            TheChunk(p).packets[k] # Hole => c.packets[k] = TheChunk(p).packets[k]
    BY <1>2, AddOK
<1> HIDE DEF i, c
<1>5. /\ c.hash = download[i].hash /\ c.peer = download[i].peer
      /\ c.downloaded = download[i].downloaded
      /\ c.next_expected >= download[i].next_expected
      /\ \A k \in DOMAIN download[i].packets :
            download[i].packets[k] # Hole => c.packets[k] = download[i].packets[k]
    BY <1>2, <1>4
<1> QED
    BY <1>2, <1>3, <1>5 DEF i, c

(* Where GOT is printed with the last DATA, every other chunk was done.    *)
LEMMA LastGot ==
    ASSUME IInv, NEW p \in Peers, NEW n \in 1..NumPackets, NEW h \in Hashes, Last(p, n, h),
           got' # got
    PROVE  \A i \in DOMAIN download : download[i].hash \in has'
<1> DEFINE i == peer[p].chunk
<1>1. i \in DOMAIN download /\ TheChunk(p) = download[i] /\ download[i].downloaded = 0
    BY DataChunk DEF Last, ProcessData, TheChunk
<1>2. has' = has \cup {TheChunk(p).hash} /\ num_downloaded + 1 = num_chunks
    BY FinishCases DEF Last
<1>3. \A j \in DOMAIN download \ {i} : download[j].downloaded = 1
    BY <1>1, <1>2, LastChunk
<1>4. \A j \in DOMAIN download : download[j].downloaded = 1 => download[j].hash \in has
    <2>1. DOMAIN <<>> = {}
        OBVIOUS
    <2> QED
        BY <1>1, <2>1 DEF IInv, CountsAgree
<1> QED
    BY <1>1, <1>2, <1>3, <1>4

(* GOT is printed only when every chunk the user asked for is owned        *)
(* (finish_get, peer_receiver.c:455).                                      *)
THEOREM GotIsAll == Spec => GotMeansAll
<1>1. IInv /\ [Next]_vars =>
        [got' # got => \A i \in DOMAIN download : download[i].hash \in has']_vars
    <2> SUFFICES ASSUME IInv, [Next]_vars, got' # got
                 PROVE  \A i \in DOMAIN download : download[i].hash \in has'
        OBVIOUS
    <2>1. CASE Quiet
        BY <2>1, QuietKeeps
    <2>2. CASE TimeoutCheck
        BY <2>2 DEF TimeoutCheck
    <2>3. CASE \E p \in Peers : ScanGet(p)
        BY <2>3 DEF ScanGet
    <2>4. CASE \E file \in GetFiles : ProcessUserGet(file)
        <3>1. DOMAIN <<>> = {} /\ download = <<>>
            BY <2>4 DEF ProcessUserGet
        <3> QED
            BY <3>1
    <2>5. ASSUME NEW p \in Peers, NEW n \in 1..NumPackets, NEW h \in Hashes, More(p, n, h)
          PROVE  FALSE
        BY <2>5, MoreAdds
    <2>6. ASSUME NEW p \in Peers, NEW n \in 1..NumPackets, NEW h \in Hashes, Last(p, n, h)
          PROVE  \A i \in DOMAIN download : download[i].hash \in has'
        BY <2>6, LastGot
    <2> QED
        BY <2>1, <2>2, <2>3, <2>4, <2>5, <2>6, Steps
<1> QED
    BY <1>1, Invariance, PTL DEF Spec, GotMeansAll

(* What FetchKeepsGround says of a chunk.                                  *)
GroundKept(c, d) ==
    c.peer # NoPeer /\ d.peer = c.peer =>
       /\ d.next_expected >= c.next_expected
       /\ \A k \in DOMAIN c.packets : c.packets[k] # Hole => d.packets[k] = c.packets[k]

(* A fetch loses no ground: while a chunk stays with a peer, next_expected *)
(* never goes back and no packet held is changed (add_packet_list keeps    *)
(* the first copy, bt_parse.c:240).                                        *)
THEOREM FetchesKeepGround == Spec => FetchKeepsGround
<1>1. IInv /\ [Next]_vars =>
        [\A i \in DOMAIN download \cap DOMAIN download' :
            GroundKept(download[i], download'[i])]_vars
    <2> SUFFICES ASSUME IInv, [Next]_vars,
                        NEW i \in DOMAIN download \cap DOMAIN download'
                 PROVE  GroundKept(download[i], download'[i])
        OBVIOUS
    <2>0. /\ \A j \in DOMAIN download : ChunkOK(download[j])
          /\ download[i] \in Chunk /\ download[i].next_expected \in Nat
        <3>1. \A j \in DOMAIN download : ChunkOK(download[j])
            BY Chunkwise
        <3>2. download[i] \in Chunk
            BY <3>1 DEF ChunkOK
        <3> QED
            BY <3>1, <3>2 DEF Chunk
    <2>1. CASE Quiet
        <3>1. SameData(download[i], download'[i])
            BY <2>1, QuietKeeps
        <3> QED
            BY <2>0, <3>1 DEF SameData, GroundKept
    <2>2. CASE download'[i] = download[i]
        BY <2>0, <2>2 DEF GroundKept
    <2>3. CASE TimeoutCheck
        <3>1. download'[i] = download[i] \/ download'[i].peer = NoPeer
            BY <2>3, TimeoutGives
        <3> QED
            BY <2>2, <3>1 DEF GroundKept
    <2>4. ASSUME NEW p \in Peers, ScanGet(p)
          PROVE  GroundKept(download[i], download'[i])
        <3>1. download[scan].peer = NoPeer /\ (i # scan => download'[i] = download[i])
            BY <2>4 DEF ScanGet, Scanning, Wanted
        <3> QED
            BY <2>2, <3>1 DEF GroundKept
    <2>5. ~ \E file \in GetFiles : ProcessUserGet(file)
        <3>1. DOMAIN <<>> = {}
            OBVIOUS
        <3> QED
            BY <3>1 DEF ProcessUserGet
    <2>6. ASSUME NEW p \in Peers, NEW n \in 1..NumPackets, NEW h \in Hashes, More(p, n, h)
          PROVE  GroundKept(download[i], download'[i])
        <3>1. CASE i = peer[p].chunk
            BY <2>6, <3>1, MoreAdds DEF GroundKept
        <3>2. CASE i # peer[p].chunk
            BY <2>2, <2>6, <3>2, MoreAdds
        <3> QED
            BY <3>1, <3>2
    <2>7. ASSUME NEW p \in Peers, NEW n \in 1..NumPackets, NEW h \in Hashes, Last(p, n, h)
          PROVE  GroundKept(download[i], download'[i])
        <3>1. PICK list : /\ Finished(peer[p].chunk, TheChunk(p), list)
                          /\ download' = list \/ download' = <<>>
            BY <2>7, FinishCases DEF Last
        <3>2. download' = list
            <4>1. DOMAIN <<>> = {}
                OBVIOUS
            <4> QED
                BY <3>1, <4>1
        <3>3. \/ download'[i] = download[i]
              \/ download'[i].peer = NoPeer
            BY <3>1, <3>2 DEF Finished
        <3> QED
            BY <2>2, <3>3 DEF GroundKept
    <2> QED
        BY <2>1, <2>3, <2>4, <2>5, <2>6, <2>7, Steps
<1>2. IInv /\ [Next]_vars =>
        [\A i \in DOMAIN download \cap DOMAIN download' :
          download[i].peer # NoPeer /\ download'[i].peer = download[i].peer =>
             /\ download'[i].next_expected >= download[i].next_expected
             /\ \A k \in DOMAIN download[i].packets :
                   download[i].packets[k] # Hole =>
                      download'[i].packets[k] = download[i].packets[k]]_vars
    BY <1>1 DEF GroundKept
<1> QED
    BY <1>2, Invariance, PTL DEF Spec, FetchKeepsGround

-----------------------------------------------------------------------------
(* Fetch sees the hash, the state and the source of each chunk.            *)
Seen(c) == [hash |-> c.hash, held |-> c.downloaded = 1, from |-> c.peer]

(* A list in which hash, source and downloaded are as before looks the     *)
(* same to Fetch.                                                          *)
LEMMA LooksSame ==
    ASSUME has' = has, got' = got, DOMAIN download' = DOMAIN download,
           \A i \in DOMAIN download : Seen(download'[i]) = Seen(download[i])
    PROVE  UNCHANGED F!fvars
<1>1. FetchList = [i \in DOMAIN download |-> Seen(download[i])]
    BY DEF FetchList, Seen
<1>2. FetchList' = [i \in DOMAIN download' |-> Seen(download'[i])]
    BY DEF FetchList, Seen
<1>3. FetchList' = FetchList
    BY <1>1, <1>2
<1> QED
    BY <1>3 DEF F!fvars

(* An empty list is an empty list to Fetch.                                *)
LEMMA NoneSeen ==
    /\ download = <<>> => FetchList = <<>>
    /\ download' = <<>> => FetchList' = <<>>
<1>1. DOMAIN <<>> = {} /\ \A f : f \in [{} -> {}] => f = <<>>
    OBVIOUS
<1>2. download = <<>> => FetchList \in [{} -> {}]
    BY <1>1 DEF FetchList
<1>3. download' = <<>> => FetchList' \in [{} -> {}]
    BY <1>1 DEF FetchList
<1> QED
    BY <1>1, <1>2, <1>3

(* Timeouts are sources given up.                                          *)
LEMMA TimeoutIsGiveUp ==
    ASSUME IInv, TimeoutCheck
    PROVE  \E S \in SUBSET DOMAIN FetchList : F!GiveUp(S)
<1> DEFINE S == {i \in DOMAIN download : download'[i].peer # download[i].peer}
<1>1. /\ has' = has /\ got' = got /\ DOMAIN download' = DOMAIN download
      /\ \A i \in DOMAIN download :
            \/ download'[i] = download[i]
            \/ /\ download[i].peer # NoPeer /\ download[i].downloaded = 0
               /\ download'[i].hash = download[i].hash
               /\ download'[i].peer = NoPeer /\ download'[i].downloaded = 0
    BY TimeoutGives
<1>2. S \in SUBSET DOMAIN FetchList
    BY DEF FetchList
<1>3. \A i \in S : FetchList[i].from # NoPeer
    BY <1>1 DEF FetchList
<1>4. ASSUME NEW i \in DOMAIN download
      PROVE  Seen(download'[i]) = IF i \in S THEN [Seen(download[i]) EXCEPT !.from = NoPeer]
                                             ELSE Seen(download[i])
    BY <1>1, <1>4 DEF Seen
<1>5. FetchList' = [i \in DOMAIN FetchList |->
                      IF i \in S THEN [FetchList[i] EXCEPT !.from = NoPeer] ELSE FetchList[i]]
    <2>1. FetchList = [i \in DOMAIN download |-> Seen(download[i])]
        BY DEF FetchList, Seen
    <2>2. FetchList' = [i \in DOMAIN download' |-> Seen(download'[i])]
        BY DEF FetchList, Seen
    <2> HIDE DEF S
    <2> QED
        BY <1>1, <1>4, <2>1, <2>2
<1> HIDE DEF S
<1> QED
    BY <1>1, <1>2, <1>3, <1>5 DEF F!GiveUp

(* What send_get does is Begin: the peer had nothing to fetch.             *)
LEMMA GetIsBegin ==
    ASSUME IInv, NEW p \in Peers, ScanGet(p)
    PROVE  scan \in DOMAIN FetchList /\ F!Begin(scan, p)
<1>1. /\ scan \in DOMAIN download /\ Wanted(download[scan])
      /\ peer[p].downloading = 0
      /\ has' = has /\ got' = got
    BY DEF ScanGet, Scanning
<1>2. \A i \in DOMAIN download : download[i] \in Chunk
    BY Chunkwise DEF ChunkOK
<1>3. download' = [download EXCEPT ![scan] = Fetched(download[scan], p)]
    BY <1>1 DEF ScanGet, Fetched
<1>4. Seen(Fetched(download[scan], p)) = [Seen(download[scan]) EXCEPT !.from = p]
    <2>1. ASSUME NEW c \in Chunk PROVE Seen(Fetched(c, p)) = [Seen(c) EXCEPT !.from = p]
        BY <2>1 DEF Seen, Fetched, Chunk
    <2> QED
        BY <1>1, <1>2, <2>1
<1>5. FetchList = [i \in DOMAIN download |-> Seen(download[i])]
    BY DEF FetchList, Seen
<1>6. FetchList' = [i \in DOMAIN download' |-> Seen(download'[i])]
    BY DEF FetchList, Seen
<1>7. FetchList' = [FetchList EXCEPT ![scan].from = p]
    <2> HIDE DEF Seen, Fetched
    <2> QED
        BY <1>1, <1>3, <1>4, <1>5, <1>6
<1>8. F!Idle(p)
    <2>1. ASSUME NEW i \in DOMAIN download PROVE download[i].peer # p
        <3>1. peer[p].chunk = 0
            BY <1>1 DEF IInv, LinksConsistent
        <3>2. i # 0
            BY LenProperties DEF IInv, TypeOK
        <3> QED
            BY <3>1, <3>2 DEF IInv, LinksConsistent
    <2> QED
        BY <2>1 DEF F!Idle, FetchList
<1>9. ~FetchList[scan].held /\ FetchList[scan].from = NoPeer
    <2>1. FetchList[scan] = Seen(download[scan])
        BY <1>1, <1>5
    <2>2. ~Seen(download[scan]).held /\ Seen(download[scan]).from = NoPeer
        <3>1. download[scan].downloaded # 1 /\ download[scan].peer = NoPeer
            BY <1>1 DEF Wanted
        <3> QED
            BY <3>1, Zenon DEF Seen
    <2> QED
        BY <2>1, <2>2
<1> QED
    BY <1>1, <1>5, <1>7, <1>8, <1>9 DEF F!Begin

(* The user's GET is Ask: GOT comes at once when all is owned already.     *)
LEMMA UserGetIsAsk ==
    ASSUME IInv, NEW file \in GetFiles, ProcessUserGet(file)
    PROVE  F!Ask(file)
<1> DEFINE list == [i \in DOMAIN file |-> NewChunk(file[i])]
           owned == {i \in DOMAIN file : file[i] \in has}
<1>1. /\ download = <<>> /\ has' = has
      /\ \/ Cardinality(owned) = Len(file) /\ FinishGet(list)
         \/ download' = list /\ got' = got
    BY DEF ProcessUserGet
<1>2. \/ Cardinality(owned) = Len(file) /\ download' = <<>> /\ got' = got + 1
      \/ download' = list /\ got' = got
    BY <1>1, FinishGetEnds
<1>3. FetchList = <<>> /\ (download' = <<>> => FetchList' = <<>>)
    BY <1>1, NoneSeen
<1>4. download' = list => FetchList' = F!Asked(file)
    <2>1. \A i \in DOMAIN file : file[i] \in Hashes
        BY LenProperties, ElementOfSeq
    <2>2. ASSUME NEW h \in Hashes
          PROVE  Seen(NewChunk(h)) = [hash |-> h, held |-> h \in has, from |-> NoPeer]
        BY <2>2 DEF Seen, NewChunk
    <2>3. FetchList' = [i \in DOMAIN download' |-> Seen(download'[i])]
        BY DEF FetchList, Seen
    <2>4. F!Asked(file) = [i \in DOMAIN file |->
                              [hash |-> file[i], held |-> file[i] \in has, from |-> NoPeer]]
        BY DEF F!Asked
    <2> QED
        BY <2>1, <2>2, <2>3, <2>4
<1>5. Cardinality(owned) = Len(file) => F!AllHeld(F!Asked(file))
    <2>1. Len(file) \in Nat /\ DOMAIN file = 1..Len(file)
        BY LenProperties
    <2>2. IsFiniteSet(1..Len(file)) /\ Cardinality(1..Len(file)) = Len(file)
        BY <2>1, IntervalSize
    <2>3. Cardinality(owned) = Len(file) => owned = DOMAIN file
        <3>1. owned \in SUBSET (1..Len(file))
            BY <2>1
        <3> HIDE DEF owned
        <3> QED
            BY <2>1, <2>2, <3>1, FS_Subset
    <2> QED
        BY <2>3 DEF F!AllHeld, F!Asked
<1> HIDE DEF list, owned
<1>6. F!Settle(F!Asked(file))
    BY <1>2, <1>3, <1>4, <1>5 DEF F!Settle
<1> QED
    BY <1>1, <1>3, <1>6 DEF F!Ask

(* An entry of the list of Fetch; and one let go of as held.               *)
Entry(h, held, from) == [hash |-> h, held |-> held, from |-> from]

(* Writing one entry and letting go of it as held is what Settle says.     *)
LEMMA EntryHeld ==
    ASSUME NEW h, NEW held, NEW from
    PROVE  [Entry(h, held, from) EXCEPT !.from = NoPeer, !.held = TRUE] = Entry(h, TRUE, NoPeer)
<1> DEFINE d == [Entry(h, held, from) EXCEPT !.from = NoPeer]
<1>1. d = Entry(h, held, NoPeer)
    BY DEF Entry
<1>2. \A x, b, q, f : f = Entry(x, b, q) => [f EXCEPT !.held = TRUE] = Entry(x, TRUE, q)
    <2>1. ASSUME NEW x, NEW b, NEW q, NEW f, f = Entry(x, b, q),
                 NEW g, g = [f EXCEPT !.held = TRUE]
          PROVE  g = Entry(x, TRUE, q)
        BY <2>1 DEF Entry
    <2> QED
        BY <2>1, Zenon
<1>3. [d EXCEPT !.held = TRUE] = Entry(h, TRUE, NoPeer)
    <2> HIDE DEF d
    <2> QED
        BY <1>1, <1>2
<1> QED
    BY <1>3

(* The last DATA gives the source up when the chunk came wrong; else it is *)
(* Hold, and GOT comes with the last chunk only.                           *)
LEMMA LastIsHold ==
    ASSUME IInv, NEW p \in Peers, NEW n \in 1..NumPackets, NEW h \in Hashes, Last(p, n, h)
    PROVE  \/ \E S \in SUBSET DOMAIN FetchList : F!GiveUp(S)
           \/ \E i \in DOMAIN FetchList : F!Hold(i)
<1> DEFINE i == peer[p].chunk
           hash == TheChunk(p).hash
<1>1. /\ i \in DOMAIN download /\ TheChunk(p) = download[i]
      /\ download[i].peer = p /\ download[i].downloaded = 0
    BY DataChunk DEF Last, ProcessData, TheChunk
<1>2. PICK list \in Seq(Chunk) :
         /\ Finished(i, TheChunk(p), list)
         /\ \/ /\ list[i].downloaded = 0 /\ download' = list
               /\ UNCHANGED <<num_downloaded, has, got>>
            \/ /\ list[i].downloaded = 1
               /\ has' = has \cup {hash}
               /\ \/ download' = list /\ UNCHANGED got
                  \/ /\ num_downloaded + 1 = num_chunks
                     /\ download' = <<>> /\ got' = got + 1
    BY FinishCases DEF Last
<1>3. /\ DOMAIN list = DOMAIN download
      /\ \A j \in DOMAIN download \ {i} : list[j] = download[j]
      /\ list[i].peer = NoPeer /\ list[i].hash = hash
    BY <1>2 DEF Finished
<1> HIDE DEF i
<1> DEFINE after == [j \in DOMAIN list |-> Seen(list[j])]
<1>4. /\ FetchList = [j \in DOMAIN download |-> Seen(download[j])]
      /\ download' = list => FetchList' = after
      /\ download' = <<>> => FetchList' = <<>>
    BY NoneSeen DEF FetchList, Seen
<1>5. /\ i \in DOMAIN FetchList /\ DOMAIN FetchList = DOMAIN download
      /\ FetchList[i].from # NoPeer /\ FetchList[i].hash = hash
    <2>1. FetchList[i] = Seen(download[i]) /\ DOMAIN FetchList = DOMAIN download
        BY <1>1, <1>4
    <2> QED
        BY <1>1, <2>1 DEF Seen
<1>6. CASE list[i].downloaded = 0 /\ download' = list /\ UNCHANGED <<has, got>>
    <2>1. Seen(list[i]) = [Seen(download[i]) EXCEPT !.from = NoPeer]
        BY <1>1, <1>3, <1>6 DEF Seen
    <2>2. after = [j \in DOMAIN FetchList |->
                      IF j \in {i} THEN [FetchList[j] EXCEPT !.from = NoPeer] ELSE FetchList[j]]
        <3> HIDE DEF Seen
        <3> QED
            BY <1>1, <1>3, <1>4, <2>1
    <2>3. F!GiveUp({i})
        BY <1>4, <1>5, <1>6, <2>2 DEF F!GiveUp
    <2> QED
        BY <1>5, <2>3
<1>7. CASE /\ list[i].downloaded = 1 /\ has' = has \cup {hash}
           /\ \/ download' = list /\ UNCHANGED got
              \/ num_downloaded + 1 = num_chunks /\ download' = <<>> /\ got' = got + 1
    <2>1. Seen(list[i]) = [Seen(download[i]) EXCEPT !.from = NoPeer, !.held = TRUE]
        <3>1. /\ Seen(download[i]) = [hash |-> hash, held |-> download[i].downloaded = 1,
                                      from |-> download[i].peer]
              /\ Seen(list[i]) = [hash |-> hash, held |-> TRUE, from |-> NoPeer]
            BY <1>1, <1>3, <1>7 DEF Seen
        <3> DEFINE b == download[i].downloaded = 1
        <3>2. /\ Seen(download[i]) = Entry(hash, b, download[i].peer)
              /\ Seen(list[i]) = Entry(hash, TRUE, NoPeer)
            BY <3>1, Zenon DEF Entry
        <3> HIDE DEF Seen, b
        <3>3. [Entry(hash, b, download[i].peer) EXCEPT !.from = NoPeer, !.held = TRUE]
                 = Entry(hash, TRUE, NoPeer)
            BY EntryHeld
        <3> QED
            BY <3>2, <3>3, Zenon
    <2>2. after = [FetchList EXCEPT ![i].from = NoPeer, ![i].held = TRUE]
        <3> HIDE DEF Seen
        <3> QED
            BY <1>1, <1>3, <1>4, <2>1
    <2>3. num_downloaded + 1 = num_chunks => F!AllHeld(after)
        <3>1. num_downloaded + 1 = num_chunks =>
                 \A j \in DOMAIN download \ {i} : download[j].downloaded = 1
            BY <1>1, LastChunk
        <3>2. num_downloaded + 1 = num_chunks =>
                 \A j \in DOMAIN list : list[j].downloaded = 1
            BY <1>3, <1>7, <3>1
        <3> QED
            BY <3>2 DEF F!AllHeld, Seen
    <2>4. F!Settle(after)
        BY <1>4, <1>7, <2>3 DEF F!Settle
    <2>5. F!Hold(i)
        BY <1>5, <1>7, <2>2, <2>4 DEF F!Hold
    <2> QED
        BY <1>5, <2>5
<1> QED
    BY <1>2, <1>6, <1>7

(* Every step of Download is one of Fetch or changes nothing Fetch sees.   *)
LEMMA StepMaps == IInv /\ [Next]_vars => [F!Next]_F!fvars
<1> SUFFICES ASSUME IInv, [Next]_vars PROVE F!Next \/ UNCHANGED F!fvars
    OBVIOUS
<1>1. CASE Quiet
    BY <1>1, QuietKeeps, LooksSame DEF SameData, Seen
<1>2. CASE TimeoutCheck
    BY <1>2, TimeoutIsGiveUp DEF F!Next
<1>3. ASSUME NEW p \in Peers, ScanGet(p) PROVE F!Next
    BY <1>3, GetIsBegin DEF F!Next
<1>4. ASSUME NEW file \in GetFiles, ProcessUserGet(file) PROVE F!Next
    BY <1>4, UserGetIsAsk DEF F!Next
<1>5. ASSUME NEW p \in Peers, NEW n \in 1..NumPackets, NEW h \in Hashes, More(p, n, h)
      PROVE  UNCHANGED F!fvars
    <2> DEFINE i == peer[p].chunk
               c == AddPacketList(TheChunk(p), n, h)
    <2>1. /\ has' = has /\ got' = got /\ i \in DOMAIN download
          /\ download' = [download EXCEPT ![i] = c]
          /\ Seen(c) = Seen(download[i])
        BY <1>5, MoreAdds DEF Seen
    <2> HIDE DEF i, c
    <2> QED
        BY <2>1, LooksSame
<1>6. ASSUME NEW p \in Peers, NEW n \in 1..NumPackets, NEW h \in Hashes, Last(p, n, h)
      PROVE  F!Next
    BY <1>6, LastIsHold DEF F!Next
<1> QED
    BY <1>1, <1>2, <1>3, <1>4, <1>5, <1>6, Steps

(* Packets, timers, counters and pointers together do what the user was    *)
(* promised: a chunk comes from one peer at a time and a peer is asked for *)
(* one chunk at a time, a chunk held is never given up, and GOT is printed *)
(* with the last chunk and not before (peer_receiver.c:249-315, 346, 455). *)
THEOREM FetchImplemented == Spec => ImplementsFetch
<1>1. Init => F!Init
    BY NoneSeen DEF Init, F!Init
<1> QED
    BY <1>1, StepMaps, Invariance, PTL DEF Spec, ImplementsFetch, F!Spec
=============================================================================
