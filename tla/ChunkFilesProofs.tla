--------------------------- MODULE ChunkFilesProofs ---------------------------
(***************************************************************************)
(* OwnedIsServed, GotIsRight and the types of ChunkFiles, proved for any   *)
(* files.  For the first of them, the inductive invariant says of every    *)
(* line of the has-chunk file what OwnedIsServed says of the first line    *)
(* with a hash, and that chunks on the list are ones that the master chunk *)
(* file lists: master_chunk would give the last id for any other.          *)
(***************************************************************************)
EXTENDS ChunkFiles, LeastNumber, SequenceTheorems, FiniteSetTheorems, TLAPS

Chunk ==
    [id : Nat, hash : Hashes, downloaded : BOOLEAN, packets : Hashes \cup {"none"}]

FilesInv ==
    /\ has_chunk_file \in Seq(Entry)
    /\ \A k \in DOMAIN has_chunk_file :
          Listed(has_chunk_file[k].id, has_chunk_file[k].hash)
    /\ download \in Seq(Chunk)

USE ChunkFilesAssumption DEF ChunkFilesAssumption

(* master_chunk finds the place of every chunk that the master file lists. *)
LEMMA MasterChunkListed ==
    ASSUME NEW h \in Hashes
    PROVE  MasterChunk(h) \in Nat /\ Listed(MasterChunk(h), h)
<1> DEFINE places == {k \in DOMAIN Master : Master[k] = h}
<1>1. places \in SUBSET Nat /\ places # {}
    BY DEF Hashes, ToSet
<1>2. Min(places) \in places
    BY <1>1, LeastIsOne
<1>3. MasterChunk(h) = Min(places) - 1 /\ Min(places) \in DOMAIN Master
    BY <1>1, <1>2 DEF MasterChunk
<1> QED
    BY <1>2, <1>3 DEF Listed

(* has_chunk answers with the id of one of the lines.                      *)
LEMMA HasChunkIsALine ==
    ASSUME NEW h, NEW file \in Seq(Entry), HasChunk(h, file) # -1
    PROVE  \E k \in DOMAIN file :
              file[k].hash = h /\ file[k].id = HasChunk(h, file)
<1> DEFINE lines == {k \in DOMAIN file : file[k].hash = h}
<1>1. lines \in SUBSET Nat
    OBVIOUS
<1>2. lines # {} /\ HasChunk(h, file) = file[Min(lines)].id
    BY DEF HasChunk
<1>3. Min(lines) \in lines
    <2> HIDE DEF lines
    <2> QED
        BY <1>1, <1>2, LeastIsOne
<1> QED
    BY <1>2, <1>3

(* The has-chunk file a peer is started with lists chunks as they are.     *)
LEMMA InitInv == Init => FilesInv
BY DEF Init, FilesInv

(* finish_get leaves the list as it was or empties it.                     *)
LEMMA FinishGetKeepsList ==
    ASSUME NEW list \in Seq(Chunk), NEW file, FinishGet(list, file)
    PROVE  download' \in Seq(Chunk)
<1>1. <<>> \in Seq(Chunk)
    BY EmptySeq
<1>2. download' = <<>> \/ download' = list
    BY DEF FinishGet
<1> QED
    BY <1>1, <1>2

(* Chunks are added for the hashes of a chunk file.                        *)
LEMMA GetInv == FilesInv /\ ProcessUserGet => FilesInv'
<1> SUFFICES ASSUME FilesInv, ProcessUserGet PROVE FilesInv'
    OBVIOUS
<1>1. PICK f \in GetFiles : \E owned \in [DOMAIN f -> BOOLEAN] :
          LET list == download \o [k \in DOMAIN f |->
                         [id |-> f[k].id, hash |-> f[k].hash,
                          downloaded |-> owned[k], packets |-> "none"]]
          IN  (\E file : FinishGet(list, file)) \/ download' = list
    <2>1. PICK f \in GetFiles :
             LET list == download \o [k \in DOMAIN f |->
                            [id |-> f[k].id, hash |-> f[k].hash,
                             downloaded |-> HasChunk(f[k].hash, has_chunk_file) # -1,
                             packets |-> "none"]]
             IN  FinishGet(list, has_chunk_file) \/ download' = list
        BY DEF ProcessUserGet
    <2> DEFINE owned == [k \in DOMAIN f |-> HasChunk(f[k].hash, has_chunk_file) # -1]
    <2>2. owned \in [DOMAIN f -> BOOLEAN]
        OBVIOUS
    <2>3. [k \in DOMAIN f |-> [id |-> f[k].id, hash |-> f[k].hash,
                               downloaded |-> owned[k], packets |-> "none"]]
            = [k \in DOMAIN f |->
                  [id |-> f[k].id, hash |-> f[k].hash,
                   downloaded |-> HasChunk(f[k].hash, has_chunk_file) # -1,
                   packets |-> "none"]]
        OBVIOUS
    <2> QED
        BY <2>1, <2>2, <2>3
<1>2. PICK owned \in [DOMAIN f -> BOOLEAN] :
          LET list == download \o [k \in DOMAIN f |->
                         [id |-> f[k].id, hash |-> f[k].hash,
                          downloaded |-> owned[k], packets |-> "none"]]
          IN  (\E file : FinishGet(list, file)) \/ download' = list
    BY <1>1
<1> DEFINE added == [k \in DOMAIN f |-> [id |-> f[k].id, hash |-> f[k].hash,
                                         downloaded |-> owned[k], packets |-> "none"]]
<1>3. f \in Seq(Entry)
    OBVIOUS
<1>4. added \in Seq(Chunk)
    <2>1. Len(f) \in Nat /\ DOMAIN f = 1..Len(f)
        BY <1>3, LenProperties
    <2>2. \A k \in 1..Len(f) : f[k] \in Entry
        BY <1>3, ElementOfSeq
    <2>3. \A k \in 1..Len(f) :
             [id |-> f[k].id, hash |-> f[k].hash,
              downloaded |-> owned[k], packets |-> "none"] \in Chunk
        BY <2>1, <2>2 DEF Entry, Chunk
    <2>4. added \in [1..Len(f) -> Chunk]
        BY <2>1, <2>3
    <2> QED
        BY <2>1, <2>4, SeqDef
<1>5. download \o added \in Seq(Chunk)
    BY <1>4, ConcatProperties DEF FilesInv
<1>6. download' \in Seq(Chunk)
    BY <1>2, <1>5, FinishGetKeepsList
<1>7. has_chunk_file' = has_chunk_file
    BY DEF ProcessUserGet
<1> QED
    BY <1>6, <1>7 DEF FilesInv

(* The line appended is one that the master chunk file has.                *)
LEMMA FinishInv ==
    ASSUME FilesInv, NEW k \in DOMAIN download, FinishChunk(k)
    PROVE  FilesInv'
<1> DEFINE list == [download EXCEPT ![k].downloaded = TRUE, ![k].packets = download[k].hash]
           line == [id |-> MasterChunk(download[k].hash), hash |-> download[k].hash]
<1>1. download[k] \in Chunk /\ download[k].hash \in Hashes
    <2>1. download[k] \in Chunk
        BY LenProperties, ElementOfSeq DEF FilesInv
    <2> QED
        BY <2>1 DEF Chunk
<1>2. line \in Entry /\ Listed(line.id, line.hash)
    BY <1>1, MasterChunkListed DEF Entry
<1>3. has_chunk_file' = Append(has_chunk_file, line)
    BY DEF FinishChunk
<1>4. has_chunk_file' \in Seq(Entry)
    BY <1>2, <1>3 DEF FilesInv
<1>5. \A j \in DOMAIN has_chunk_file' :
         Listed(has_chunk_file'[j].id, has_chunk_file'[j].hash)
    <2> HIDE DEF line
    <2>1. DOMAIN has_chunk_file' = 1..(Len(has_chunk_file) + 1)
        BY <1>2, <1>3, AppendProperties DEF FilesInv
    <2>2. \A j \in DOMAIN has_chunk_file' :
             has_chunk_file'[j] = IF j = Len(has_chunk_file) + 1 THEN line
                                  ELSE has_chunk_file[j]
        BY <2>1, <1>2, <1>3, AppendProperties DEF FilesInv
    <2>3. DOMAIN has_chunk_file = 1..Len(has_chunk_file)
        BY DEF FilesInv
    <2> QED
        BY <2>1, <2>2, <2>3, <1>2 DEF FilesInv
<1>6. list \in Seq(Chunk)
    <2>1. download \in [1..Len(download) -> Chunk] /\ Len(download) \in Nat
             /\ k \in 1..Len(download)
        BY LenProperties DEF FilesInv
    <2>2. [download[k] EXCEPT !.downloaded = TRUE, !.packets = download[k].hash] \in Chunk
        BY <1>1 DEF Chunk
    <2>3. list \in [1..Len(download) -> Chunk]
        BY <2>1, <2>2
    <2> HIDE DEF list
    <2> QED
        BY <2>1, <2>3, SeqDef
<1>7. download' \in Seq(Chunk)
    <2>1. (\E file : FinishGet(list, file)) \/ download' = list
        BY DEF FinishChunk
    <2> QED
        BY <2>1, <1>6, FinishGetKeepsList
<1> QED
    BY <1>4, <1>5, <1>7 DEF FilesInv

(* No command, chunk or restart spoils the has-chunk file.                 *)
LEMMA StepInv == FilesInv /\ [Next]_fvars => FilesInv'
<1> SUFFICES ASSUME FilesInv, [Next]_fvars PROVE FilesInv'
    OBVIOUS
<1>1. CASE ProcessUserGet
    BY <1>1, GetInv
<1>2. CASE \E k \in DOMAIN download : FinishChunk(k)
    BY <1>2, FinishInv
<1>3. CASE Restart
    BY <1>3 DEF Restart, FilesInv
<1>4. CASE UNCHANGED fvars
    BY <1>4 DEF fvars, FilesInv
<1> QED
    BY <1>1, <1>2, <1>3, <1>4 DEF Next

(* A chunk this peer says it has is where send_data looks for it, whatever *)
(* has-chunk file it was started with, whatever was asked for, and however *)
(* often it was restarted (has_chunk, finish_chunk, send_data).            *)
THEOREM ServedAlways == Spec => []OwnedIsServed
<1>1. FilesInv => OwnedIsServed
    BY HasChunkIsALine DEF FilesInv, OwnedIsServed
<1> QED
    BY <1>1, InitInv, StepInv, PTL DEF Spec

-----------------------------------------------------------------------------
(* GotIsRight.  What num_downloaded counts and what is on the list add up  *)
(* to the chunk file asked for, so that finish_get runs when every chunk   *)
(* is in the has-chunk file and so in the data file; the ids of a chunk    *)
(* file are distinct, so that chunk_with_id finds the chunk with the hash  *)
(* that this file has under the id.                                        *)
Undone(list) == {k \in DOMAIN list : ~list[k].downloaded}

Recorded(h, file) == \E k \in DOMAIN file : file[k].hash = h

AllListed(file) == \A k \in DOMAIN file : Listed(file[k].id, file[k].hash)

AllRecorded(list, file) == \A k \in DOMAIN list : Recorded(list[k].hash, file)

Covers(list, f) ==
    /\ \A k \in DOMAIN list : \E j \in DOMAIN f :
          list[k].id = f[j].id /\ list[k].hash = f[j].hash
    /\ \A j \in DOMAIN f : \E k \in DOMAIN list : list[k].id = f[j].id

ListOK(list, num, f, file) ==
    /\ Covers(list, f)
    /\ num \in Nat /\ num + Cardinality(Undone(list)) = Len(f)
    /\ \A k \in DOMAIN list : list[k].downloaded => Recorded(list[k].hash, file)

GotInv ==
    /\ FilesInv
    /\ download # <<>> =>
          /\ get_chunk_file \in GetFiles
          /\ ListOK(download, num_downloaded, get_chunk_file, has_chunk_file)
    /\ GotIsRight

(* The ids 0..n-1 are n.                                                   *)
LEMMA IntervalSize ==
    ASSUME NEW n \in Nat
    PROVE  /\ IsFiniteSet(1..n) /\ Cardinality(1..n) = n
           /\ Cardinality(0..(n - 1)) = n
<1>1. IsFiniteSet(1..n) /\ Cardinality(1..n) = IF 1 > n THEN 0 ELSE n - 1 + 1
    BY FS_Interval
<1>2. Cardinality(0..(n - 1)) = IF 0 > n - 1 THEN 0 ELSE n - 1 - 0 + 1
    BY FS_Interval
<1> QED
    BY <1>1, <1>2

(* The ids of a chunk file are as many as its lines.                       *)
LEMMA IdsDistinct ==
    ASSUME NEW f \in GetFiles, NEW i \in DOMAIN f, NEW j \in DOMAIN f, f[i].id = f[j].id
    PROVE  i = j
<1> DEFINE g == [k \in DOMAIN f |-> f[k].id]
<1>1. DOMAIN f = 1..Len(f) /\ Len(f) \in Nat
    BY LenProperties
<1>2. {f[k].id : k \in DOMAIN f} = 0..(Len(f) - 1)
    OBVIOUS
<1>3. g \in Surjection(1..Len(f), 0..(Len(f) - 1))
    BY <1>1, <1>2 DEF Surjection
<1>4. /\ IsFiniteSet(1..Len(f)) /\ Cardinality(1..Len(f)) = Len(f)
      /\ Cardinality(0..(Len(f) - 1)) = Len(f)
    BY <1>1, IntervalSize
<1>5. g \in Injection(1..Len(f), 0..(Len(f) - 1))
    <2> HIDE DEF g
    <2> QED
        BY <1>3, <1>4, FS_SurjSameCardinalityImpliesInj
<1>6. g[i] = g[j] => i = j
    <2> HIDE DEF g
    <2> QED
        BY <1>1, <1>5 DEF Injection, IsInjective
<1> QED
    BY <1>6

(* has_chunk finds what is recorded, where the data file has it.           *)
LEMMA RecordedIsFound ==
    ASSUME NEW file \in Seq(Entry), NEW h, Recorded(h, file)
    PROVE  HasChunk(h, file) # -1
<1> DEFINE lines == {k \in DOMAIN file : file[k].hash = h}
<1>1. lines \in SUBSET Nat /\ lines # {}
    BY DEF Recorded
<1>2. Min(lines) \in lines
    <2> HIDE DEF lines
    <2> QED
        BY <1>1, LeastIsOne
<1>3. HasChunk(h, file) = file[Min(lines)].id
    BY <1>1 DEF HasChunk
<1>4. file[Min(lines)] \in Entry
    BY <1>2, LenProperties, ElementOfSeq
<1> QED
    BY <1>3, <1>4 DEF Entry

(* What finish_get writes for an id is what the chunk file has under it.   *)
LEMMA SourceIsAskedFor ==
    ASSUME NEW list \in Seq(Chunk),
           NEW file \in Seq(Entry),
           AllListed(file),
           NEW f \in GetFiles, Covers(list, f),
           AllRecorded(list, file),
           NEW j \in DOMAIN f
    PROVE  Source(f[j].id, list, file) = {f[j].hash}
<1> DEFINE places == {k \in DOMAIN list : list[k].id = f[j].id}
           chunk == list[Min(places)]
           real_id == HasChunk(chunk.hash, file)
<1>1. places \in SUBSET Nat /\ places # {}
    <2>1. Len(list) \in Nat /\ DOMAIN list = 1..Len(list)
        BY LenProperties
    <2>2. \E k \in DOMAIN list : list[k].id = f[j].id
        BY DEF Covers
    <2> QED
        BY <2>1, <2>2
<1>2. Min(places) \in places
    <2> HIDE DEF places
    <2> QED
        BY <1>1, LeastIsOne
<1>3. chunk.hash = f[j].hash
    <2>1. PICK i \in DOMAIN f : chunk.id = f[i].id /\ chunk.hash = f[i].hash
        BY <1>2 DEF Covers
    <2>2. i = j
        BY <2>1, <1>2, IdsDistinct
    <2> QED
        BY <2>1, <2>2
<1>4. real_id # -1
    BY <1>2, RecordedIsFound DEF AllRecorded
<1>5. Listed(real_id, chunk.hash)
    BY <1>4, HasChunkIsALine DEF AllListed
<1>6. Source(f[j].id, list, file) = {Master[real_id + 1]}
    BY <1>4, <1>5 DEF Source
<1> QED
    BY <1>3, <1>5, <1>6 DEF Listed

(* When as many chunks are downloaded as were asked for, none is left.     *)
LEMMA NoneLeft ==
    ASSUME NEW list \in Seq(Chunk), NEW f, Len(f) \in Nat, NEW file,
           ListOK(list, Len(f), f, file)
    PROVE  Undone(list) = {}
<1>1. Undone(list) \in SUBSET (1..Len(list)) /\ IsFiniteSet(1..Len(list))
    <2>1. Len(list) \in Nat /\ DOMAIN list = 1..Len(list)
        BY LenProperties
    <2> QED
        BY <2>1, FS_Interval DEF Undone
<1>2. IsFiniteSet(Undone(list)) /\ Cardinality(Undone(list)) \in Nat
    BY <1>1, FS_Subset, FS_CardinalityType
<1>3. Cardinality(Undone(list)) = 0
    BY <1>2 DEF ListOK
<1> QED
    BY <1>2, <1>3, FS_EmptySet

(* finish_get, run when all is recorded, gets the output right.            *)
LEMMA Settled ==
    ASSUME NEW list \in Seq(Chunk), NEW file \in Seq(Entry),
           AllListed(file),
           NEW f \in GetFiles, get_chunk_file' = f,
           ListOK(list, Len(f), f, file),
           FinishGet(list, file)
    PROVE  GotIsRight' /\ (download' = <<>> \/ download' = list)
<1>1. Len(f) \in Nat /\ DOMAIN f = 1..Len(f) /\ DOMAIN list = 1..Len(list)
    BY LenProperties
<1>2. Undone(list) = {}
    BY <1>1, NoneLeft
<1>3. AllRecorded(list, file)
    BY <1>2 DEF Undone, ListOK, AllRecorded
<1>4. \A j \in DOMAIN f : Source(f[j].id, list, file) = {f[j].hash}
    <2>1. Covers(list, f)
        BY DEF ListOK
    <2>2. ASSUME NEW j \in DOMAIN f PROVE Source(f[j].id, list, file) = {f[j].hash}
        BY ONLY SMTT(30), <1>3, <2>1, SourceIsAskedFor, AllListed(file), f \in GetFiles,
                j \in DOMAIN f, list \in Seq(Chunk), file \in Seq(Entry)
    <2> QED
        BY <2>2
<1>5. {f[k].id : k \in DOMAIN f} = 0..(Len(f) - 1)
    OBVIOUS
<1>6. CASE outfile' = <<>> /\ got' = FALSE /\ download' = list
    BY <1>6 DEF GotIsRight
<1>7. ASSUME download' = <<>> \/ download' = list,
             got' = ({id \in 0..(Len(f) - 1) : Source(id, list, file) = {}} = {}),
             outfile' = [k \in 1..(IF {id \in 0..(Len(f) - 1) : Source(id, list, file) = {}} = {}
                                   THEN Len(f)
                                   ELSE Min({id \in 0..(Len(f) - 1) : Source(id, list, file) = {}}))
                            |-> CHOOSE c \in Source(k - 1, list, file) : TRUE]
      PROVE  GotIsRight'
    <2>1. {id \in 0..(Len(f) - 1) : Source(id, list, file) = {}} = {}
        BY <1>4, <1>5
    <2>2. outfile' = [k \in 1..Len(f) |-> CHOOSE c \in Source(k - 1, list, file) : TRUE]
        BY <1>7, <2>1
    <2>3. ASSUME NEW k \in 1..Len(f)
          PROVE  (CHOOSE c \in Source(k - 1, list, file) : TRUE)
                    = (CHOOSE e \in ToSet(f) : e.id = k - 1).hash
        <3>1. PICK j \in DOMAIN f : f[j].id = k - 1
            <4>1. k - 1 \in 0..(Len(f) - 1)
                BY <1>1
            <4>2. k - 1 \in {f[j].id : j \in DOMAIN f}
                BY <4>1, <1>5
            <4> QED
                BY <4>2
        <3>2. (CHOOSE c \in Source(k - 1, list, file) : TRUE) = f[j].hash
            BY <1>4, <3>1
        <3>3. PICK i \in DOMAIN f : f[i] = CHOOSE e \in ToSet(f) : e.id = k - 1
            BY <3>1 DEF ToSet
        <3>4. f[i].id = k - 1
            BY <3>1, <3>3 DEF ToSet
        <3> QED
            BY <3>1, <3>2, <3>3, <3>4, IdsDistinct
    <2>4. [k \in 1..Len(f) |-> CHOOSE c \in Source(k - 1, list, file) : TRUE]
            = [k \in DOMAIN f |-> (CHOOSE e \in ToSet(f) : e.id = k - 1).hash]
        BY <1>1, <2>3
    <2> QED
        BY <2>2, <2>4 DEF GotIsRight
<1> QED
    BY <1>6, <1>7 DEF FinishGet, NumChunks

(* A GET puts the whole chunk file on the list; one typed again finds that *)
(* all of it is recorded.                                                  *)
LEMMA GetRight == GotInv /\ ProcessUserGet => GotInv'
<1> SUFFICES ASSUME GotInv, ProcessUserGet PROVE GotInv'
    OBVIOUS
<1> DEFINE owned(h) == HasChunk(h, has_chunk_file) # -1
           new(f) == [k \in DOMAIN f |->
                        [id |-> f[k].id, hash |-> f[k].hash,
                         downloaded |-> owned(f[k].hash), packets |-> "none"]]
           num(f) == Cardinality({k \in DOMAIN f : owned(f[k].hash)})
<1>1. PICK f \in GetFiles :
          /\ download = <<>> \/ Again(f)
          /\ get_chunk_file' = f /\ num_downloaded' = num(f)
          /\ IF num(f) = Len(f) THEN FinishGet(download \o new(f), has_chunk_file)
             ELSE download' = download \o new(f) /\ outfile' = <<>> /\ got' = FALSE
    BY DEF ProcessUserGet
<1>2. has_chunk_file' = has_chunk_file /\ FilesInv /\ FilesInv'
    BY GetInv DEF ProcessUserGet, GotInv
<1>3. f \in Seq(Entry) /\ Len(f) \in Nat /\ DOMAIN f = 1..Len(f)
    BY LenProperties
<1>4. new(f) \in Seq(Chunk) /\ Len(new(f)) = Len(f)
    <2>1. \A k \in 1..Len(f) : f[k] \in Entry
        BY <1>3, ElementOfSeq
    <2>2. \A k \in 1..Len(f) :
             [id |-> f[k].id, hash |-> f[k].hash,
              downloaded |-> owned(f[k].hash), packets |-> "none"] \in Chunk
        BY <2>1 DEF Entry, Chunk
    <2>3. new(f) \in [1..Len(f) -> Chunk]
        BY <1>3, <2>2
    <2>4. new(f) \in Seq(Chunk)
        <3> HIDE DEF new
        <3> QED
            BY <1>3, <2>3, SeqDef
    <2> QED
        BY <1>3, <2>3, <2>4
<1>5. ListOK(download \o new(f), num(f), f, has_chunk_file)
    <2> DEFINE O == {k \in DOMAIN f : owned(f[k].hash)}
    <2>1. IsFiniteSet(DOMAIN f) /\ Cardinality(DOMAIN f) = Len(f) /\ IsFiniteSet(O)
             /\ Cardinality(O) \in Nat
        <3>1. IsFiniteSet(DOMAIN f) /\ Cardinality(DOMAIN f) = Len(f)
            <4>1. IsFiniteSet(1..Len(f)) /\ Cardinality(1..Len(f)) = Len(f)
                BY <1>3, IntervalSize
            <4> QED
                BY <1>3, <4>1
        <3>2. IsFiniteSet(O)
            BY <3>1, FS_Subset
        <3> HIDE DEF O
        <3> QED
            BY <1>3, <3>1, <3>2, FS_CardinalityType
    <2>2. DOMAIN new(f) = DOMAIN f
             /\ \A k \in DOMAIN f : /\ new(f)[k].id = f[k].id /\ new(f)[k].hash = f[k].hash
                                    /\ new(f)[k].downloaded = owned(f[k].hash)
        OBVIOUS
    <2>3. \A k \in DOMAIN f : owned(f[k].hash) => Recorded(f[k].hash, has_chunk_file)
        BY <1>2, HasChunkIsALine DEF FilesInv, Recorded
    <2>4. CASE download = <<>>
        <3>1. download \o new(f) = new(f)
            <4> HIDE DEF new
            <4> QED
                BY <1>4, <2>4, ConcatEmptySeq
        <3>2. Undone(new(f)) = DOMAIN f \ O
            <4> HIDE DEF new
            <4> QED
                BY <2>2 DEF Undone
        <3>3. Cardinality(DOMAIN f \ O) = Cardinality(DOMAIN f) - Cardinality(O)
            <4>1. DOMAIN f \cap O = O
                OBVIOUS
            <4> HIDE DEF O
            <4>2. IsFiniteSet(DOMAIN f)
                BY <2>1
            <4>3. Cardinality(DOMAIN f \ O) = Cardinality(DOMAIN f) - Cardinality(DOMAIN f \cap O)
                BY <4>2, FS_Difference
            <4> QED
                BY <4>1, <4>3
        <3>4. num(f) \in Nat /\ num(f) + Cardinality(Undone(new(f))) = Len(f)
            <4>1. num(f) = Cardinality(O)
                OBVIOUS
            <4> HIDE DEF O, new, num
            <4> QED
                BY <1>3, <2>1, <3>2, <3>3, <4>1
        <3>5. Covers(new(f), f)
            <4> HIDE DEF new
            <4> QED
                BY <2>2 DEF Covers
        <3>6. \A k \in DOMAIN new(f) :
                 new(f)[k].downloaded => Recorded(new(f)[k].hash, has_chunk_file)
            <4> HIDE DEF new
            <4> QED
                BY <2>2, <2>3
        <3> HIDE DEF new, num
        <3> QED
            BY <3>1, <3>4, <3>5, <3>6 DEF ListOK
    <2>5. CASE download # <<>>
        <3>1. Again(f) /\ f = get_chunk_file
                 /\ ListOK(download, Len(f), f, has_chunk_file)
            BY <1>1, <2>5 DEF Again, NumChunks, GotInv
        <3>2. download \in Seq(Chunk) /\ Len(download) \in Nat
                 /\ DOMAIN download = 1..Len(download)
            BY <1>2, LenProperties DEF FilesInv
        <3>3. Undone(download) = {}
            BY <1>3, <3>1, <3>2, NoneLeft
        <3>4. \A k \in DOMAIN download : Recorded(download[k].hash, has_chunk_file)
            BY <3>1, <3>3 DEF Undone, ListOK
        <3>5. ASSUME NEW j \in DOMAIN f PROVE owned(f[j].hash)
            <4>1. PICK k \in DOMAIN download : download[k].id = f[j].id
                BY <3>1 DEF ListOK, Covers
            <4>2. PICK i \in DOMAIN f : download[k].id = f[i].id /\ download[k].hash = f[i].hash
                BY <3>1 DEF ListOK, Covers
            <4>3. Recorded(f[j].hash, has_chunk_file)
                BY <3>4, <4>1, <4>2, IdsDistinct
            <4> QED
                BY <1>2, <4>3, RecordedIsFound DEF FilesInv
        <3>6. num(f) = Len(f)
            <4>1. O = DOMAIN f
                BY <3>5
            <4> QED
                BY <2>1, <4>1
        <3> DEFINE list == download \o new(f)
        <3>7. /\ DOMAIN list = 1..(Len(download) + Len(f))
              /\ \A k \in DOMAIN list : list[k] = IF k <= Len(download) THEN download[k]
                                                  ELSE new(f)[k - Len(download)]
            <4> HIDE DEF new
            <4>1. /\ list \in Seq(Chunk) /\ Len(list) = Len(download) + Len(f)
                  /\ \A k \in 1..(Len(download) + Len(f)) :
                        list[k] = IF k <= Len(download) THEN download[k]
                                  ELSE new(f)[k - Len(download)]
                <5>1. /\ list \in Seq(Chunk) /\ Len(list) = Len(download) + Len(new(f))
                      /\ \A k \in 1..(Len(download) + Len(new(f))) :
                            list[k] = IF k <= Len(download) THEN download[k]
                                      ELSE new(f)[k - Len(download)]
                    BY <1>4, <3>2, ConcatProperties
                <5> QED
                    BY <1>4, <5>1
            <4>2. DOMAIN list = 1..Len(list)
                BY <4>1, LenProperties
            <4> QED
                BY <4>1, <4>2
        <3>8. \A k \in DOMAIN list : \/ \E i \in DOMAIN download : list[k] = download[i]
                                     \/ \E j \in DOMAIN f : list[k] = new(f)[j]
            <4> HIDE DEF new, list
            <4> QED
                BY <1>3, <3>2, <3>7
        <3>9. \A i \in DOMAIN download : i \in DOMAIN list /\ list[i] = download[i]
            <4> HIDE DEF new, list
            <4> QED
                BY <1>3, <3>2, <3>7
        <3>10. Covers(list, f)
            <4> HIDE DEF new, list
            <4>1. Covers(download, f)
                BY <3>1 DEF ListOK
            <4>2. ASSUME NEW k \in DOMAIN list
                  PROVE  \E j \in DOMAIN f : list[k].id = f[j].id /\ list[k].hash = f[j].hash
                <5>1. CASE \E i \in DOMAIN download : list[k] = download[i]
                    BY <4>1, <5>1 DEF Covers
                <5>2. CASE \E j \in DOMAIN f : list[k] = new(f)[j]
                    BY <2>2, <5>2
                <5> QED
                    BY <3>8, <5>1, <5>2
            <4>3. ASSUME NEW j \in DOMAIN f
                  PROVE  \E k \in DOMAIN list : list[k].id = f[j].id
                BY <3>9, <4>1 DEF Covers
            <4> QED
                BY <4>2, <4>3 DEF Covers
        <3>11. Undone(list) = {} /\ \A k \in DOMAIN list : Recorded(list[k].hash, has_chunk_file)
            <4> HIDE DEF new, list, owned
            <4>1. ASSUME NEW k \in DOMAIN list
                  PROVE  list[k].downloaded /\ Recorded(list[k].hash, has_chunk_file)
                <5>1. CASE \E i \in DOMAIN download : list[k] = download[i]
                    BY <3>3, <3>4, <5>1 DEF Undone
                <5>2. CASE \E j \in DOMAIN f : list[k] = new(f)[j]
                    BY <2>2, <2>3, <3>5, <5>2
                <5> QED
                    BY <3>8, <5>1, <5>2
            <4> QED
                BY <4>1 DEF Undone
        <3> HIDE DEF list, num
        <3>12. ListOK(list, num(f), f, has_chunk_file)
            BY <1>3, <3>6, <3>10, <3>11, FS_EmptySet DEF ListOK
        <3> QED
            BY <3>12 DEF list
    <2> QED
        BY <2>4, <2>5
<1>6. download \o new(f) \in Seq(Chunk)
    <2> HIDE DEF new
    <2> QED
        BY <1>2, <1>4, ConcatProperties DEF FilesInv
<1>7. CASE num(f) = Len(f)
    <2>1. GotIsRight' /\ (download' = <<>> \/ download' = download \o new(f))
        <3> HIDE DEF new, num
        <3> QED
            BY <1>1, <1>2, <1>5, <1>6, <1>7, Settled DEF FilesInv, AllListed
    <2> HIDE DEF new, num
    <2> QED
        BY <1>1, <1>2, <1>5, <2>1 DEF GotInv
<1>8. CASE num(f) # Len(f)
    <2> HIDE DEF new, num
    <2> QED
        BY <1>1, <1>2, <1>5, <1>8 DEF GotInv, GotIsRight
<1> QED
    BY <1>7, <1>8

(* A chunk finished is one fewer to come, recorded before it counts.       *)
LEMMA FinishRight ==
    ASSUME GotInv, NEW k \in DOMAIN download, FinishChunk(k)
    PROVE  GotInv'
<1> DEFINE list == [download EXCEPT ![k].downloaded = TRUE, ![k].packets = download[k].hash]
           line == [id |-> MasterChunk(download[k].hash), hash |-> download[k].hash]
           f == get_chunk_file
<1>1. FilesInv /\ FilesInv'
    BY FinishInv DEF GotInv
<1>2. download \in Seq(Chunk) /\ Len(download) \in Nat /\ DOMAIN download = 1..Len(download)
    BY <1>1, LenProperties DEF FilesInv
<1>3. download # <<>>
    BY <1>2, EmptySeq
<1>4. f \in GetFiles /\ Len(f) \in Nat /\ ListOK(download, num_downloaded, f, has_chunk_file)
    BY <1>3, LenProperties DEF GotInv
<1>5. /\ has_chunk_file' = Append(has_chunk_file, line)
      /\ num_downloaded' = num_downloaded + 1 /\ f' = f /\ ~download[k].downloaded
      /\ IF num_downloaded + 1 = Len(f) THEN FinishGet(list, has_chunk_file')
         ELSE download' = list /\ UNCHANGED <<outfile, got>>
    BY DEF FinishChunk, NumChunks
<1>6. /\ DOMAIN list = DOMAIN download
      /\ \A j \in DOMAIN download :
            /\ download[j] \in Chunk
            /\ list[j].id = download[j].id /\ list[j].hash = download[j].hash
            /\ list[j].downloaded = IF j = k THEN TRUE ELSE download[j].downloaded
    <2>1. \A j \in DOMAIN download : download[j] \in Chunk
        BY <1>2, ElementOfSeq
    <2> QED
        BY <2>1 DEF Chunk
<1>7. list \in Seq(Chunk)
    <2>1. \A j \in DOMAIN download : list[j] \in Chunk
        BY <1>6 DEF Chunk
    <2>2. list \in [1..Len(download) -> Chunk]
        BY <1>2, <2>1
    <2> HIDE DEF list
    <2> QED
        BY <1>2, <2>2, SeqDef
<1>8. \A h : Recorded(h, has_chunk_file) \/ h = download[k].hash
               => Recorded(h, has_chunk_file')
    <2>1. line \in Entry /\ has_chunk_file \in Seq(Entry)
        BY <1>1, <1>2, <1>6, MasterChunkListed DEF FilesInv, Entry, Chunk
    <2> HIDE DEF line
    <2>2. /\ Len(has_chunk_file) \in Nat /\ DOMAIN has_chunk_file = 1..Len(has_chunk_file)
          /\ DOMAIN has_chunk_file' = 1..(Len(has_chunk_file) + 1)
          /\ \A j \in 1..Len(has_chunk_file) : has_chunk_file'[j] = has_chunk_file[j]
          /\ has_chunk_file'[Len(has_chunk_file) + 1] = line
        BY <1>5, <2>1, AppendProperties, LenProperties
    <2>3. line.hash = download[k].hash
        BY DEF line
    <2> QED
        BY <2>2, <2>3 DEF Recorded
<1>9. ListOK(list, num_downloaded + 1, f, has_chunk_file')
    <2>1. Covers(list, f)
        <3>1. Covers(download, f)
            BY <1>4 DEF ListOK
        <3> HIDE DEF list, f
        <3>2. ASSUME NEW j \in DOMAIN list
              PROVE  \E i \in DOMAIN f : list[j].id = f[i].id /\ list[j].hash = f[i].hash
            <4>1. PICK i \in DOMAIN f :
                     download[j].id = f[i].id /\ download[j].hash = f[i].hash
                BY <1>6, <3>1 DEF Covers
            <4> QED
                BY <1>6, <4>1
        <3>3. ASSUME NEW i \in DOMAIN f
              PROVE  \E j \in DOMAIN list : list[j].id = f[i].id
            <4>1. PICK j \in DOMAIN download : download[j].id = f[i].id
                BY <3>1 DEF Covers
            <4> QED
                BY <1>6, <4>1
        <3> QED
            BY <3>2, <3>3 DEF Covers
    <2>2. num_downloaded + 1 \in Nat /\ num_downloaded + 1 + Cardinality(Undone(list)) = Len(f)
        <3>1. Undone(list) = Undone(download) \ {k}
            <4> HIDE DEF list
            <4> QED
                BY <1>6 DEF Undone
        <3>2. IsFiniteSet(Undone(download))
            <4>1. IsFiniteSet(1..Len(download))
                BY <1>2, IntervalSize
            <4> QED
                BY <1>2, <4>1, FS_Subset DEF Undone
        <3>3. k \in Undone(download)
            BY <1>5 DEF Undone
        <3>4. Cardinality(Undone(list)) = Cardinality(Undone(download)) - 1
                 /\ Cardinality(Undone(download)) \in Nat
            BY ZenonT(30), <3>1, <3>2, <3>3, FS_RemoveElement, FS_CardinalityType
        <3> QED
            BY <1>4, <3>4 DEF ListOK
    <2>3. \A j \in DOMAIN list : list[j].downloaded => Recorded(list[j].hash, has_chunk_file')
        <3> HIDE DEF list
        <3> QED
            BY <1>4, <1>6, <1>8 DEF ListOK
    <2> QED
        BY <2>1, <2>2, <2>3 DEF ListOK
<1>10. CASE num_downloaded + 1 = Len(f)
    <2>1. AllListed(has_chunk_file') /\ has_chunk_file' \in Seq(Entry)
        BY <1>1 DEF FilesInv, AllListed
    <2>2. GotIsRight' /\ (download' = <<>> \/ download' = list)
        <3> HIDE DEF list, line
        <3> QED
            BY <1>4, <1>5, <1>7, <1>9, <1>10, <2>1, Settled
    <2> HIDE DEF list, line
    <2> QED
        BY <1>1, <1>4, <1>5, <1>9, <2>2 DEF GotInv
<1>11. CASE num_downloaded + 1 # Len(f)
    <2> HIDE DEF list, line
    <2>1. GotIsRight'
        BY <1>5, <1>11 DEF GotInv, GotIsRight
    <2> QED
        BY <1>1, <1>4, <1>5, <1>9, <1>11, <2>1 DEF GotInv
<1> QED
    BY <1>10, <1>11

(* Every step keeps the counts and the records in agreement.               *)
LEMMA StepRight == GotInv /\ [Next]_fvars => GotInv'
<1> SUFFICES ASSUME GotInv, [Next]_fvars PROVE GotInv'
    OBVIOUS
<1>1. CASE ProcessUserGet
    BY <1>1, GetRight
<1>2. CASE \E k \in DOMAIN download : FinishChunk(k)
    BY <1>2, FinishRight
<1>3. CASE Restart
    BY <1>3, StepInv DEF Next, Restart, GotInv, GotIsRight
<1>4. CASE UNCHANGED fvars
    BY <1>4 DEF fvars, GotInv, FilesInv, GotIsRight
<1> QED
    BY <1>1, <1>2, <1>3, <1>4 DEF Next

(* When GOT is printed the output file is what was asked for, chunk by     *)
(* chunk in the order of the ids, for any chunk files, after any restarts, *)
(* and when the GET had to be typed again (finish_chunk, finish_get).      *)
THEOREM GotRightAlways == Spec => []GotIsRight
<1>1. Init => GotInv
    BY InitInv DEF Init, GotInv, GotIsRight
<1>2. GotInv => GotIsRight
    BY DEF GotInv
<1> QED
    BY <1>1, <1>2, StepRight, PTL DEF Spec

-----------------------------------------------------------------------------
(* The types and the counts.                                               *)

(* The count of what is downloaded, whether a GET is going on or not.      *)
Counted == get_chunk_file \in Seq(Entry) /\ num_downloaded \in 0..NumChunks

(* A list that has every id of a chunk file is no shorter than the file.   *)
LEMMA ListLongEnough ==
    ASSUME NEW list \in Seq(Chunk), NEW f \in GetFiles, Covers(list, f)
    PROVE  Len(list) >= Len(f)
<1>1. /\ Len(list) \in Nat /\ DOMAIN list = 1..Len(list)
      /\ Len(f) \in Nat /\ DOMAIN f = 1..Len(f)
    BY LenProperties
<1>2. \A j \in 1..Len(f) : \E k \in 1..Len(list) : list[k].id = f[j].id
    BY <1>1 DEF Covers
<1> DEFINE at == [j \in 1..Len(f) |-> CHOOSE k \in 1..Len(list) : list[k].id = f[j].id]
<1>3. \A j \in 1..Len(f) : at[j] \in 1..Len(list) /\ list[at[j]].id = f[j].id
    BY <1>2
<1>4. at \in Injection(1..Len(f), 1..Len(list))
    <2>1. at \in [1..Len(f) -> 1..Len(list)]
        BY <1>3
    <2>2. ASSUME NEW i \in 1..Len(f), NEW j \in 1..Len(f), at[i] = at[j]
          PROVE  i = j
        <3>1. f[i].id = f[j].id
            BY <1>3, <2>2
        <3> QED
            BY <1>1, <3>1, IdsDistinct
    <2> HIDE DEF at
    <2> QED
        BY <2>1, <2>2 DEF Injection, IsInjective
<1>5. /\ IsFiniteSet(1..Len(list)) /\ Cardinality(1..Len(list)) = Len(list)
      /\ Cardinality(1..Len(f)) = Len(f)
    BY <1>1, IntervalSize
<1>6. Cardinality(1..Len(f)) <= Cardinality(1..Len(list))
    <2> HIDE DEF at
    <2> QED
        BY <1>4, <1>5, FS_Injection
<1> QED
    BY <1>1, <1>5, <1>6

(* What is counted never exceeds what was asked for.                       *)
LEMMA CountedStep == GotInv /\ Counted /\ [Next]_fvars => Counted'
<1> SUFFICES ASSUME GotInv, Counted, [Next]_fvars PROVE Counted'
    OBVIOUS
<1>1. CASE ProcessUserGet
    <2> DEFINE O(f) == {k \in DOMAIN f : HasChunk(f[k].hash, has_chunk_file) # -1}
    <2>1. PICK f \in GetFiles : get_chunk_file' = f /\ num_downloaded' = Cardinality(O(f))
        BY <1>1 DEF ProcessUserGet
    <2>2. f \in Seq(Entry) /\ Len(f) \in Nat /\ DOMAIN f = 1..Len(f)
        BY LenProperties
    <2>3. IsFiniteSet(1..Len(f)) /\ Cardinality(1..Len(f)) = Len(f)
        BY <2>2, IntervalSize
    <2> DEFINE S == O(f)
    <2>4. S \in SUBSET (1..Len(f))
        BY <2>2
    <2> HIDE DEF S
    <2>5. IsFiniteSet(S) /\ Cardinality(S) <= Cardinality(1..Len(f))
        BY <2>3, <2>4, FS_Subset
    <2>6. Cardinality(S) \in Nat
        BY <2>5, FS_CardinalityType
    <2>7. num_downloaded' \in 0..Len(f)
        BY <2>1, <2>2, <2>3, <2>5, <2>6 DEF S
    <2> QED
        BY <2>1, <2>2, <2>7 DEF Counted, NumChunks
<1>2. CASE \E k \in DOMAIN download : FinishChunk(k)
    <2>1. PICK k \in DOMAIN download : FinishChunk(k)
        BY <1>2
    <2>2. /\ ~download[k].downloaded /\ num_downloaded' = num_downloaded + 1
          /\ get_chunk_file' = get_chunk_file
        BY <2>1 DEF FinishChunk
    <2>3. download \in Seq(Chunk) /\ Len(download) \in Nat /\ DOMAIN download = 1..Len(download)
        BY LenProperties DEF GotInv, FilesInv
    <2>4. download # <<>>
        BY <2>3, EmptySeq
    <2>5. num_downloaded \in Nat
             /\ num_downloaded + Cardinality(Undone(download)) = Len(get_chunk_file)
        BY <2>4 DEF GotInv, ListOK
    <2>6. IsFiniteSet(Undone(download))
        <3>1. IsFiniteSet(1..Len(download))
            BY <2>3, IntervalSize
        <3> QED
            BY <2>3, <3>1, FS_Subset DEF Undone
    <2>7. Cardinality(Undone(download)) \in Nat /\ Cardinality(Undone(download)) # 0
        <3>1. k \in Undone(download)
            BY <2>2 DEF Undone
        <3> QED
            BY <2>6, <3>1, FS_CardinalityType, FS_EmptySet
    <2>8. Len(get_chunk_file) \in Nat /\ num_downloaded + 1 \in 0..Len(get_chunk_file)
        BY <2>5, <2>7
    <2> QED
        BY <2>2, <2>8 DEF Counted, NumChunks
<1>3. CASE Restart
    <2>1. <<>> \in Seq(Entry) /\ Len(<<>>) = 0
        BY EmptySeq
    <2>2. get_chunk_file' = <<>> /\ num_downloaded' = 0
        BY <1>3 DEF Restart
    <2> QED
        BY <2>1, <2>2 DEF Counted, NumChunks
<1>4. CASE UNCHANGED fvars
    BY <1>4 DEF fvars, Counted, NumChunks
<1> QED
    BY <1>1, <1>2, <1>3, <1>4 DEF Next

(* The types follow.                                                       *)
LEMMA FilesMean == GotInv /\ Counted => TypeOK
<1> SUFFICES ASSUME GotInv, Counted PROVE TypeOK
    OBVIOUS
<1>1. has_chunk_file \in Seq(Entry) /\ download \in Seq(Chunk)
    BY DEF GotInv, FilesInv
<1>2. \A k \in DOMAIN has_chunk_file :
          has_chunk_file[k].id \in Nat /\ has_chunk_file[k].hash \in Hashes
    <2>1. \A k \in DOMAIN has_chunk_file : has_chunk_file[k] \in Entry
        BY <1>1, LenProperties, ElementOfSeq
    <2> QED
        BY <2>1 DEF Entry
<1>3. download # <<>> => Len(download) >= NumChunks
    BY <1>1, ListLongEnough DEF GotInv, ListOK, NumChunks
<1>4. ASSUME NEW k \in DOMAIN download, download[k].downloaded
      PROVE  HasChunk(download[k].hash, has_chunk_file) # -1
    <2>1. download # <<>>
        BY <1>1, LenProperties, EmptySeq
    <2>2. Recorded(download[k].hash, has_chunk_file)
        BY <1>4, <2>1 DEF GotInv, ListOK
    <2> QED
        BY <1>1, <2>2, RecordedIsFound
<1> QED
    BY <1>2, <1>3, <1>4 DEF TypeOK, Counted

(* So do they before the first GET.                                        *)
LEMMA FilesStart == Init => GotInv /\ Counted
<1> SUFFICES ASSUME Init PROVE GotInv /\ Counted
    OBVIOUS
<1>1. GotInv
    BY InitInv DEF Init, GotInv, GotIsRight
<1>2. <<>> \in Seq(Entry) /\ Len(<<>>) = 0
    BY EmptySeq
<1> QED
    BY <1>1, <1>2 DEF Init, Counted, NumChunks

(* num_downloaded stays within the chunk file asked for, whatever was      *)
(* typed before and however often, and what the list has as downloaded is  *)
(* on disk (finish_chunk, add_receiver_list).                              *)
THEOREM FilesCounted == Spec => []TypeOK
<1>1. Init => GotInv /\ Counted
    BY FilesStart
<1>2. GotInv /\ Counted /\ [Next]_fvars => (GotInv /\ Counted)'
    BY StepRight, CountedStep
<1>3. GotInv /\ Counted => TypeOK
    BY FilesMean
<1> QED
    BY <1>1, <1>2, <1>3, PTL DEF Spec
=============================================================================
