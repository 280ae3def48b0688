------------------------------ MODULE ChunkFiles ------------------------------
(***************************************************************************)
(* The files of a peer: the master chunk file with the data file it names, *)
(* the has-chunk file, which finish_chunk appends to and which outlives    *)
(* the program, the chunk file of a GET and the file it is to be put in.   *)
(*                                                                         *)
(* A hash stands for the content it is the hash of.  The data file is the  *)
(* one that the master chunk file was made of, in whole chunks: its place  *)
(* id holds what Master lists there.                                       *)
(***************************************************************************)
EXTENDS Integers, Sequences, FiniteSets, SequencesExt, FiniteSetsExt

CONSTANTS
    Master,      \* the hashes of the master chunk file, from id 0 on
    HasFiles,    \* has-chunk files that the program may be started with
    GetFiles,    \* chunk files that the user may ask for
    MaxChunks    \* bound: chunks on the list when a GET is typed again

Hashes == ToSet(Master)

Entry == [id : Nat, hash : Hashes]

Listed(id, h) == id + 1 \in DOMAIN Master /\ Master[id + 1] = h

(* What make-chunks and the user give: has-chunk files name places of the  *)
(* data file, chunk files are numbered from 0 on, in any order.            *)
ASSUME ChunkFilesAssumption ==
    /\ Master \in Seq(Hashes)
    /\ HasFiles \subseteq Seq(Entry) /\ GetFiles \subseteq Seq(Entry)
    /\ \A f \in HasFiles : \A k \in DOMAIN f : Listed(f[k].id, f[k].hash)
    /\ MaxChunks \in Nat
    /\ \A f \in GetFiles :
          /\ \A k \in DOMAIN f : f[k].hash \in Hashes
          /\ {f[k].id : k \in DOMAIN f} = 0..(Len(f) - 1)

VARIABLES
    has_chunk_file,
    get_chunk_file,  \* the chunk file asked for last
    download,        \* its chunks, <<>> when no GET is going on
    num_downloaded,  \* those of them downloaded
    outfile,         \* what was written to the output file
    got              \* GOT was printed for get_chunk_file

fvars == <<has_chunk_file, get_chunk_file, download, num_downloaded, outfile, got>>

(* has_chunk: the id of the first line with the hash.                      *)
HasChunk(h, file) ==
    LET lines == {k \in DOMAIN file : file[k].hash = h}
    IN  IF lines = {} THEN -1 ELSE file[Min(lines)].id

(* master_chunk: the same of the master file, the last id when there is no *)
(* such line.                                                              *)
MasterChunk(h) ==
    LET places == {k \in DOMAIN Master : Master[k] = h}
    IN  (IF places = {} THEN Len(Master) ELSE Min(places)) - 1

(* What the chunk with this id adds to the output file: data read from the *)
(* data file and hashed if the peer has the chunk by now, or else packets. *)
Source(id, list, file) ==
    LET chunk == list[Min({k \in DOMAIN list : list[k].id = id})]
        real_id == HasChunk(chunk.hash, file)
    IN  IF real_id = -1 THEN {chunk.packets}
        ELSE IF Listed(real_id, chunk.hash) THEN {Master[real_id + 1]} ELSE {}

(* config->num_chunks: how many were asked for last.                      *)
NumChunks == Len(get_chunk_file)

(* finish_get, with the list and the has-chunk file as they are by now.    *)
(* Mutant: the chunks are taken as they come in the list.                  *)
FinishGetAsListed(list, file) ==
    /\ outfile' = [k \in DOMAIN list |-> list[k].hash]
    /\ got' = TRUE /\ download' = <<>>

FinishGet(list, file) ==
    \/ LET ids == 0..(NumChunks' - 1)
           failing == {id \in ids : Source(id, list, file) = {}}
           written == IF failing = {} THEN NumChunks' ELSE Min(failing)
       IN  /\ outfile' = [k \in 1..written |-> CHOOSE c \in Source(k - 1, list, file) : TRUE]
           /\ got' = (failing = {})
           /\ download' = IF failing = {} THEN <<>> ELSE list
    \/ \* the output file cannot be opened
       outfile' = <<>> /\ got' = FALSE /\ download' = list

Init ==
    /\ has_chunk_file \in HasFiles
    /\ get_chunk_file = <<>> /\ download = <<>> /\ num_downloaded = 0
    /\ outfile = <<>> /\ got = FALSE

(* process_user_get, with add_receiver_list for every line: the chunks are *)
(* added to the end of the list.  The user types a GET when none is going  *)
(* on, or the same GET again when its output file could not be written,    *)
(* which leaves its chunks on the list.                                    *)
Again(f) ==
    /\ f = get_chunk_file /\ num_downloaded = NumChunks
    /\ Len(download) + Len(f) <= MaxChunks

ProcessUserGet ==
    /\ \E f \in GetFiles :
          LET owned(k) == HasChunk(f[k].hash, has_chunk_file) # -1
              list == download \o
                      [k \in DOMAIN f |->
                         [id |-> f[k].id, hash |-> f[k].hash,
                          downloaded |-> owned(k), packets |-> "none"]]
              num == Cardinality({k \in DOMAIN f : owned(k)})
          IN  /\ download = <<>> \/ Again(f)
              /\ get_chunk_file' = f
              /\ num_downloaded' = num
              /\ IF num = Len(f) THEN FinishGet(list, has_chunk_file)
                 ELSE download' = list /\ outfile' = <<>> /\ got' = FALSE
    /\ UNCHANGED has_chunk_file

(* finish_chunk, when the data of chunk k has come and its hash is right.  *)
(* Mutant: the line appended has the id of the chunk file asked for.       *)
FinishChunkOwnId(k) ==
    LET list == [download EXCEPT ![k].downloaded = TRUE, ![k].packets = download[k].hash]
        file == Append(has_chunk_file, [id |-> download[k].id, hash |-> download[k].hash])
    IN  /\ ~download[k].downloaded
        /\ has_chunk_file' = file
        /\ num_downloaded' = num_downloaded + 1
        /\ UNCHANGED get_chunk_file
        /\ IF num_downloaded + 1 = NumChunks THEN FinishGet(list, file)
           ELSE download' = list /\ UNCHANGED <<outfile, got>>

FinishChunk(k) ==
    LET list == [download EXCEPT ![k].downloaded = TRUE, ![k].packets = download[k].hash]
        file == Append(has_chunk_file,
                       [id |-> MasterChunk(download[k].hash), hash |-> download[k].hash])
    IN  /\ ~download[k].downloaded
        /\ has_chunk_file' = file
        /\ num_downloaded' = num_downloaded + 1
        /\ UNCHANGED get_chunk_file
        /\ IF num_downloaded + 1 = NumChunks THEN FinishGet(list, file)
           ELSE download' = list /\ UNCHANGED <<outfile, got>>

(* The program is stopped and started again: its files are what is left.   *)
Restart ==
    /\ get_chunk_file' = <<>> /\ download' = <<>> /\ num_downloaded' = 0
    /\ outfile' = <<>> /\ got' = FALSE
    /\ UNCHANGED has_chunk_file

Next ==
    \/ ProcessUserGet
    \/ \E k \in DOMAIN download : FinishChunk(k)
    \/ Restart

Spec == Init /\ [][Next]_fvars

-----------------------------------------------------------------------------
(* The has-chunk file tells the truth, across restarts and whatever is     *)
(* asked for under whatever number: a chunk that this peer says it has is  *)
(* where send_data looks for it, so that a GET after an IHAVE is served.   *)
OwnedIsServed ==
    \A h \in Hashes :
        LET id == HasChunk(h, has_chunk_file) IN id # -1 => Listed(id, h)

(* GOT means that the output file is what was asked for, in the order of   *)
(* the ids: those of other files (a chunk has one number in the file asked *)
(* for and another in the data file it is copied from) do not get into it. *)
GotIsRight ==
    got => outfile = [k \in DOMAIN get_chunk_file |->
                         (CHOOSE j \in ToSet(get_chunk_file) : j.id = k - 1).hash]

(* Types; what is counted as downloaded is on disk already.                *)
TypeOK ==
    /\ \A k \in DOMAIN has_chunk_file :
          has_chunk_file[k].id \in Nat /\ has_chunk_file[k].hash \in Hashes
    /\ num_downloaded \in 0..NumChunks
    /\ download # <<>> => Len(download) >= NumChunks
    /\ \A k \in DOMAIN download :
          download[k].downloaded => HasChunk(download[k].hash, has_chunk_file) # -1
=============================================================================
