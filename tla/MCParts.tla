------------------------------- MODULE MCParts -------------------------------
(***************************************************************************)
(* Five parts of a peer that do not share state, checked side by side:     *)
(* each behaviour is one of the output queue, of the list of uploads, of   *)
(* the input buffer, of the files, or of a WHOHAS and its answer.          *)
(***************************************************************************)
EXTENDS ChunkFiles

CONSTANTS Addresses, NULL, Size, MaxNew, USERBUF_SIZE, MaxLines, FileSizes, Peers

SomeOwners(n) == {{}, {1}, 1..n, 2..n, {i \in 1..n : i % 3 = 1}, 1..(n - 1)}

(* The data file has two chunks alike.                                     *)
Data == <<"g", "h", "g", "i">>

Entries == {[id |-> k - 1, hash |-> Data[k]] : k \in DOMAIN Data}

SomeHasFiles == {<<>>} \cup [1..1 -> Entries] \cup [1..2 -> Entries]

SomeGetFiles ==
    {[k \in 1..2 |-> [id |-> perm[k] - 1, hash |-> hash[k]]] :
        perm \in {<<1, 2>>, <<2, 1>>}, hash \in [1..2 -> {"g", "h", "i"}]}
      \cup {<<[id |-> 2, hash |-> "i"], [id |-> 0, hash |-> "h"], [id |-> 1, hash |-> "g"]>>}

VARIABLES
    part,
    head, tail, heap, used, new, out,
    buf, cur, typing, typed, handled,
    num_chunks, owned, pc, wire, learned,
    upload, cell, live, sender, due

Queue == INSTANCE OutputQueue
Input == INSTANCE InputBuffer WITH pc <- typing
Flood == INSTANCE Discovery WITH Owners <- SomeOwners
Uploads == INSTANCE SenderList

(* The assumptions of these modules on their constants.                    *)
ASSUME PartsAssumption ==
    /\ Queue!OutputQueueAssumption /\ Uploads!SenderListAssumption
    /\ Input!InputBufferAssumption /\ Flood!DiscoveryAssumption

qvars == <<head, tail, heap, used, new, out>>
ivars == <<buf, cur, typing, typed, handled>>
dvars == <<num_chunks, owned, pc, wire, learned>>
svars == <<upload, cell, live, sender, due>>

PartsInit ==
    /\ part \in {"queue", "uploads", "input", "files", "flood"}
    /\ Queue!Init /\ Uploads!Init /\ Input!Init
    /\ IF part = "flood" THEN Flood!Init
       ELSE num_chunks = 1 /\ owned = {} /\ pc = "flood" /\ wire = <<>> /\ learned = {}
    /\ IF part = "files" THEN Init
       ELSE has_chunk_file = <<>> /\ get_chunk_file = <<>> /\ download = <<>>
            /\ num_downloaded = 0 /\ outfile = <<>> /\ got = FALSE

PartsNext ==
    \/ part = "queue" /\ Queue!Next /\ UNCHANGED <<part, svars, ivars, fvars, dvars>>
    \/ part = "uploads" /\ Uploads!Next /\ UNCHANGED <<part, qvars, ivars, fvars, dvars>>
    \/ part = "input" /\ Input!Next /\ UNCHANGED <<part, qvars, svars, fvars, dvars>>
    \/ part = "files" /\ Next /\ UNCHANGED <<part, qvars, svars, ivars, dvars>>
    \/ part = "flood" /\ Flood!Next /\ UNCHANGED <<part, qvars, svars, ivars, fvars>>

PartsSpec == PartsInit /\ [][PartsNext]_<<part, qvars, svars, ivars, fvars, dvars>>

(* Types of the parts, with the pointers of the two lists, the count of    *)
(* the text in the buffer and the counts of the packets.                   *)
PartsTypeOK ==
    /\ Queue!TypeOK /\ Uploads!TypeOK /\ Input!TypeOK
    /\ TypeOK /\ Flood!TypeOK

(* queue.c: no byte is sent twice, and none lost but by a failed send.     *)
BytesAccounted == Queue!BytesAccounted

(* queue.c implements the queue that the other modules take it for.        *)
ImplementsFifo == Queue!ImplementsFifo

(* input_buffer.c: every line typed is handled once, whole and in order.   *)
LinesWhole == Input!LinesWhole

(* WHOHAS and IHAVE: a flood is never answered in part, and it is answered *)
(* whenever it can be read and the first chunk is owned.                   *)
AnsweredWhole == Flood!AnsweredWhole

(* readme.txt:21-22: a WHOHAS is answered, whatever the number of chunks.  *)
FloodsAnswered == Flood!FloodsAnswered

(* peer_cc: no upload is missed by a pass that deletes others.             *)
PassMissesNone == Uploads!PassMissesNone
=============================================================================
