------------------------------ MODULE Discovery ------------------------------
(***************************************************************************)
(* One WHOHAS flood and its answer with the widths of the wire: a length   *)
(* has 16 bits, a number of hashes is a signed char, a packet read is cut  *)
(* at BUFLEN.  One peer asks for the hashes of its chunk file, another     *)
(* owns some of them.  A hash is its place in the chunk file.              *)
(***************************************************************************)
EXTENDS Integers, Sequences, SequencesExt, FiniteSetsExt

CONSTANTS
    FileSizes,   \* numbers of chunks that a chunk file may have
    Owners(_)    \* the sets of places another peer may own, of so many

(* 16 + 4 + 20 * 3275 is the last length that 16 bits hold.                *)
DiscoveryAssumption ==
    FileSizes \subseteq 1..3275 /\ \A n \in FileSizes : Owners(n) \subseteq SUBSET (1..n)

BUFLEN == 1500
MAX_PACKET_SIZE == 1500
CHUNK_SIZE == 20
HEAD == 16
PAD == 4

VARIABLES
    num_chunks,  \* of the chunk file
    owned,       \* places whose hash the other peer owns
    pc,          \* "flood", "asked", "answered"
    wire,        \* packets on their way between the two, oldest first
    learned      \* chunks that got the other peer into their list

dvars == <<num_chunks, owned, pc, wire, learned>>

SignedChar(x) == ((x + 128) % 256) - 128

Message(hashes) ==
    [count |-> Len(hashes) % 256,
     packet_len |-> (HEAD + PAD + CHUNK_SIZE * Len(hashes)) % 65536,
     hashes |-> hashes]

(* process_inbound_udp: the packet read, cut at BUFLEN or not, is as long  *)
(* as it says.                                                             *)
Accepted(p) ==
    LET bytes_read == Min({p.packet_len, BUFLEN})
    IN  HEAD <= bytes_read /\ bytes_read = p.packet_len

(* process_whohas: the hashes owned among as many as the count says, if    *)
(* the first one is.                                                       *)
Reported(p) ==
    LET asked == SubSeq(p.hashes, 1, SignedChar(p.count))
        kept[k \in 0..Len(asked)] ==
            IF k = 0 THEN <<>>
            ELSE IF asked[k] \in owned THEN Append(kept[k - 1], asked[k]) ELSE kept[k - 1]
    IN  IF asked # <<>> /\ Head(asked) \in owned THEN kept[Len(asked)] ELSE <<>>

(* send_ihave: packets of max_chunks hashes and one of the rest.           *)
max_chunks == (MAX_PACKET_SIZE - HEAD) \div CHUNK_SIZE

Ihaves(chunks) ==
    LET after[sent \in 0..Len(chunks)] ==
            LET num == Min({SignedChar(Len(chunks) - sent), max_chunks})
            IN  IF sent = Len(chunks) \/ num <= 0 THEN <<>>
                ELSE <<Message(SubSeq(chunks, sent + 1, sent + num))>> \o after[sent + num]
    IN  after[0]

(* process_ihave: as many hashes as the count says and the length allows.  *)
(* Mutant: the last one is taken for missing.                              *)
HashesReadShort(p) ==
    LET datalen == p.packet_len - HEAD - PAD
    IN  SubSeq(p.hashes, 1, Min({SignedChar(p.count), (datalen - 1) \div CHUNK_SIZE}))

HashesRead(p) ==
    LET datalen == p.packet_len - HEAD - PAD
    IN  SubSeq(p.hashes, 1, Min({SignedChar(p.count), datalen \div CHUNK_SIZE}))

-----------------------------------------------------------------------------
Init ==
    /\ num_chunks \in FileSizes
    /\ owned \in Owners(num_chunks)
    /\ pc = "flood" /\ wire = <<>> /\ learned = {}

SendWhohas ==
    /\ pc = "flood" /\ pc' = "asked"
    /\ wire' = <<Message([i \in 1..num_chunks |-> i])>>
    /\ UNCHANGED <<num_chunks, owned, learned>>

ProcessWhohas ==
    /\ pc = "asked" /\ Accepted(Head(wire))
    /\ pc' = "answered"
    /\ wire' = Ihaves(Reported(Head(wire)))
    /\ UNCHANGED <<num_chunks, owned, learned>>

WhohasThrownOut ==
    /\ pc = "asked" /\ ~Accepted(Head(wire))
    /\ pc' = "answered"
    /\ wire' = <<>>
    /\ UNCHANGED <<num_chunks, owned, learned>>

ProcessIhave ==
    /\ pc = "answered" /\ wire # <<>> /\ Accepted(Head(wire))
    /\ wire' = Tail(wire)
    /\ learned' = learned \cup ToSet(HashesRead(Head(wire)))
    /\ UNCHANGED <<num_chunks, owned, pc>>

Next == SendWhohas \/ ProcessWhohas \/ WhohasThrownOut \/ ProcessIhave

Spec == Init /\ [][Next]_dvars

-----------------------------------------------------------------------------
(* No count claims more hashes than its packet holds when the packet is    *)
(* read (process_whohas does not test it), and every answer fits what the  *)
(* other side reads.                                                       *)
TypeOK ==
    /\ learned \subseteq 1..num_chunks
    /\ \A k \in DOMAIN wire : Accepted(wire[k]) =>
          SignedChar(wire[k].count) = Len(wire[k].hashes)
    /\ pc = "answered" => \A k \in DOMAIN wire : Accepted(wire[k])

(* A flood is never answered in part, nor with what is not owned; and it   *)
(* is answered when the WHOHAS is one that can be read and the first hash  *)
(* is owned, in spite of the widths of counts and lengths, the split of    *)
(* the IHAVE and the walk over a packet whose count may be wrong           *)
(* (peer_sender.c:13-103, peer_receiver.c:117-160).                        *)
AnsweredWhole ==
    pc = "answered" /\ wire = <<>> =>
        /\ learned \in {{}, owned}
        /\ num_chunks <= (BUFLEN - HEAD - PAD) \div CHUNK_SIZE /\ 1 \in owned =>
              learned = owned

(* "Upon receiving a WHOHAS request, the peer checks for the chunks and    *)
(* returns an IHAVE response" (readme.txt:21-22), however many chunks the  *)
(* chunk file has.  (1 \in owned leaves aside the requests that            *)
(* process_whohas does not answer whatever their length, peer_sender.c:32.) *)
FloodsAnswered ==
    pc = "answered" /\ wire = <<>> /\ 1 \in owned => learned = owned
=============================================================================
