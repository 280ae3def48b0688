------------------------------ MODULE OutputQueue ------------------------------
(***************************************************************************)
(* queue.c and its only consumer, peer_packet_ops: the packets waiting to  *)
(* be sent, as a linked list in the heap between head and tail.  Other     *)
(* modules take this queue for a sequence; here the pointers are kept, and *)
(* malloc and free, so that an address is used again for another packet.   *)
(***************************************************************************)
EXTENDS LinkedList

CONSTANTS
    Size,        \* bytes of a packet
    MaxNew       \* bound: packets queued

OutputQueueAssumption ==
    /\ LinkedListAssumption
    /\ Size \in Nat \ {0} /\ MaxNew \in Nat

VARIABLES
    head, tail,  \* the globals of queue.c
    heap,        \* the packet_queue at each address
    used,        \* the addresses allocated and not freed
    new,         \* packets queued so far
    out          \* what was sent: number and bytes of each send

qvars == <<head, tail, heap, used, new, out>>

Entry == [num : 0..MaxNew, left : 0..Size, next : Pointer]

Blank == [num |-> 0, left |-> 0, next |-> NULL]

packet_empty == head = NULL /\ tail = NULL

(* packet_push, with h the heap as the caller leaves it: no link of p's    *)
(* own is touched.                                                         *)
PacketPush(p, h, hd, tl) ==
    IF hd = NULL /\ tl = NULL
    THEN head' = p /\ tail' = p /\ heap' = h
    ELSE /\ heap' = [h EXCEPT ![tl].next = p]
         /\ tail' = p /\ head' = hd

(* packet_new: a copy of the packet is pushed.                             *)
PacketNew ==
    /\ new < MaxNew /\ new' = new + 1
    /\ \E p \in Addresses \ used :
          /\ used' = used \cup {p}
          /\ PacketPush(p, [heap EXCEPT ![p] = [num |-> new + 1, left |-> Size, next |-> NULL]],
                        head, tail)
    /\ UNCHANGED out

(* What packet_pop makes of head and tail, and of the link of the packet   *)
(* popped.  Mutant: tail is left where it was.                             *)
PoppedTailKept == [head |-> heap[head].next, tail |-> tail,
                   heap |-> [heap EXCEPT ![head].next = NULL]]

Popped == [head |-> heap[head].next,
           tail |-> IF head = tail THEN NULL ELSE tail,
           heap |-> [heap EXCEPT ![head].next = NULL]]

SendFailed ==
    /\ head # NULL
    /\ head' = Popped.head /\ tail' = Popped.tail /\ heap' = Popped.heap
    /\ UNCHANGED <<used, new, out>>

(* Mutant: the rest of the packet is pushed with its length as it was.     *)
SentSomeAgain ==
    /\ head # NULL
    /\ \E b \in 1..(heap[head].left - 1) :
          /\ out' = Append(out, <<heap[head].num, b>>)
          /\ PacketPush(head, Popped.heap, Popped.head, Popped.tail)
    /\ UNCHANGED <<used, new>>

SentSome ==
    /\ head # NULL
    /\ \E b \in 1..(heap[head].left - 1) :
          /\ out' = Append(out, <<heap[head].num, b>>)
          /\ PacketPush(head, [Popped.heap EXCEPT ![head].left = @ - b],
                        Popped.head, Popped.tail)
    /\ UNCHANGED <<used, new>>

SentAll ==
    /\ head # NULL
    /\ out' = Append(out, <<heap[head].num, heap[head].left>>)
    /\ used' = used \ {head}
    /\ head' = Popped.head /\ tail' = Popped.tail /\ heap' = Popped.heap
    /\ UNCHANGED new

(* peer_packet_ops: sendto fails and the packet is dropped, never freed;   *)
(* or it takes some bytes, and the rest is pushed; or it takes all, and    *)
(* the packet is freed.                                                    *)
PeerPacketOps == SendFailed \/ SentSome \/ SentAll

Init ==
    /\ head = NULL /\ tail = NULL /\ used = {}
    /\ heap = [p \in Addresses |-> Blank]
    /\ new = 0 /\ out = <<>>

Next == PacketNew \/ PeerPacketOps

Spec == Init /\ [][Next]_qvars

-----------------------------------------------------------------------------
(* The addresses on the list, from head on.                                *)
Listed == Chain([p \in Addresses |-> heap[p].next], head)

(* Types, and the pointers are sound: no packet on the list is freed or on *)
(* it twice, and the list ends at tail.                                    *)
TypeOK ==
    /\ heap \in [Addresses -> Entry]
    /\ used \subseteq Addresses /\ new \in 0..MaxNew
    /\ {Listed[k] : k \in DOMAIN Listed} \subseteq used
    /\ \A j, k \in DOMAIN Listed : Listed[j] = Listed[k] => j = k
    /\ IF head = NULL THEN tail = NULL
       ELSE tail = Listed[Len(Listed)] /\ heap[tail].next = NULL

(* The bytes of the n-th packet that were sent.                            *)
Sent(n) ==
    LET total[k \in 0..Len(out)] ==
            IF k = 0 THEN 0 ELSE total[k - 1] + (IF out[k][1] = n THEN out[k][2] ELSE 0)
    IN  total[Len(out)]

(* The bytes of it that are still in the heap.                             *)
Held(n) ==
    IF \E p \in used : heap[p].num = n THEN heap[CHOOSE p \in used : heap[p].num = n].left
    ELSE 0

(* No byte is sent twice and none gets lost, but those of a packet whose   *)
(* send failed, and they stay allocated for ever.                          *)
BytesAccounted ==
    /\ \A p, q \in used : heap[p].num = heap[q].num => p = q
    /\ \A n \in 1..new : Sent(n) + Held(n) = Size

(* What is queued, as the sequence the other modules take it for.          *)
Fifo == [k \in DOMAIN Listed |-> [num |-> heap[Listed[k]].num, left |-> heap[Listed[k]].left]]

P == INSTANCE PacketFifo WITH fifo <- Fifo

(* The linked list is the queue that PacketFifo describes, whichever       *)
(* addresses malloc gives out again: none is lost, overtaken or sent twice *)
(* by a wrong link.                                                        *)
ImplementsFifo == P!Spec
=============================================================================
