------------------------------ MODULE PacketFifo ------------------------------
(***************************************************************************)
(* What the output queue promises: packets leave in the order in which     *)
(* they were queued, one send at a time.  A send takes all that is left of *)
(* the first packet, or some of it, and then the rest goes to the end of   *)
(* the queue, or it fails, and then the packet is gone.  Packets are       *)
(* numbered as they are queued.                                            *)
(***************************************************************************)
EXTENDS Naturals, Sequences

CONSTANT Size       \* bytes of a packet

VARIABLES
    new,     \* packets queued so far
    fifo,    \* what is queued: number and bytes left of each
    out      \* what was sent: number and bytes of each send

fvars == <<new, fifo, out>>

Init == new = 0 /\ fifo = <<>> /\ out = <<>>

Queue ==
    /\ new' = new + 1
    /\ fifo' = Append(fifo, [num |-> new + 1, left |-> Size])
    /\ UNCHANGED out

SendAll ==
    /\ fifo # <<>> /\ fifo' = Tail(fifo)
    /\ out' = Append(out, <<Head(fifo).num, Head(fifo).left>>)
    /\ UNCHANGED new

SendSome ==
    /\ fifo # <<>>
    /\ \E b \in 1..(Head(fifo).left - 1) :
          /\ out' = Append(out, <<Head(fifo).num, b>>)
          /\ fifo' = Append(Tail(fifo), [Head(fifo) EXCEPT !.left = @ - b])
    /\ UNCHANGED new

Fail ==
    /\ fifo # <<>> /\ fifo' = Tail(fifo)
    /\ UNCHANGED <<new, out>>

Next == Queue \/ SendAll \/ SendSome \/ Fail

Spec == Init /\ [][Next]_fvars
=============================================================================
