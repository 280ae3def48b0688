------------------------------- MODULE Network -------------------------------
(***************************************************************************)
(* The simulated network of hupsim.pl: routers joined by links, each link  *)
(* a drop-tail queue per direction whose packets become due after latency, *)
(* transmission and queueing time; routing tables from Dijkstra's          *)
(* algorithm; and the main loop, which sleeps until a packet comes or the  *)
(* first one queued is due, and then lets routers run from an agenda.      *)
(*                                                                         *)
(* Time is counted in ticks, one being what a packet takes to transmit.    *)
(* A queue entry holds the ticks left until it is due, not the time at     *)
(* which it is.  No time passes while routers run.                         *)
(***************************************************************************)
EXTENDS Integers, Sequences, FiniteSets, FiniteSetsExt, SequencesExt

CONSTANTS
    N,           \* routers are 1..N, each with its peer
    Topologies,  \* sets of links, a link being a set of two routers
    Flows,       \* which peer sends to which
    QueueMax,    \* packets a queue holds (10 in topo.map)
    Latency,     \* ticks
    Infinity,    \* the distance of a router not reached yet (65535)
    Forever,     \* an undefined sleep or wait (a model value)
    MaxSent,     \* bound: packets sent in each flow
    MaxLate      \* bound: ticks the main loop may oversleep

Nodes == 1..N

ASSUME NetworkAssumption ==
    /\ N \in Nat \ {0} /\ QueueMax \in Nat \ {0} /\ Latency \in Nat
    /\ MaxSent \in Nat /\ MaxLate \in Nat
    /\ Infinity \in Nat /\ N < Infinity /\ Forever \notin Nat
    /\ Flows \subseteq {f \in Nodes \X Nodes : f[1] # f[2]}

Neighbours(r, ls) == {s \in Nodes : {r, s} \in ls /\ r # s}

(* The routers that at most k links lead to from r.                        *)
Reach(r, k, ls) ==
    LET within[j \in 0..k] ==
            IF j = 0 THEN {r} ELSE within[j - 1] \cup
                                   UNION {Neighbours(n, ls) : n \in within[j - 1]}
    IN  within[k]

(* createTable does not end where a router leads to none of the links of   *)
(* another: it follows predecessors that were never set.                   *)
ASSUME TopologiesConnected ==
    \A ls \in Topologies : \A r \in Nodes : Reach(r, N, ls) = Nodes

VARIABLES
    links,    \* the links of topo.map
    table,    \* routingTable of each router: the neighbour to go by
    queue,    \* queue[r][s]: the queue of r's route to s
    pc,       \* "listen" in can_read, or "run"
    agenda,   \* runRouters
    sleep,    \* sleepSeconds, an undefined one being Forever
    sent,     \* packets sent so far, per flow
    last      \* number of the packet received last, per flow

vars == <<links, table, queue, pc, agenda, sleep, sent, last>>

Packet == [flow : Flows, num : 1..MaxSent]

-----------------------------------------------------------------------------
(* createTable.  After each visit: which routers are done, their distances *)
(* and predecessors.                                                       *)
NextVisit(v) ==
    Min({n \in Nodes \ v.done : \A m \in Nodes \ v.done : v.distance[n] <= v.distance[m]})

(* Mutant: a later visit takes a neighbour over, nearer or not.            *)
VisitedTakesOver(v, ls) ==
    LET next == NextVisit(v)
        closer == Neighbours(next, ls) \ v.done
    IN  [done |-> v.done \cup {next},
         distance |-> [n \in Nodes |->
                          IF n \in closer THEN v.distance[next] + 1 ELSE v.distance[n]],
         predecessor |-> [n \in Nodes |-> IF n \in closer THEN next ELSE v.predecessor[n]]]

Visited(v, ls) ==
    LET next == NextVisit(v)
        weight == v.distance[next] + 1
        closer == {n \in Neighbours(next, ls) : v.distance[n] > weight}
    IN  [done |-> v.done \cup {next},
         distance |-> [n \in Nodes |-> IF n \in closer THEN weight ELSE v.distance[n]],
         predecessor |-> [n \in Nodes |-> IF n \in closer THEN next ELSE v.predecessor[n]]]

Dijkstra(r, ls) ==
    LET visits[k \in 0..N] ==
            IF k = 0 THEN [done |-> {},
                           distance |-> [n \in Nodes |-> IF n = r THEN 0 ELSE Infinity],
                           predecessor |-> [n \in Nodes |-> n]]
            ELSE Visited(visits[k - 1], ls)
    IN  visits[N]

(* The predecessors are followed back from the destination to r: the last  *)
(* router before r is the neighbour to go by.                              *)
CreateTable(r, ls) ==
    LET pred == Dijkstra(r, ls).predecessor
        startRoute[n \in Nodes] == IF pred[n] = r THEN n ELSE startRoute[pred[n]]
    IN  [n \in Nodes \ {r} |-> startRoute[n]]

-----------------------------------------------------------------------------
(* enQ.  Due after the link's latency, its own transmission and that of    *)
(* what is queued before it.                                               *)
Entry(q, m) == [pkt |-> m, left |-> Latency + 1 + Len(q)]

(* Mutants: one too many is queued; the newest packet is queued first.     *)
EnQOver(q, m) == IF Len(q) > QueueMax THEN q ELSE Append(q, Entry(q, m))

EnQFront(q, m) == IF Len(q) >= QueueMax THEN q ELSE <<Entry(q, m)>> \o q

EnQ(q, m) == IF Len(q) >= QueueMax THEN q ELSE Append(q, Entry(q, m))

(* Mutant: a router that has queued a packet does not ask to be run.       *)
RecvUnnoticed(r, m, qs, ag) ==
    /\ agenda' = ag
    /\ IF m.flow[2] = r
       THEN last' = [last EXCEPT ![m.flow] = m.num] /\ queue' = qs
       ELSE /\ queue' = [qs EXCEPT ![r][table[r][m.flow[2]]] = EnQ(@, m)]
            /\ UNCHANGED last

(* recv: the packet is given to the peer of r, or queued for the next      *)
(* router on its way, with r put on the agenda.  The queues are qs and the *)
(* agenda is ag before that.                                               *)
Recv(r, m, qs, ag) ==
    IF m.flow[2] = r
    THEN /\ last' = [last EXCEPT ![m.flow] = m.num]
         /\ queue' = qs /\ agenda' = ag
    ELSE /\ queue' = [qs EXCEPT ![r][table[r][m.flow[2]]] = EnQ(@, m)]
         /\ agenda' = Append(ag, r)
         /\ UNCHANGED last

(* The queues d ticks later.                                               *)
Later(d) ==
    [r \in Nodes |-> [s \in Nodes |->
        [k \in DOMAIN queue[r][s] |->
            [queue[r][s][k] EXCEPT !.left = Max({0, @ - d})]]]]

Routers == [r \in Nodes |-> r]

-----------------------------------------------------------------------------
(* main: the files are read and every router's table is created.           *)
Init ==
    /\ links \in Topologies
    /\ table = [r \in Nodes |-> CreateTable(r, links)]
    /\ queue = [r \in Nodes |-> [s \in Nodes |-> <<>>]]
    /\ pc = "listen" /\ agenda = <<>> /\ sleep = Forever
    /\ sent = [f \in Flows |-> 0]
    /\ last = [f \in Flows |-> 0]

(* can_read returns with a packet of the peer of router f[1], d ticks      *)
(* later; then all routers go on the agenda.                               *)
Arrive(f) ==
    /\ pc = "listen" /\ pc' = "run"
    /\ sent[f] < MaxSent
    /\ sent' = [sent EXCEPT ![f] = @ + 1]
    /\ \E d \in 0..(IF sleep = Forever THEN 0 ELSE sleep) :
          queue' = [Later(d) EXCEPT ![f[1]][table[f[1]][f[2]]] =
                       EnQ(@, [flow |-> f, num |-> sent[f] + 1])]
    /\ agenda' = <<f[1]>> \o Routers
    /\ sleep' = Forever
    /\ UNCHANGED <<links, table, last>>

(* can_read times out.                                                     *)
Wake ==
    /\ pc = "listen" /\ pc' = "run"
    /\ sleep # Forever
    /\ \E d \in sleep..(sleep + MaxLate) : queue' = Later(d)
    /\ agenda' = Routers
    /\ sleep' = Forever
    /\ UNCHANGED <<links, table, sent, last>>

Due(r) == {s \in Nodes : queue[r][s] # <<>> /\ queue[r][s][1].left = 0}

(* run, at the router first on the agenda: the first route with a packet   *)
(* due hands it to the router at its other end.                            *)
Forward ==
    /\ pc = "run" /\ agenda # <<>>
    /\ LET r == Head(agenda)
           s == Min(Due(r))
       IN  /\ Due(r) # {}
           /\ Recv(s, Head(queue[r][s]).pkt, [queue EXCEPT ![r][s] = Tail(@)], agenda)
    /\ UNCHANGED <<links, table, pc, sleep, sent>>

Waits(r) == {queue[r][s][1].left : s \in {s \in Nodes : queue[r][s] # <<>>}}

(* Mutant: the router run last decides on the sleep.                       *)
RunDoneLast ==
    /\ pc = "run" /\ agenda # <<>> /\ Due(Head(agenda)) = {}
    /\ sleep' = (IF Waits(Head(agenda)) = {} THEN Forever ELSE Min(Waits(Head(agenda))))
    /\ agenda' = Tail(agenda)
    /\ pc' = IF Tail(agenda) = <<>> THEN "listen" ELSE "run"
    /\ UNCHANGED <<links, table, queue, sent, last>>

(* run ends with nothing due; the main loop sleeps no longer than any      *)
(* router wants to wait.                                                   *)
RunDone ==
    /\ pc = "run" /\ agenda # <<>> /\ Due(Head(agenda)) = {}
    /\ LET waits == Waits(Head(agenda)) \cup ({sleep} \ {Forever})
       IN  sleep' = IF waits = {} THEN Forever ELSE Min(waits)
    /\ agenda' = Tail(agenda)
    /\ pc' = IF Tail(agenda) = <<>> THEN "listen" ELSE "run"
    /\ UNCHANGED <<links, table, queue, sent, last>>

Next ==
    \/ \E f \in Flows : Arrive(f)
    \/ Wake
    \/ Forward
    \/ RunDone

Spec == Init /\ [][Next]_vars

(* can_read returns at the latest when its timeout has passed, and the     *)
(* routers run one after the other without blocking.                       *)
LiveSpec == Spec /\ WF_vars(Wake) /\ WF_vars(Forward) /\ WF_vars(RunDone)

-----------------------------------------------------------------------------
(* Types: a queue never holds more than its maximum.                       *)
TypeOK ==
    /\ links \in Topologies
    /\ \A r \in Nodes : table[r] \in [Nodes \ {r} -> Neighbours(r, links)]
    /\ \A r, s \in Nodes :
          /\ Len(queue[r][s]) <= QueueMax
          /\ \A k \in DOMAIN queue[r][s] :
                queue[r][s][k] \in [pkt : Packet, left : 0..(Latency + QueueMax)]
    /\ pc \in {"listen", "run"}
    /\ agenda \in Seq(Nodes)
    /\ sleep \in (1..(Latency + QueueMax)) \cup {Forever}
    /\ sent \in [Flows -> 0..MaxSent]
    /\ last \in [Flows -> 0..MaxSent]

(* Where a packet to d is after k tables, the first one that of r.         *)
Hop(r, d, k) ==
    LET at[j \in 0..k] ==
            IF j = 0 THEN r ELSE IF at[j - 1] = d THEN d ELSE table[at[j - 1]][d]
    IN  at[k]

(* The least number of links from r to d.                                  *)
LinksTo(r, d, ls) == Min({k \in 0..N : d \in Reach(r, k, ls)})

(* The tables agree: a packet handed on from table to table, each made     *)
(* from its own router's point of view, reaches its destination over as    *)
(* few links as there can be, so that no two routers send it in circles.   *)
RoutesShortest ==
    \A r, d \in Nodes : Hop(r, d, LinksTo(r, d, links)) = d

(* No wakeup is lost: when the main loop listens it does so no longer than *)
(* until the first packet queued anywhere is due, wherever on its agenda   *)
(* the router that queued it was.                                          *)
NeverOversleeps ==
    pc = "listen" =>
        \A r \in Nodes : \A w \in Waits(r) : sleep # Forever /\ sleep <= w

(* Every packet taken from a peer leaves the network again, given that     *)
(* peers send only so many.                                                *)
Drains == []<>(\A r, s \in Nodes : queue[r][s] = <<>>)

(* The packets of a flow that are on their way: those in any queue.        *)
Holds(qs, f, n) ==
    \E r, s \in Nodes : \E k \in DOMAIN qs[r][s] :
        qs[r][s][k].pkt = [flow |-> f, num |-> n]

Inflight == [f \in Flows |-> {n \in 1..MaxSent : Holds(queue, f, n)}]

L == INSTANCE Links WITH inflight <- Inflight

(* The network implements Links: per flow packets are delivered in the     *)
(* order in which they were sent, none twice, some never.                  *)
ImplementsLinks == L!Spec
=============================================================================
