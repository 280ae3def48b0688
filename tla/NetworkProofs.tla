----------------------------- MODULE NetworkProofs -----------------------------
(***************************************************************************)
(* The network of routers, proved for any connected topology, any flows,   *)
(* limits and delays: the main loop sleeps through no packet, the tables   *)
(* lead over as few links as there can be, and what lies between two peers *)
(* is a channel that loses packets but neither reorders nor duplicates     *)
(* them.                                                                   *)
(*                                                                         *)
(* While routers run, the sleep gathered so far is right for those not on  *)
(* the agenda; whoever changes a queue puts its router there.  A table is  *)
(* right because the routers Dijkstra's algorithm has done are the nearest *)
(* and their distances least.  And packets stay in order because along the *)
(* route of a flow those ahead were sent before.                           *)
(***************************************************************************)
EXTENDS Network, LeastNumber, SequenceTheorems, TLAPS

USE NetworkAssumption DEF NetworkAssumption

-----------------------------------------------------------------------------
(* What every router not on the agenda has told the main loop.             *)
QueueEntry == [pkt : Packet, left : Nat]

OnAgenda(r) == \E k \in DOMAIN agenda : agenda[k] = r

SleepRight(r) == \A w \in Waits(r) : sleep # Forever /\ sleep <= w

NetInv ==
    /\ queue \in [Nodes -> [Nodes -> Seq(QueueEntry)]]
    /\ sent \in [Flows -> Nat]
    /\ sleep \in Nat \cup {Forever}
    /\ agenda \in Seq(Nodes)
    /\ pc = "listen" => agenda = <<>>
    /\ \A r \in Nodes : OnAgenda(r) \/ SleepRight(r)

(* A packet queued is due some time, if not at once.                       *)
LEMMA EnQType ==
    ASSUME NEW q \in Seq(QueueEntry), NEW m \in Packet
    PROVE  EnQ(q, m) \in Seq(QueueEntry)
<1>1. Entry(q, m) \in QueueEntry
    BY LenProperties DEF Entry, QueueEntry
<1> QED
    BY <1>1, AppendProperties DEF EnQ

(* Waits are those of packets, which are numbers.                          *)
LEMMA WaitsType ==
    ASSUME NetInv, NEW r \in Nodes
    PROVE  Waits(r) \subseteq Nat
<1>1. ASSUME NEW s \in Nodes, queue[r][s] # <<>>
      PROVE  queue[r][s][1].left \in Nat
    <2>1. queue[r][s] \in Seq(QueueEntry)
        BY DEF NetInv
    <2>2. 1 \in 1..Len(queue[r][s])
        BY <1>1, <2>1, EmptySeq
    <2>3. queue[r][s][1] \in QueueEntry
        BY <2>1, <2>2, ElementOfSeq
    <2> QED
        BY <2>3 DEF QueueEntry
<1> QED
    BY <1>1 DEF Waits

(* All routers are put on the agenda, before or after others.              *)
LEMMA RoutersOnAgenda ==
    /\ Routers \in Seq(Nodes)
    /\ \A r \in Nodes : \E k \in DOMAIN Routers : Routers[k] = r
BY SeqDef DEF Routers, Nodes

(* Time passing leaves the packets queued as they are.                     *)
LEMMA LaterType ==
    ASSUME NetInv, NEW d \in Nat
    PROVE  Later(d) \in [Nodes -> [Nodes -> Seq(QueueEntry)]]
<1>1. ASSUME NEW r \in Nodes, NEW s \in Nodes
      PROVE  [k \in DOMAIN queue[r][s] |->
                [queue[r][s][k] EXCEPT !.left = Max({0, @ - d})]] \in Seq(QueueEntry)
    <2> DEFINE q == queue[r][s]
               later(k) == [q[k] EXCEPT !.left = Max({0, @ - d})]
    <2>1. q \in Seq(QueueEntry) /\ Len(q) \in Nat /\ DOMAIN q = 1..Len(q)
        BY LenProperties DEF NetInv
    <2>2. ASSUME NEW k \in 1..Len(q)
          PROVE  later(k) \in QueueEntry
        <3>1. q[k] \in QueueEntry
            BY <2>1, ElementOfSeq
        <3>2. \A x \in Int : Max({0, x}) \in Nat
            <4>1. ASSUME NEW x \in Int PROVE Max({0, x}) = IF x > 0 THEN x ELSE 0
                BY DEF Max
            <4> QED
                BY <4>1
        <3>3. q[k].left - d \in Int
            BY <3>1 DEF QueueEntry
        <3> QED
            BY <3>1, <3>2, <3>3 DEF QueueEntry
    <2>3. [k \in 1..Len(q) |-> later(k)] \in [1..Len(q) -> QueueEntry]
        <3> HIDE DEF later
        <3> QED
            BY <2>2
    <2> HIDE DEF later
    <2>4. [k \in DOMAIN q |-> later(k)] \in Seq(QueueEntry)
        BY <2>1, <2>3, SeqDef
    <2> QED
        BY <2>4 DEF later
<1> QED
    BY <1>1 DEF Later

(* A packet queued at one router changes no other router's queues; a table *)
(* that names no router changes none.                                      *)
LEMMA QueuedAt ==
    ASSUME NEW qs \in [Nodes -> [Nodes -> Seq(QueueEntry)]],
           NEW a \in Nodes, NEW b, NEW m \in Packet
    PROVE  LET new == [qs EXCEPT ![a][b] = EnQ(@, m)]
           IN  /\ new \in [Nodes -> [Nodes -> Seq(QueueEntry)]]
               /\ \A r \in Nodes \ {a} : new[r] = qs[r]
<1>1. \A q \in Seq(QueueEntry) : EnQ(q, m) \in Seq(QueueEntry)
    BY EnQType
<1>2. CASE b \in Nodes
    BY <1>1, <1>2
<1>3. CASE b \notin Nodes
    BY <1>3
<1> QED
    BY <1>2, <1>3

(* Before the first packet nobody waits for anything.                      *)
LEMMA InitInv == Init => NetInv
<1> SUFFICES ASSUME Init PROVE NetInv
    OBVIOUS
<1>1. queue \in [Nodes -> [Nodes -> Seq(QueueEntry)]]
    BY EmptySeq DEF Init
<1>2. \A r \in Nodes : Waits(r) = {}
    BY DEF Init, Waits
<1>3. agenda \in Seq(Nodes) /\ sent \in [Flows -> Nat] /\ sleep = Forever
    BY EmptySeq DEF Init
<1> QED
    BY <1>1, <1>2, <1>3 DEF Init, NetInv, SleepRight

(* A packet's arrival gets every router run.                               *)
LEMMA ArriveInv ==
    ASSUME NetInv, NEW f \in Flows, Arrive(f)
    PROVE  NetInv'
<1>1. PICK d \in 0..(IF sleep = Forever THEN 0 ELSE sleep) :
          queue' = [Later(d) EXCEPT ![f[1]][table[f[1]][f[2]]] =
                       EnQ(@, [flow |-> f, num |-> sent[f] + 1])]
    BY DEF Arrive
<1>2. d \in Nat
    BY DEF NetInv
<1>3. f[1] \in Nodes
    OBVIOUS
<1>4. [flow |-> f, num |-> sent[f] + 1] \in Packet
    BY SMTT(30) DEF Arrive, NetInv, Packet
<1>5. queue' \in [Nodes -> [Nodes -> Seq(QueueEntry)]]
    <2> DEFINE qs == Later(d)
               m == [flow |-> f, num |-> sent[f] + 1]
               a == f[1]
               b == table[f[1]][f[2]]
    <2>1. qs \in [Nodes -> [Nodes -> Seq(QueueEntry)]] /\ m \in Packet
        BY <1>2, <1>4, LaterType
    <2>2. queue' = [qs EXCEPT ![a][b] = EnQ(@, m)] /\ a \in Nodes
        BY <1>1, <1>3
    <2> HIDE DEF qs, m, a, b
    <2> QED
        BY <2>1, <2>2, QueuedAt
<1>6. sent' \in [Flows -> Nat]
    BY SMTT(30) DEF Arrive, NetInv
<1>7. agenda' \in Seq(Nodes) /\ \A r \in Nodes : OnAgenda(r)'
    <2>1. agenda' = <<f[1]>> \o Routers /\ <<f[1]>> \in Seq(Nodes)
        BY <1>3, SeqDef DEF Arrive
    <2>2. /\ agenda' \in Seq(Nodes)
          /\ Len(agenda') = 1 + Len(Routers)
          /\ \A k \in 1..Len(Routers) : agenda'[k + 1] = Routers[k]
        BY <2>1, RoutersOnAgenda, ConcatProperties, LenProperties
    <2>3. \A k \in DOMAIN Routers : k + 1 \in DOMAIN agenda'
        BY SMTT(30), <2>2, RoutersOnAgenda, LenProperties
    <2>4. DOMAIN Routers = 1..Len(Routers)
        BY RoutersOnAgenda, LenProperties
    <2> QED
        BY <2>2, <2>3, <2>4, RoutersOnAgenda DEF OnAgenda
<1>8. pc' = "run" /\ sleep' = Forever
    BY DEF Arrive
<1> QED
    BY <1>5, <1>6, <1>7, <1>8 DEF NetInv

(* So does a timeout.                                                      *)
LEMMA WakeInv ==
    ASSUME NetInv, Wake
    PROVE  NetInv'
<1>1. PICK d \in sleep..(sleep + MaxLate) : queue' = Later(d)
    BY DEF Wake
<1>2. d \in Nat
    BY DEF NetInv, Wake
<1>3. queue' \in [Nodes -> [Nodes -> Seq(QueueEntry)]]
    BY <1>1, <1>2, LaterType
<1>4. /\ agenda' = Routers /\ sent' = sent
      /\ pc' = "run" /\ sleep' = Forever
    BY DEF Wake
<1> QED
    BY <1>3, <1>4, RoutersOnAgenda DEF NetInv, OnAgenda

(* A packet handed on changes the queues of a router that is being run and *)
(* of one that is put on the agenda.                                       *)
LEMMA ForwardInv ==
    ASSUME NetInv, Forward
    PROVE  NetInv'
<1> DEFINE r == Head(agenda)
           s == Min(Due(r))
           m == Head(queue[r][s]).pkt
           qs == [queue EXCEPT ![r][s] = Tail(@)]
<1>1. r \in Nodes /\ 1 \in DOMAIN agenda /\ agenda[1] = r
    <2>1. agenda \in Seq(Nodes) /\ agenda # <<>>
        BY DEF NetInv, Forward
    <2> QED
        BY <2>1, HeadTailProperties, LenProperties, EmptySeq
<1>2. s \in Nodes /\ queue[r][s] # <<>>
    <2>1. Due(r) \in SUBSET Nat
        BY DEF Due, Nodes
    <2>2. Due(r) # {}
        BY DEF Forward
    <2>3. s \in Due(r)
        BY <2>1, <2>2, LeastIsOne
    <2> QED
        BY <2>3 DEF Due
<1>3. queue[r][s] \in Seq(QueueEntry)
    BY <1>1, <1>2 DEF NetInv
<1>4. Tail(queue[r][s]) \in Seq(QueueEntry) /\ m \in Packet
    <2> DEFINE q == queue[r][s]
    <2>1. q \in Seq(QueueEntry) /\ q # <<>> /\ m = Head(q).pkt
        BY <1>2, <1>3
    <2> HIDE DEF q, m
    <2>2. Tail(q) \in Seq(QueueEntry) /\ Head(q) \in QueueEntry
        BY <2>1, HeadTailProperties
    <2>3. m \in Packet
        BY <2>1, <2>2 DEF QueueEntry
    <2> QED
        BY <2>2, <2>3 DEF q
<1>5. Recv(s, m, qs, agenda) /\ UNCHANGED <<pc, sleep, sent>>
    BY DEF Forward
<1>6. /\ qs \in [Nodes -> [Nodes -> Seq(QueueEntry)]]
      /\ \A x \in Nodes \ {r} : qs[x] = queue[x]
    BY <1>1, <1>2, <1>4 DEF NetInv
<1>7. agenda \in Seq(Nodes)
    BY DEF NetInv
<1> HIDE DEF r, s, m, qs
<1>8. CASE m.flow[2] = s
    <2>1. queue' = qs /\ agenda' = agenda
        BY <1>5, <1>8 DEF Recv
    <2>2. ASSUME NEW x \in Nodes PROVE (OnAgenda(x) \/ SleepRight(x))'
        <3>1. CASE OnAgenda(x)
            BY <2>1, <3>1 DEF OnAgenda
        <3>2. CASE ~OnAgenda(x)
            <4>1. x # r
                BY <1>1, <3>2 DEF OnAgenda
            <4>2. queue'[x] = queue[x] /\ SleepRight(x)
                BY <1>6, <2>1, <3>2, <4>1 DEF NetInv
            <4> QED
                BY <1>5, <4>2 DEF SleepRight, Waits
        <3> QED
            BY <3>1, <3>2
    <2> QED
        BY <1>5, <1>6, <2>1, <2>2 DEF NetInv
<1>9. CASE m.flow[2] # s
    <2>1. /\ queue' = [qs EXCEPT ![s][table[s][m.flow[2]]] = EnQ(@, m)]
          /\ agenda' = Append(agenda, s)
        BY <1>5, <1>9 DEF Recv
    <2>2. /\ queue' \in [Nodes -> [Nodes -> Seq(QueueEntry)]]
          /\ \A x \in Nodes \ {s} : queue'[x] = qs[x]
        <3> DEFINE b == table[s][m.flow[2]]
        <3>1. queue' = [qs EXCEPT ![s][b] = EnQ(@, m)]
            BY <2>1
        <3> HIDE DEF b
        <3> QED
            BY <1>2, <1>4, <1>6, <3>1, QueuedAt
    <2>3. /\ agenda' \in Seq(Nodes) /\ agenda' # <<>>
          /\ \A x \in Nodes : OnAgenda(x) => OnAgenda(x)'
          /\ \E k \in DOMAIN agenda' : agenda'[k] = s
        <3>1. /\ agenda' \in Seq(Nodes)
              /\ Len(agenda') = Len(agenda) + 1
              /\ agenda'[Len(agenda) + 1] = s
              /\ \A k \in 1..Len(agenda) : agenda'[k] = agenda[k]
            BY <1>2, <1>7, <2>1, AppendProperties
        <3>2. /\ DOMAIN agenda = 1..Len(agenda) /\ Len(agenda) \in Nat
              /\ DOMAIN agenda' = 1..Len(agenda')
            BY <1>7, <3>1, LenProperties
        <3>3. \E k \in DOMAIN agenda' : agenda'[k] = s
            BY <3>1, <3>2
        <3>4. \A k \in DOMAIN agenda : k \in DOMAIN agenda' /\ agenda'[k] = agenda[k]
            BY <3>1, <3>2
        <3>5. \A x \in Nodes : OnAgenda(x) => OnAgenda(x)'
            BY <3>4 DEF OnAgenda
        <3>6. agenda' # <<>>
            BY <3>1, <3>2, EmptySeq
        <3> QED
            BY <3>1, <3>3, <3>5, <3>6
    <2>4. ASSUME NEW x \in Nodes PROVE (OnAgenda(x) \/ SleepRight(x))'
        <3>1. CASE OnAgenda(x) \/ x = s
            BY <2>3, <3>1 DEF OnAgenda
        <3>2. CASE ~OnAgenda(x) /\ x # s
            <4>1. x # r
                BY <1>1, <3>2 DEF OnAgenda
            <4>2. queue'[x] = queue[x] /\ SleepRight(x)
                BY <1>6, <2>2, <3>2, <4>1 DEF NetInv
            <4> QED
                BY <1>5, <4>2 DEF SleepRight, Waits
        <3> QED
            BY <3>1, <3>2
    <2>5. pc' = "run"
        BY <1>5 DEF Forward
    <2> QED
        BY <1>5, <2>2, <2>3, <2>4, <2>5 DEF NetInv
<1> QED
    BY <1>8, <1>9

(* A router that has run takes part in the sleep before it is forgotten.   *)
LEMMA RunDoneInv ==
    ASSUME NetInv, RunDone
    PROVE  NetInv'
<1> DEFINE r == Head(agenda)
           waits == Waits(r) \cup ({sleep} \ {Forever})
<1>1. agenda \in Seq(Nodes) /\ agenda # <<>>
    BY DEF NetInv, RunDone
<1>2. /\ r \in Nodes /\ Tail(agenda) \in Seq(Nodes)
      /\ Len(Tail(agenda)) = Len(agenda) - 1
      /\ \A k \in 1..Len(Tail(agenda)) : Tail(agenda)[k] = agenda[k + 1]
    BY <1>1, HeadTailProperties
<1>3. /\ agenda' = Tail(agenda) /\ queue' = queue /\ sent' = sent
      /\ pc' = IF Tail(agenda) = <<>> THEN "listen" ELSE "run"
      /\ sleep' = IF waits = {} THEN Forever ELSE Min(waits)
    BY DEF RunDone
<1>4. waits \in SUBSET Nat
    BY <1>2, WaitsType DEF NetInv
<1>5. ASSUME NEW w \in waits
      PROVE  sleep' \in Nat /\ sleep' <= w
    <2> HIDE DEF waits
    <2>1. Min(waits) \in Nat /\ Min(waits) <= w
        BY <1>4, LeastIsOne
    <2> QED
        BY <1>3, <2>1
<1>6. sleep' \in Nat \cup {Forever}
    BY <1>3, <1>5
<1>7. ASSUME NEW x \in Nodes PROVE (OnAgenda(x) \/ SleepRight(x))'
    <2>1. CASE x = r
        <3>1. \A w \in Waits(x) : sleep' # Forever /\ sleep' <= w
            BY <1>5, <2>1
        <3> QED
            BY <1>3, <3>1 DEF SleepRight, Waits
    <2>2. CASE x # r /\ OnAgenda(x)
        <3>1. PICK k \in DOMAIN agenda : agenda[k] = x
            BY <2>2 DEF OnAgenda
        <3>2. k \in 1..Len(agenda) /\ Len(agenda) \in Nat /\ agenda[1] = r
            BY <1>1, <3>1, LenProperties, HeadTailProperties
        <3>3. k # 1
            BY <2>2, <3>1, <3>2
        <3>4. k - 1 \in 1..Len(Tail(agenda)) /\ k - 1 + 1 = k
            BY <1>2, <3>2, <3>3
        <3>5. Tail(agenda)[k - 1] = x /\ k - 1 \in DOMAIN Tail(agenda)
            BY <1>2, <3>1, <3>4, LenProperties
        <3> QED
            BY <1>3, <3>5 DEF OnAgenda
    <2>3. CASE ~OnAgenda(x)
        <3>1. SleepRight(x) /\ Waits(x) \subseteq Nat
            BY <2>3, WaitsType DEF NetInv
        <3>2. ASSUME NEW w \in Waits(x)
              PROVE  sleep' # Forever /\ sleep' <= w
            <4>1. sleep # Forever /\ sleep <= w /\ sleep \in Nat /\ w \in Nat
                BY <3>1 DEF SleepRight, NetInv
            <4>2. sleep' \in Nat /\ sleep' <= sleep
                BY <1>5, <4>1
            <4> QED
                BY <4>1, <4>2
        <3> QED
            BY <1>3, <3>2 DEF SleepRight, Waits
    <2> QED
        BY <2>1, <2>2, <2>3
<1>8. sent' \in [Flows -> Nat] /\ queue' \in [Nodes -> [Nodes -> Seq(QueueEntry)]]
    BY <1>3 DEF NetInv
<1> QED
    BY <1>2, <1>3, <1>6, <1>7, <1>8 DEF NetInv

(* Whoever is not on the agenda is right about how long to sleep.          *)
LEMMA StepInv == NetInv /\ [Next]_vars => NetInv'
<1> SUFFICES ASSUME NetInv, [Next]_vars PROVE NetInv'
    OBVIOUS
<1>1. ASSUME NEW f \in Flows, Arrive(f) PROVE NetInv'
    BY <1>1, ArriveInv
<1>2. CASE Wake
    BY <1>2, WakeInv
<1>3. CASE Forward
    BY <1>3, ForwardInv
<1>4. CASE RunDone
    BY <1>4, RunDoneInv
<1>5. CASE UNCHANGED vars
    BY <1>5 DEF vars, NetInv, OnAgenda, SleepRight, Waits
<1> QED
    BY <1>1, <1>2, <1>3, <1>4, <1>5 DEF Next

(* The main loop never sleeps past the moment when a packet queued by any  *)
(* router is due, for any topology, tables and flows (main and run).       *)
THEOREM NoWakeupLost == Spec => []NeverOversleeps
<1>1. NetInv => NeverOversleeps
    <2> SUFFICES ASSUME NetInv, pc = "listen", NEW r \in Nodes PROVE SleepRight(r)
        BY DEF NeverOversleeps, SleepRight
    <2>1. agenda = <<>>
        BY DEF NetInv
    <2>2. ~OnAgenda(r)
        BY <2>1 DEF OnAgenda
    <2> QED
        BY <2>2 DEF NetInv
<1> QED
    BY <1>1, InitInv, StepInv, PTL DEF Spec

-----------------------------------------------------------------------------
-----------------------------------------------------------------------------
(* Reach, one link more at a time (hupsim.pl:228-240 follows routes).      *)
Spread(R, ls) == R \cup UNION {Neighbours(n, ls) : n \in R}

IsWithin(f, r, k, ls) ==
    f = [j \in 0..k |-> IF j = 0 THEN {r} ELSE Spread(f[j - 1], ls)]

Within(r, k, ls) == CHOOSE f : IsWithin(f, r, k, ls)

(* Reach takes the last of those steps, which the CHOOSE of its recursive  *)
(* function denotes.                                                       *)
LEMMA ReachIsWithin ==
    ASSUME NEW r \in Nodes, NEW k \in Nat, NEW ls
    PROVE  /\ Reach(r, k, ls) = Within(r, k, ls)[k]
           /\ IsWithin(Within(r, k, ls), r, k, ls)
<1>1. Reach(r, k, ls) = Within(r, k, ls)[k]
    BY DEF Reach, Within, IsWithin, Spread
<1> DEFINE S == SUBSET Nodes
           step == [R \in S |-> Spread(R, ls)]
           x0 == {r}
<1>2. step \in [S -> S] /\ x0 \in S
    BY DEF Spread, Neighbours
<1>3. PICK g : g \in [0..k -> S] /\ g = [j \in 0..k |-> IF j = 0 THEN x0 ELSE step[g[j - 1]]]
    <2> HIDE DEF S, step, x0
    <2> QED
        <3>1. \E g : Stepwise(g, S, x0, step, k)
            BY <1>2, StepwiseExists
        <3> QED
            BY <3>1 DEF Stepwise
<1>4. ASSUME NEW j \in 0..k
      PROVE  g[j] = IF j = 0 THEN {r} ELSE Spread(g[j - 1], ls)
    <2>1. CASE j = 0
        BY <1>3, <2>1
    <2>2. CASE j # 0
        <3>1. j - 1 \in 0..k
            BY <2>2
        <3>2. g[j - 1] \in SUBSET Nodes /\ g[j] = step[g[j - 1]]
            BY <1>3, <2>2, <3>1
        <3> QED
            BY <2>2, <3>2
    <2> QED
        BY <2>1, <2>2
<1>5. IsWithin(g, r, k, ls)
    <2> HIDE DEF S, step, x0
    <2>1. g = [j \in 0..k |-> g[j]]
        BY <1>3
    <2> QED
        BY <1>4, <2>1 DEF IsWithin
<1> QED
    BY <1>1, <1>5 DEF Within

(* With one link more, the neighbours of what was reached are reached too. *)
LEMMA ReachMore ==
    ASSUME NEW r \in Nodes, NEW k \in Nat, NEW ls
    PROVE  /\ Reach(r, 0, ls) = {r}
           /\ Reach(r, k, ls) \in SUBSET Nodes
           /\ Reach(r, k + 1, ls) = Spread(Reach(r, k, ls), ls)
<1> DEFINE S == SUBSET Nodes
           step == [R \in S |-> Spread(R, ls)]
           f == Within(r, k, ls)
           g == Within(r, k + 1, ls)
           x0 == {r}
<1>1. step \in [S -> S] /\ x0 \in S
    BY DEF Spread, Neighbours
<1>2. Reach(r, k, ls) = f[k] /\ Reach(r, k + 1, ls) = g[k + 1]
    BY ReachIsWithin
<1>3. /\ IsWithin(f, r, k, ls) /\ IsWithin(g, r, k + 1, ls)
      /\ f = [j \in 0..k |-> IF j = 0 THEN {r} ELSE Spread(f[j - 1], ls)]
      /\ g = [j \in 0..(k + 1) |-> IF j = 0 THEN {r} ELSE Spread(g[j - 1], ls)]
    <2>1. IsWithin(f, r, k, ls) /\ IsWithin(g, r, k + 1, ls)
        BY ReachIsWithin
    <2> HIDE DEF f, g
    <2> QED
        BY <2>1 DEF IsWithin
<1> HIDE DEF f, g
<1>4. f[0] = x0 /\ g[0] = x0
    BY <1>3
<1>5. ASSUME NEW j \in 1..k
      PROVE  /\ f[j - 1] \in S => f[j] = step[f[j - 1]]
             /\ g[j - 1] \in S => g[j] = step[g[j - 1]]
    <2>1. j \in 0..k /\ j \in 0..(k + 1) /\ j # 0
        OBVIOUS
    <2>2. f[j] = Spread(f[j - 1], ls) /\ g[j] = Spread(g[j - 1], ls)
        BY <1>3, <2>1
    <2> QED
        BY <2>2
<1> HIDE DEF S, step, x0
<1>6. \A j \in 0..k : f[j] = g[j] /\ f[j] \in S
    <2>1. GoesStepwise(f, S, x0, step, k) /\ GoesStepwise(g, S, x0, step, k)
        BY <1>4, <1>5 DEF GoesStepwise
    <2> QED
        BY <1>1, <2>1, StepwiseAgree
<1>7. g[k + 1] = Spread(g[k], ls)
    <2>1. k + 1 \in 0..(k + 1) /\ k + 1 # 0 /\ (k + 1) - 1 = k
        OBVIOUS
    <2> QED
        BY <1>3, <2>1
<1>8. Reach(r, 0, ls) = {r}
    <2>1. Within(r, 0, ls)[0] = {r} /\ Reach(r, 0, ls) = Within(r, 0, ls)[0]
        BY ReachIsWithin DEF IsWithin
    <2> QED
        BY <2>1
<1>9. k \in 0..k
    OBVIOUS
<1> QED
    BY <1>2, <1>6, <1>7, <1>8, <1>9 DEF S

(* What k links lead to, more links do.                                    *)
LEMMA ReachGrows ==
    ASSUME NEW r \in Nodes, NEW ls, NEW k \in Nat, NEW i \in Nat, k <= i
    PROVE  Reach(r, k, ls) \subseteq Reach(r, i, ls)
<1> DEFINE S == {j \in Nat : Reach(r, k, ls) \subseteq Reach(r, k + j, ls)}
<1>1. 0 \in S
    <2>1. k + 0 = k
        OBVIOUS
    <2> QED
        BY <2>1
<1>2. ASSUME NEW j \in S PROVE j + 1 \in S
    <2>1. Reach(r, (k + j) + 1, ls) = Spread(Reach(r, k + j, ls), ls)
        BY ReachMore
    <2>2. (k + j) + 1 = k + (j + 1) /\ j + 1 \in Nat
        OBVIOUS
    <2> QED
        BY <2>1, <2>2 DEF Spread
<1>3. S = Nat
    <2>1. S \in SUBSET Nat
        OBVIOUS
    <2> HIDE DEF S
    <2> QED
        BY <1>1, <1>2, <2>1, AllNumbers
<1>4. i - k \in Nat /\ k + (i - k) = i
    OBVIOUS
<1>5. i - k \in S
    BY <1>3, <1>4
<1> QED
    BY <1>4, <1>5

(* A neighbour of what k links lead to is one link away from there.        *)
LEMMA ReachNeighbour ==
    ASSUME NEW r \in Nodes, NEW ls, NEW k \in Nat, NEW m \in Reach(r, k, ls),
           NEW n \in Neighbours(m, ls)
    PROVE  n \in Reach(r, k + 1, ls)
BY ReachMore DEF Spread

(* Where k links lead from a neighbour, k + 1 lead to.                     *)
LEMMA ReachFromNeighbour ==
    ASSUME NEW r \in Nodes, NEW ls, NEW s \in Neighbours(r, ls), NEW k \in Nat
    PROVE  Reach(s, k, ls) \subseteq Reach(r, k + 1, ls)
<1> DEFINE S == {j \in Nat : Reach(s, j, ls) \subseteq Reach(r, j + 1, ls)}
<1>1. s \in Nodes
    BY DEF Neighbours
<1>2. 0 \in S
    <2>1. r \in Reach(r, 0, ls) /\ Reach(s, 0, ls) = {s}
        BY <1>1, ReachMore
    <2>2. s \in Reach(r, 0 + 1, ls)
        BY <2>1, ReachNeighbour
    <2> QED
        BY <2>1, <2>2
<1>3. ASSUME NEW j \in S PROVE j + 1 \in S
    <2>1. /\ Reach(s, j + 1, ls) = Spread(Reach(s, j, ls), ls)
          /\ Reach(r, (j + 1) + 1, ls) = Spread(Reach(r, j + 1, ls), ls)
        BY <1>1, ReachMore
    <2>2. Reach(s, j, ls) \subseteq Reach(r, j + 1, ls) /\ j + 1 \in Nat
        OBVIOUS
    <2> QED
        BY <2>1, <2>2 DEF Spread
<1>4. S = Nat
    <2>1. S \in SUBSET Nat
        OBVIOUS
    <2> HIDE DEF S
    <2> QED
        BY <1>2, <1>3, <2>1, AllNumbers
<1> QED
    BY <1>4

-----------------------------------------------------------------------------
(* Dijkstra's algorithm (hupsim.pl:243-281): the routers done are the      *)
(* nearest, the others' distances are those over routers done.             *)
VisitInv(v, r, ls) ==
    /\ v.done \in SUBSET Nodes
    /\ v.distance \in [Nodes -> Nat]
    /\ v.predecessor \in [Nodes -> Nodes]
    /\ v.distance[r] = 0
    /\ v.predecessor[r] = r
    /\ \A n \in Nodes \ {r} :
          \/ v.distance[n] = Infinity
          \/ /\ v.predecessor[n] \in v.done
             /\ n \in Neighbours(v.predecessor[n], ls)
             /\ v.distance[n] = v.distance[v.predecessor[n]] + 1
    /\ \A m \in v.done : \A n \in Nodes \ v.done : v.distance[m] <= v.distance[n]
    /\ \A m \in v.done : \A n \in Neighbours(m, ls) : v.distance[n] <= v.distance[m] + 1
    /\ \A n \in Nodes : v.distance[n] <= Infinity

(* While a router is left, one of the nearest left is visited next.        *)
LEMMA NextVisitNearest ==
    ASSUME NEW v, v.done \in SUBSET Nodes, v.done # Nodes, v.distance \in [Nodes -> Nat]
    PROVE  /\ NextVisit(v) \in Nodes \ v.done
           /\ \A n \in Nodes \ v.done : v.distance[NextVisit(v)] <= v.distance[n]
<1> DEFINE D == {v.distance[n] : n \in Nodes \ v.done}
           C == {n \in Nodes \ v.done : \A m \in Nodes \ v.done : v.distance[n] <= v.distance[m]}
<1>1. D \in SUBSET Nat /\ D # {}
    BY ZenonT(30)
<1>2. Min(D) \in D /\ \A x \in D : Min(D) <= x
    <2> HIDE DEF D
    <2> QED
        BY <1>1, LeastIsOne
<1>3. PICK n \in Nodes \ v.done : Min(D) = v.distance[n]
    BY <1>2
<1>4. n \in C
    BY <1>2, <1>3
<1>5. C \in SUBSET Nat /\ C # {}
    BY <1>4 DEF Nodes
<1>6. Min(C) \in C
    <2> HIDE DEF C
    <2> QED
        BY <1>5, LeastIsOne
<1>7. NextVisit(v) = Min(C)
    BY DEF NextVisit
<1> QED
    BY <1>6, <1>7

(* A visit keeps all that.                                                 *)
LEMMA VisitKeeps ==
    ASSUME NEW r \in Nodes, NEW ls, NEW v, VisitInv(v, r, ls), v.done # Nodes
    PROVE  /\ VisitInv(Visited(v, ls), r, ls)
           /\ \E n \in Nodes \ v.done : Visited(v, ls).done = v.done \cup {n}
<1> DEFINE next == NextVisit(v)
           weight == v.distance[next] + 1
           closer == {n \in Neighbours(next, ls) : v.distance[n] > weight}
           dist == [n \in Nodes |-> IF n \in closer THEN weight ELSE v.distance[n]]
           pred == [n \in Nodes |-> IF n \in closer THEN next ELSE v.predecessor[n]]
           done == v.done \cup {next}
           w == Visited(v, ls)
<1>1. w.done = done /\ w.distance = dist /\ w.predecessor = pred
    BY DEF Visited
<1>2. /\ v.done \in SUBSET Nodes
      /\ v.distance \in [Nodes -> Nat]
      /\ v.predecessor \in [Nodes -> Nodes]
      /\ v.distance[r] = 0 /\ v.predecessor[r] = r
    BY DEF VisitInv
<1>3. next \in Nodes \ v.done /\ \A n \in Nodes \ v.done : v.distance[next] <= v.distance[n]
    BY <1>2, NextVisitNearest
<1> HIDE DEF next
<1>4. closer \subseteq Nodes /\ weight \in Nat /\ next \notin closer
    BY <1>2, <1>3 DEF Neighbours
<1>5. \A m \in v.done : v.distance[m] <= v.distance[next]
    BY <1>3 DEF VisitInv
<1>6. \A m \in done : m \notin closer
    BY <1>2, <1>3, <1>4, <1>5
<1>7. r \notin closer
    BY <1>2, <1>4
<1>8. /\ \A n \in closer : dist[n] = weight /\ pred[n] = next /\ weight < v.distance[n]
      /\ \A n \in Nodes \ closer : dist[n] = v.distance[n] /\ pred[n] = v.predecessor[n]
      /\ \A n \in Nodes : dist[n] <= v.distance[n] /\ dist[n] \in Nat /\ pred[n] \in Nodes
      /\ dist \in [Nodes -> Nat] /\ pred \in [Nodes -> Nodes]
    BY <1>2, <1>3, <1>4
<1>9. done \in SUBSET Nodes /\ next \in done
    BY <1>2, <1>3
<1>10. \A m \in done : dist[m] = v.distance[m]
    BY <1>6, <1>8, <1>9
<1> HIDE DEF dist, pred, w
<1>11. ASSUME NEW n \in Nodes \ {r}, dist[n] # Infinity
       PROVE  /\ pred[n] \in done
              /\ n \in Neighbours(pred[n], ls)
              /\ dist[n] = dist[pred[n]] + 1
    <2>1. CASE n \in closer
        <3>1. n \in Neighbours(next, ls)
            BY <2>1
        <3> QED
            BY <1>8, <1>9, <1>10, <2>1, <3>1
    <2>2. CASE n \notin closer
        <3>1. dist[n] = v.distance[n] /\ pred[n] = v.predecessor[n]
            BY <1>8, <2>2
        <3>2. /\ v.predecessor[n] \in v.done
              /\ n \in Neighbours(v.predecessor[n], ls)
              /\ v.distance[n] = v.distance[v.predecessor[n]] + 1
            BY <1>11, <3>1 DEF VisitInv
        <3>3. v.predecessor[n] \in done
            BY <3>2
        <3> QED
            BY <1>10, <3>1, <3>2, <3>3
    <2> QED
        BY <2>1, <2>2
<1>12. ASSUME NEW m \in done, NEW n \in Nodes \ done
       PROVE  dist[m] <= dist[n]
    <2>1. v.distance[m] \in Nat /\ v.distance[next] \in Nat /\ v.distance[n] \in Nat
        BY <1>2, <1>9
    <2>2. v.distance[m] <= v.distance[next]
        BY <1>5, <2>1
    <2>3. v.distance[next] <= v.distance[n]
        BY <1>3
    <2>4. dist[n] = weight \/ dist[n] = v.distance[n]
        BY <1>8
    <2> QED
        BY <1>10, <2>1, <2>2, <2>3, <2>4
<1>13. ASSUME NEW m \in done, NEW n \in Neighbours(m, ls)
       PROVE  dist[n] <= dist[m] + 1
    <2>1. n \in Nodes /\ m \in Nodes
        BY <1>9 DEF Neighbours
    <2>2. v.distance[m] \in Nat /\ v.distance[n] \in Nat /\ dist[n] \in Nat
        BY <1>2, <1>8, <2>1
    <2>3. CASE m \in v.done
        <3>1. v.distance[n] <= v.distance[m] + 1
            BY <2>3 DEF VisitInv
        <3>2. dist[n] <= v.distance[n] /\ dist[m] = v.distance[m]
            BY <1>8, <1>10, <2>1
        <3> QED
            BY <2>2, <3>1, <3>2
    <2>4. CASE m = next
        <3>1. n \in closer \/ v.distance[n] <= weight
            BY <1>4, <2>2, <2>4
        <3>2. dist[n] <= weight
            BY <1>4, <1>8, <2>1, <2>2, <3>1
        <3> QED
            BY <1>10, <2>4, <3>2
    <2> QED
        BY <2>3, <2>4
<1>14. \A n \in Nodes : dist[n] <= Infinity
    <2>1. \A n \in Nodes : v.distance[n] <= Infinity /\ v.distance[n] \in Nat
        BY <1>2 DEF VisitInv
    <2>2. ASSUME NEW n \in Nodes PROVE dist[n] <= Infinity
        <3>1. /\ v.distance[n] <= Infinity /\ v.distance[n] \in Nat
              /\ dist[n] <= v.distance[n] /\ dist[n] \in Nat /\ Infinity \in Nat
            BY <1>8, <2>1
        <3> HIDE DEF dist
        <3> QED
            BY <3>1
    <2> QED
        BY <2>2
<1>15. dist[r] = 0 /\ pred[r] = r
    BY <1>2, <1>7, <1>8
<1> HIDE DEF done, closer, weight
<1>16. VisitInv(w, r, ls)
    BY <1>1, <1>8, <1>9, <1>11, <1>12, <1>13, <1>14, <1>15 DEF VisitInv
<1> QED
    BY <1>1, <1>3, <1>16 DEF w, done

(* The visits of createTable, one after the other.                         *)
FirstVisit(r) ==
    [done |-> {},
     distance |-> [n \in Nodes |-> IF n = r THEN 0 ELSE Infinity],
     predecessor |-> [n \in Nodes |-> n]]

AreVisits(f, r, ls) ==
    f = [k \in 0..N |-> IF k = 0 THEN FirstVisit(r) ELSE Visited(f[k - 1], ls)]

Visits(r, ls) == CHOOSE f : AreVisits(f, r, ls)

Visit == [done : SUBSET Nodes, distance : [Nodes -> Nat], predecessor : [Nodes -> Nodes]]

(* As long as a router is left, the next visit follows.                    *)
VisitsFollow(f, r, ls) ==
    /\ f[0] = FirstVisit(r)
    /\ \A k \in 1..N : f[k - 1].done # Nodes => f[k] = Visited(f[k - 1], ls)

VisitsCount(f, r, ls) ==
    \A k \in 0..N : VisitInv(f[k], r, ls) /\ Cardinality(f[k].done) = k

(* Every visit is that of one router more.                                 *)
LEMMA VisitsCounted ==
    ASSUME NEW r \in Nodes, NEW ls, NEW f, VisitsFollow(f, r, ls)
    PROVE  VisitsCount(f, r, ls)
<1> DEFINE P(k) == VisitInv(f[k], r, ls) /\ Cardinality(f[k].done) = k
           S == {k \in Nat : k <= N => P(k)}
<1>1. P(0)
    <2>1. VisitInv(FirstVisit(r), r, ls)
        BY DEF VisitInv, FirstVisit
    <2>2. Cardinality(FirstVisit(r).done) = 0
        BY FS_EmptySet DEF FirstVisit
    <2> QED
        BY <2>1, <2>2 DEF VisitsFollow
<1>2. ASSUME NEW k \in Nat, k < N, P(k)
      PROVE  f[k].done # Nodes /\ P(k + 1)
    <2>1. f[k].done \in SUBSET Nodes /\ Cardinality(f[k].done) = k
        BY <1>2 DEF VisitInv
    <2>2. IsFiniteSet(Nodes) /\ Cardinality(Nodes) = N
        BY SMTT(30), FS_Interval DEF Nodes
    <2>3. f[k].done # Nodes
        BY <1>2, <2>1, <2>2
    <2>4. f[k + 1] = Visited(f[k], ls)
        <3>1. k + 1 \in 1..N /\ (k + 1) - 1 = k
            BY <1>2
        <3> QED
            BY <2>3, <3>1 DEF VisitsFollow
    <2>5. VisitInv(f[k + 1], r, ls)
        BY <1>2, <2>3, <2>4, VisitKeeps
    <2>6. PICK n \in Nodes \ f[k].done : f[k + 1].done = f[k].done \cup {n}
        BY <1>2, <2>3, <2>4, VisitKeeps
    <2>7. IsFiniteSet(f[k].done)
        BY <2>1, <2>2, FS_Subset
    <2>8. Cardinality(f[k + 1].done) = k + 1
        <3> DEFINE D == f[k].done
        <3>1. IsFiniteSet(D) /\ n \notin D
            BY <2>7
        <3> HIDE DEF D
        <3>2. Cardinality(D \cup {n}) = Cardinality(D) + 1
            BY <3>1, FS_AddElement
        <3> QED
            BY <2>1, <2>6, <3>2 DEF D
    <2> QED
        BY <2>3, <2>5, <2>8
<1>3. S = Nat
    <2>1. 0 \in S
        BY <1>1
    <2> HIDE DEF P
    <2>2. \A k \in S : k + 1 \in S
        BY <1>2
    <2>3. S \in SUBSET Nat
        OBVIOUS
    <2> HIDE DEF S
    <2> QED
        BY <2>1, <2>2, <2>3, AllNumbers
<1> HIDE DEF P
<1>4. \A k \in 0..N : P(k)
    BY <1>3
<1> QED
    BY <1>4 DEF P, VisitsCount

(* Dijkstra is what they come to, one for each router: the loop of         *)
(* createTable ends (hupsim.pl:249-274).                                   *)
LEMMA VisitsExist ==
    ASSUME NEW r \in Nodes, NEW ls
    PROVE  /\ Dijkstra(r, ls) = Visits(r, ls)[N]
           /\ AreVisits(Visits(r, ls), r, ls)
<1>1. Dijkstra(r, ls) = Visits(r, ls)[N]
    BY DEF Dijkstra, Visits, AreVisits, FirstVisit
<1> DEFINE S == {v \in Visit : VisitInv(v, r, ls)}
           x0 == FirstVisit(r)
           step == [v \in S |-> IF v.done = Nodes THEN v ELSE Visited(v, ls)]
<1>2. x0 \in S
    BY DEF VisitInv, FirstVisit, Visit
<1>3. ASSUME NEW v \in S, v.done # Nodes
      PROVE  Visited(v, ls) \in S
    <2>1. VisitInv(Visited(v, ls), r, ls)
        BY <1>3, VisitKeeps
    <2>2. Visited(v, ls) \in Visit
        <3> DEFINE w == Visited(v, ls)
        <3>1. w = [done |-> w.done, distance |-> w.distance, predecessor |-> w.predecessor]
            BY DEF Visited
        <3>2. /\ w.done \in SUBSET Nodes
              /\ w.distance \in [Nodes -> Nat] /\ w.predecessor \in [Nodes -> Nodes]
            BY <2>1 DEF VisitInv
        <3> HIDE DEF w
        <3>3. w \in Visit
            BY <3>1, <3>2 DEF Visit
        <3> QED
            BY <3>3 DEF w
    <2> QED
        BY <2>1, <2>2
<1>4. step \in [S -> S]
    <2>1. \A v \in S : (IF v.done = Nodes THEN v ELSE Visited(v, ls)) \in S
        BY <1>3
    <2> HIDE DEF S
    <2> QED
        BY <2>1
<1>5. \E g : Stepwise(g, S, x0, step, N)
    <2> HIDE DEF S, x0, step
    <2> QED
        BY <1>2, <1>4, StepwiseExists
<1>6. PICK g : Stepwise(g, S, x0, step, N)
    BY <1>5
<1> HIDE DEF x0
<1>7. g[0] = x0 /\ \A k \in 1..N : g[k] = step[g[k - 1]] /\ g[k - 1] \in S
    <2> HIDE DEF S, step
    <2>1. g \in [0..N -> S] /\ g = [j \in 0..N |-> IF j = 0 THEN x0 ELSE step[g[j - 1]]]
        BY <1>6 DEF Stepwise
    <2>2. \A k \in 1..N : k \in 0..N /\ k - 1 \in 0..N /\ k # 0
        OBVIOUS
    <2>3. 0 \in 0..N
        OBVIOUS
    <2> QED
        BY <2>1, <2>2, <2>3
<1>8. \A k \in 1..N : g[k - 1].done # Nodes => g[k] = Visited(g[k - 1], ls)
    <2>1. ASSUME NEW k \in 1..N, g[k - 1].done # Nodes
          PROVE  g[k] = Visited(g[k - 1], ls)
        <3>1. g[k] = step[g[k - 1]] /\ g[k - 1] \in S
            BY <1>7
        <3>2. step[g[k - 1]] = IF g[k - 1].done = Nodes THEN g[k - 1] ELSE Visited(g[k - 1], ls)
            <4> HIDE DEF S
            <4> QED
                BY <3>1
        <3> QED
            BY <2>1, <3>1, <3>2
    <2> QED
        BY <2>1
<1>9. \A k \in 0..N : Cardinality(g[k].done) = k
    <2>1. VisitsFollow(g, r, ls)
        BY <1>7, <1>8 DEF x0, VisitsFollow
    <2>2. VisitsCount(g, r, ls)
        BY <2>1, VisitsCounted
    <2> QED
        BY <2>2 DEF VisitsCount
<1>10. ASSUME NEW k \in 1..N PROVE g[k - 1].done # Nodes
    <2>1. Cardinality(g[k - 1].done) = k - 1
        <3>1. k - 1 \in 0..N
            OBVIOUS
        <3> QED
            BY <1>9, <3>1
    <2>2. Cardinality(Nodes) = N
        BY FS_Interval DEF Nodes
    <2> QED
        BY <2>1, <2>2
<1>11. AreVisits(g, r, ls)
    <2> HIDE DEF S, step
    <2>1. ASSUME NEW k \in 0..N
          PROVE  g[k] = IF k = 0 THEN FirstVisit(r) ELSE Visited(g[k - 1], ls)
        <3>1. CASE k = 0
            BY <1>7, <3>1 DEF x0
        <3>2. CASE k # 0
            <4>1. k \in 1..N
                BY <3>2
            <4> QED
                BY <1>8, <1>10, <3>2, <4>1
        <3> QED
            BY <3>1, <3>2
    <2>2. g = [k \in 0..N |-> g[k]]
        BY <1>6 DEF Stepwise
    <2> QED
        BY <2>1, <2>2 DEF AreVisits
<1> QED
    BY <1>1, <1>11 DEF Visits

(* When createTable follows the predecessors every router has been done.   *)
LEMMA DijkstraDone ==
    ASSUME NEW r \in Nodes, NEW ls
    PROVE  VisitInv(Dijkstra(r, ls), r, ls) /\ Dijkstra(r, ls).done = Nodes
<1> DEFINE f == Visits(r, ls)
<1>1. AreVisits(f, r, ls) /\ Dijkstra(r, ls) = f[N]
    BY VisitsExist
<1> HIDE DEF f
<1>2. VisitsFollow(f, r, ls)
    <2>1. \A k \in 1..N : k \in 0..N /\ k # 0
        OBVIOUS
    <2>2. 0 \in 0..N
        OBVIOUS
    <2> QED
        BY <1>1, <2>1, <2>2 DEF AreVisits, VisitsFollow
<1>3. VisitInv(f[N], r, ls) /\ Cardinality(f[N].done) = N
    <2>1. VisitsCount(f, r, ls)
        BY <1>2, VisitsCounted
    <2> QED
        BY <2>1 DEF VisitsCount
<1>4. IsFiniteSet(Nodes) /\ Cardinality(Nodes) = N
    BY FS_Interval DEF Nodes
<1>5. f[N].done \in SUBSET Nodes
    BY <1>3 DEF VisitInv
<1>6. f[N].done = Nodes
    <2> DEFINE D == f[N].done
    <2>1. D \in SUBSET Nodes /\ Cardinality(D) = Cardinality(Nodes)
        BY <1>3, <1>4, <1>5
    <2> HIDE DEF D
    <2>2. D = Nodes
        BY <1>4, <2>1, FS_Subset
    <2> QED
        BY <2>2 DEF D
<1> QED
    BY <1>1, <1>3, <1>6

(* No links fewer than its distance lead to a router.                      *)
LEMMA DistanceLeast ==
    ASSUME NEW r \in Nodes, NEW ls, NEW k \in Nat, NEW n \in Reach(r, k, ls)
    PROVE  Dijkstra(r, ls).distance[n] <= k
<1> DEFINE v == Dijkstra(r, ls)
           S == {j \in Nat : \A m \in Reach(r, j, ls) : v.distance[m] <= j}
<1>1. VisitInv(v, r, ls) /\ v.done = Nodes
    BY DijkstraDone
<1> HIDE DEF v
<1>2. v.distance \in [Nodes -> Nat] /\ v.distance[r] = 0
    BY <1>1 DEF VisitInv
<1>3. 0 \in S
    <2>1. Reach(r, 0, ls) = {r}
        BY ReachMore
    <2> QED
        BY <1>2, <2>1
<1>4. ASSUME NEW j \in S PROVE j + 1 \in S
    <2>1. /\ Reach(r, j + 1, ls) = Spread(Reach(r, j, ls), ls)
          /\ Reach(r, j, ls) \in SUBSET Nodes
        BY ReachMore
    <2>2. ASSUME NEW m \in Reach(r, j + 1, ls) PROVE v.distance[m] <= j + 1
        <3>1. CASE m \in Reach(r, j, ls)
            <4>1. v.distance[m] <= j /\ v.distance[m] \in Nat /\ j \in Nat
                BY <1>2, <2>1, <3>1
            <4> QED
                BY <4>1
        <3>2. CASE \E p \in Reach(r, j, ls) : m \in Neighbours(p, ls)
            <4>1. PICK p \in Reach(r, j, ls) : m \in Neighbours(p, ls)
                BY <3>2
            <4>2. p \in Nodes /\ m \in Nodes
                BY <2>1, <4>1 DEF Neighbours
            <4>3. v.distance[m] <= v.distance[p] + 1
                BY <1>1, <4>1, <4>2 DEF VisitInv
            <4>4. v.distance[p] <= j
                OBVIOUS
            <4>5. v.distance[p] \in Nat /\ v.distance[m] \in Nat /\ j \in Nat
                BY <1>2, <4>2
            <4> QED
                BY <4>3, <4>4, <4>5
        <3> QED
            BY <2>1, <3>1, <3>2 DEF Spread
    <2> QED
        BY <2>2
<1>5. S = Nat
    <2>1. S \in SUBSET Nat
        OBVIOUS
    <2> HIDE DEF S
    <2> QED
        BY <1>3, <1>4, <2>1, AllNumbers
<1> QED
    BY <1>5 DEF v

(* On a topology that is connected every router is found, each over its    *)
(* predecessor.                                                            *)
LEMMA EveryRouterFound ==
    ASSUME NEW r \in Nodes, NEW ls \in Topologies, NEW n \in Nodes \ {r}
    PROVE  LET v == Dijkstra(r, ls)
           IN  /\ v.predecessor[n] \in Nodes
               /\ n \in Neighbours(v.predecessor[n], ls)
               /\ v.distance[n] = v.distance[v.predecessor[n]] + 1
               /\ v.distance[v.predecessor[n]] \in Nat
<1> DEFINE v == Dijkstra(r, ls)
<1>1. VisitInv(v, r, ls) /\ v.done = Nodes
    BY DijkstraDone
<1>2. v.distance[n] <= N
    <2>1. n \in Reach(r, N, ls)
        BY TopologiesConnected
    <2> QED
        BY <2>1, DistanceLeast
<1> HIDE DEF v
<1>3. v.distance \in [Nodes -> Nat] /\ v.predecessor \in [Nodes -> Nodes]
    BY <1>1 DEF VisitInv
<1>4. v.distance[n] # Infinity
    BY <1>2
<1>5. /\ n \in Neighbours(v.predecessor[n], ls)
      /\ v.distance[n] = v.distance[v.predecessor[n]] + 1
    BY <1>1, <1>4 DEF VisitInv
<1>6. v.predecessor[n] \in Nodes
    BY <1>3
<1>7. v.distance[v.predecessor[n]] \in Nat
    BY <1>3, <1>6
<1> QED
    BY <1>5, <1>6, <1>7 DEF v

-----------------------------------------------------------------------------
(* The predecessors followed back (hupsim.pl:285-289).                     *)
Back(f, pred, r) == f = [n \in Nodes |-> IF pred[n] = r THEN n ELSE f[pred[n]]]

StartRoute(pred, r) == CHOOSE f : Back(f, pred, r)

(* What a route begins with: a neighbour from which it is one link less.   *)
Begins(f, r, ls) ==
    \A n \in Nodes \ {r} :
        /\ f[n] \in Neighbours(r, ls)
        /\ n \in Reach(f[n], Dijkstra(r, ls).distance[n] - 1, ls)

(* Following the predecessors comes to an end: the distance grows less.    *)
LEMMA BackEnds ==
    ASSUME NEW r \in Nodes, NEW ls \in Topologies
    PROVE  \E f : Back(f, Dijkstra(r, ls).predecessor, r)
<1> DEFINE v == Dijkstra(r, ls)
           pred == v.predecessor
           Upto(f, k) == /\ f \in [Nodes -> Nodes]
                         /\ \A n \in Nodes : v.distance[n] <= k =>
                               f[n] = IF pred[n] = r THEN n ELSE f[pred[n]]
           S == {k \in Nat : \E f : Upto(f, k)}
<1>1. /\ v.distance \in [Nodes -> Nat] /\ v.distance[r] = 0
      /\ pred \in [Nodes -> Nodes] /\ pred[r] = r
      /\ \A n \in Nodes : v.distance[n] <= Infinity
    BY DijkstraDone DEF VisitInv
<1>2. \A n \in Nodes \ {r} : v.distance[n] = v.distance[pred[n]] + 1
    BY EveryRouterFound
<1> HIDE DEF v, pred
<1>3. 0 \in S
    <2> DEFINE f == [n \in Nodes |-> n]
    <2>1. ASSUME NEW n \in Nodes, v.distance[n] <= 0 PROVE n = r
        <3>1. SUFFICES ASSUME n # r PROVE FALSE
            OBVIOUS
        <3>2. /\ v.distance[n] = v.distance[pred[n]] + 1
              /\ v.distance[pred[n]] \in Nat
            BY <1>1, <1>2, <3>1
        <3> QED
            BY <2>1, <3>2
    <2>2. Upto(f, 0)
        BY <1>1, <2>1
    <2> QED
        BY <2>2
<1>4. ASSUME NEW k \in S PROVE k + 1 \in S
    <2>1. PICK f : Upto(f, k)
        OBVIOUS
    <2> DEFINE g == [n \in Nodes |-> IF v.distance[n] <= k THEN f[n]
                                     ELSE IF pred[n] = r THEN n ELSE f[pred[n]]]
    <2>2. g \in [Nodes -> Nodes]
        BY <1>1, <2>1
    <2>3. ASSUME NEW n \in Nodes, v.distance[n] <= k + 1, pred[n] # r
          PROVE  v.distance[pred[n]] <= k
        <3>1. n # r
            BY <1>1, <2>3
        <3>2. v.distance[n] = v.distance[pred[n]] + 1 /\ v.distance[pred[n]] \in Nat
            BY <1>1, <1>2, <3>1
        <3> QED
            BY <2>3, <3>2
    <2>4. ASSUME NEW n \in Nodes, v.distance[n] <= k + 1
          PROVE  g[n] = IF pred[n] = r THEN n ELSE g[pred[n]]
        <3>1. CASE pred[n] = r
            BY <2>1, <3>1
        <3>2. CASE pred[n] # r
            <4>1. pred[n] \in Nodes /\ v.distance[pred[n]] <= k
                BY <1>1, <2>3, <2>4, <3>2
            <4>2. g[pred[n]] = f[pred[n]]
                BY <4>1
            <4>3. g[n] = f[pred[n]]
                BY <2>1, <3>2
            <4> QED
                BY <3>2, <4>2, <4>3
        <3> QED
            BY <3>1, <3>2
    <2> HIDE DEF g
    <2>5. Upto(g, k + 1) /\ k + 1 \in Nat
        BY <2>2, <2>4
    <2> QED
        BY <2>5
<1>5. S = Nat
    <2>1. S \in SUBSET Nat
        OBVIOUS
    <2> HIDE DEF S
    <2> QED
        BY <1>3, <1>4, <2>1, AllNumbers
<1>6. PICK f : Upto(f, Infinity)
    BY <1>5
<1>7. f = [n \in Nodes |-> f[n]] /\ \A n \in Nodes : f[n] = IF pred[n] = r THEN n ELSE f[pred[n]]
    BY <1>1, <1>6
<1>8. Back(f, pred, r)
    BY <1>7 DEF Back
<1> QED
    BY <1>8 DEF pred, v

(* Every route begins with a neighbour one link nearer.                    *)
LEMMA RoutesBegin ==
    ASSUME NEW r \in Nodes, NEW ls \in Topologies, NEW f,
           Back(f, Dijkstra(r, ls).predecessor, r)
    PROVE  Begins(f, r, ls)
<1> DEFINE v == Dijkstra(r, ls)
           pred == v.predecessor
           OK(n) == f[n] \in Neighbours(r, ls) /\ n \in Reach(f[n], v.distance[n] - 1, ls)
           S == {k \in Nat : \A n \in Nodes \ {r} : v.distance[n] <= k => OK(n)}
<1>1. v.distance \in [Nodes -> Nat] /\ v.distance[r] = 0
    BY DijkstraDone DEF VisitInv
<1>2. \A n \in Nodes \ {r} : /\ pred[n] \in Nodes /\ n \in Neighbours(pred[n], ls)
                             /\ v.distance[n] = v.distance[pred[n]] + 1
    BY EveryRouterFound
<1>3. \A n \in Nodes : f[n] = IF pred[n] = r THEN n ELSE f[pred[n]]
    BY DEF Back
<1> HIDE DEF v, pred
<1>4. 0 \in S
    <2>1. ASSUME NEW n \in Nodes \ {r} PROVE ~(v.distance[n] <= 0)
        <3>1. /\ v.distance[n] = v.distance[pred[n]] + 1
              /\ v.distance[pred[n]] \in Nat
            BY <1>1, <1>2
        <3> QED
            BY <3>1
    <2> QED
        BY <2>1
<1>5. ASSUME NEW k \in S PROVE k + 1 \in S
    <2>1. ASSUME NEW n \in Nodes \ {r}, v.distance[n] <= k + 1 PROVE OK(n)
        <3> DEFINE m == pred[n]
        <3>1. m \in Nodes /\ n \in Neighbours(m, ls) /\ v.distance[n] = v.distance[m] + 1
            BY <1>2
        <3>2. v.distance[m] \in Nat /\ v.distance[n] - 1 = v.distance[m]
            BY <1>1, <3>1
        <3>3. CASE m = r
            <4>1. f[n] = n
                BY <1>3, <3>3
            <4>2. v.distance[n] - 1 = 0
                BY <1>1, <3>2, <3>3
            <4>3. Reach(n, 0, ls) = {n}
                BY ReachMore
            <4>4. n \in Neighbours(r, ls)
                BY <3>1, <3>3
            <4> QED
                BY <4>1, <4>2, <4>3, <4>4
        <3>4. CASE m # r
            <4>1. f[n] = f[m]
                BY <1>3, <3>4
            <4>2. v.distance[m] <= k
                BY <2>1, <3>1, <3>2
            <4>3. f[m] \in Neighbours(r, ls) /\ m \in Reach(f[m], v.distance[m] - 1, ls)
                BY <3>1, <3>4, <4>2
            <4>4. v.distance[m] - 1 \in Nat /\ (v.distance[m] - 1) + 1 = v.distance[m]
                <5>1. /\ v.distance[m] = v.distance[pred[m]] + 1
                      /\ v.distance[pred[m]] \in Nat
                    BY <1>1, <1>2, <3>1, <3>4
                <5> QED
                    BY <5>1
            <4>5. f[m] \in Nodes
                BY <4>3 DEF Neighbours
            <4> HIDE DEF m
            <4>6. n \in Reach(f[m], (v.distance[m] - 1) + 1, ls)
                BY <3>1, <4>3, <4>4, <4>5, ReachNeighbour
            <4> QED
                BY <3>2, <4>1, <4>3, <4>4, <4>6
        <3> QED
            BY <3>3, <3>4
    <2> HIDE DEF OK
    <2>2. k + 1 \in Nat
        OBVIOUS
    <2> QED
        BY <2>1, <2>2
<1>6. S = Nat
    <2>1. S \in SUBSET Nat
        OBVIOUS
    <2> HIDE DEF S
    <2> QED
        BY <1>4, <1>5, <2>1, AllNumbers
<1>7. ASSUME NEW n \in Nodes \ {r} PROVE OK(n)
    <2>1. v.distance[n] \in S /\ v.distance[n] <= v.distance[n]
        BY <1>1, <1>6
    <2> QED
        BY <2>1
<1> QED
    BY <1>7 DEF Begins, v

(* LinksTo is the least number of links that lead there.                   *)
LEMMA LinksToLeast ==
    ASSUME NEW r \in Nodes, NEW d \in Nodes, NEW ls \in Topologies
    PROVE  /\ LinksTo(r, d, ls) \in 0..N
           /\ d \in Reach(r, LinksTo(r, d, ls), ls)
           /\ \A k \in Nat : d \in Reach(r, k, ls) => LinksTo(r, d, ls) <= k
           /\ LinksTo(r, d, ls) = 0 <=> r = d
<1> DEFINE S == {k \in 0..N : d \in Reach(r, k, ls)}
<1>1. S \in SUBSET Nat /\ N \in S
    BY TopologiesConnected
<1>2. LinksTo(r, d, ls) = Min(S)
    BY DEF LinksTo
<1>3. Min(S) \in S /\ \A x \in S : Min(S) <= x
    <2> HIDE DEF S
    <2> QED
        BY <1>1, LeastIsOne
<1>4. ASSUME NEW k \in Nat, d \in Reach(r, k, ls)
      PROVE  Min(S) <= k
    <2>1. CASE k \in 0..N
        BY <1>3, <1>4, <2>1
    <2>2. CASE k \notin 0..N
        <3>1. Min(S) \in 0..N /\ N < k
            BY <1>3, <2>2
        <3> HIDE DEF S
        <3> QED
            BY <3>1
    <2> QED
        BY <2>1, <2>2
<1>5. Reach(r, 0, ls) = {r}
    BY ReachMore
<1>6. Min(S) = 0 <=> r = d
    <2>1. CASE r = d
        <3>1. 0 \in S
            BY <1>5, <2>1
        <3>2. Min(S) <= 0 /\ Min(S) \in 0..N
            BY <1>3, <3>1
        <3> HIDE DEF S
        <3> QED
            BY <2>1, <3>2
    <2>2. CASE r # d
        BY <1>3, <1>5, <2>2
    <2> QED
        BY <2>1, <2>2
<1> QED
    BY <1>2, <1>3, <1>4, <1>6

(* A router's table is right: it names neighbours one link nearer.         *)
TableRight(t, r, ls) ==
    /\ t \in [Nodes \ {r} -> Neighbours(r, ls)]
    /\ \A d \in Nodes \ {r} : LinksTo(t[d], d, ls) = LinksTo(r, d, ls) - 1

(* The distances of Dijkstra's algorithm are those.                        *)
LEMMA DistanceIsLinksTo ==
    ASSUME NEW r \in Nodes, NEW ls \in Topologies, NEW f, Begins(f, r, ls),
           NEW d \in Nodes \ {r}
    PROVE  /\ Dijkstra(r, ls).distance[d] = LinksTo(r, d, ls)
           /\ Dijkstra(r, ls).distance[d] - 1 \in Nat
<1> DEFINE k == Dijkstra(r, ls).distance[d]
<1>1. k - 1 \in Nat /\ k \in Nat
    <2> DEFINE v == Dijkstra(r, ls)
    <2>1. /\ v.distance[d] = v.distance[v.predecessor[d]] + 1
          /\ v.distance[v.predecessor[d]] \in Nat
        BY EveryRouterFound
    <2>3. v.distance \in [Nodes -> Nat]
        BY DijkstraDone DEF VisitInv
    <2> HIDE DEF v
    <2>2. v.distance[d] - 1 \in Nat /\ v.distance[d] \in Nat
        BY <2>1, <2>3
    <2> QED
        BY <2>2 DEF v
<1>2. LinksTo(r, d, ls) \in 0..N /\ d \in Reach(r, LinksTo(r, d, ls), ls)
    BY LinksToLeast
<1>3. k <= LinksTo(r, d, ls)
    <2>1. LinksTo(r, d, ls) \in Nat
        BY <1>2
    <2> QED
        BY <1>2, <2>1, DistanceLeast
<1>4. f[d] \in Neighbours(r, ls) /\ d \in Reach(f[d], k - 1, ls)
    BY DEF Begins
<1> HIDE DEF k
<1>5. k \in Nat /\ (k - 1) + 1 = k
    BY <1>1
<1>6. d \in Reach(r, k, ls)
    <2>1. Reach(f[d], k - 1, ls) \subseteq Reach(r, (k - 1) + 1, ls)
        BY <1>1, <1>4, ReachFromNeighbour
    <2> QED
        BY <1>4, <1>5, <2>1
<1>7. LinksTo(r, d, ls) <= k
    BY <1>5, <1>6, LinksToLeast
<1>8. k = LinksTo(r, d, ls)
    BY <1>2, <1>3, <1>5, <1>7
<1> QED
    BY <1>1, <1>8 DEF k

(* createTable makes right tables, on any topology that is connected.      *)
LEMMA TableMade ==
    ASSUME NEW r \in Nodes, NEW ls \in Topologies
    PROVE  TableRight(CreateTable(r, ls), r, ls)
<1> DEFINE f == StartRoute(Dijkstra(r, ls).predecessor, r)
           t == CreateTable(r, ls)
<1>1. t = [n \in Nodes \ {r} |-> f[n]]
    BY DEF CreateTable, StartRoute, Back
<1>2. Begins(f, r, ls)
    <2>1. Back(f, Dijkstra(r, ls).predecessor, r)
        BY BackEnds DEF StartRoute
    <2> HIDE DEF f
    <2> QED
        BY <2>1, RoutesBegin
<1> HIDE DEF f, t
<1>3. t \in [Nodes \ {r} -> Neighbours(r, ls)]
    BY <1>1, <1>2 DEF Begins
<1>4. ASSUME NEW d \in Nodes \ {r}
      PROVE  LinksTo(t[d], d, ls) = LinksTo(r, d, ls) - 1
    <2> DEFINE s == t[d]
               k == LinksTo(r, d, ls)
               j == LinksTo(s, d, ls)
    <2>1. s = f[d] /\ s \in Neighbours(r, ls) /\ s \in Nodes
        BY <1>1, <1>3 DEF Neighbours
    <2>2. Dijkstra(r, ls).distance[d] = k /\ k - 1 \in Nat
        BY <1>2, DistanceIsLinksTo
    <2>3. d \in Reach(s, k - 1, ls)
        BY <1>2, <2>1, <2>2 DEF Begins
    <2>4. j \in 0..N /\ d \in Reach(s, j, ls) /\ k \in 0..N
        BY <2>1, LinksToLeast
    <2> HIDE DEF s
    <2>5. j <= k - 1
        BY <2>1, <2>2, <2>3, LinksToLeast
    <2>6. d \in Reach(r, j + 1, ls)
        BY <2>1, <2>4, ReachFromNeighbour
    <2>7. k <= j + 1
        <3>1. j + 1 \in Nat
            BY <2>4
        <3> QED
            BY <2>6, <3>1, LinksToLeast
    <2> HIDE DEF k, j
    <2>8. j = k - 1
        BY <2>2, <2>4, <2>5, <2>7
    <2> QED
        BY <2>8 DEF j, k, s
<1> QED
    BY <1>3, <1>4 DEF TableRight, t

-----------------------------------------------------------------------------
TablesRight ==
    /\ links \in Topologies
    /\ \A r \in Nodes : TableRight(table[r], r, links)

(* Hop, one table more at a time.                                          *)
IsAt(f, r, d, k) ==
    f = [j \in 0..k |-> IF j = 0 THEN r ELSE IF f[j - 1] = d THEN d ELSE table[f[j - 1]][d]]

At(r, d, k) == CHOOSE f : IsAt(f, r, d, k)

(* Hop takes the last of the places a packet is at, link after link.       *)
LEMMA HopIsAt ==
    ASSUME TablesRight, NEW r \in Nodes, NEW d \in Nodes, NEW k \in Nat
    PROVE  /\ Hop(r, d, k) = At(r, d, k)[k]
           /\ IsAt(At(r, d, k), r, d, k)
<1>1. Hop(r, d, k) = At(r, d, k)[k]
    BY DEF Hop, At, IsAt
<1> DEFINE S == Nodes
           step == [x \in S |-> IF x = d THEN d ELSE table[x][d]]
<1>2. step \in [S -> S]
    BY DEF TablesRight, TableRight, Neighbours
<1>3. \E g : Stepwise(g, S, r, step, k)
    <2> HIDE DEF step
    <2> QED
        BY <1>2, StepwiseExists
<1>4. PICK g : Stepwise(g, S, r, step, k)
    BY <1>3
<1>5. g \in [0..k -> S] /\ g = [j \in 0..k |-> IF j = 0 THEN r ELSE step[g[j - 1]]]
    BY <1>4 DEF Stepwise
<1>6. ASSUME NEW j \in 0..k
      PROVE  g[j] = IF j = 0 THEN r ELSE IF g[j - 1] = d THEN d ELSE table[g[j - 1]][d]
    <2>1. CASE j = 0
        BY <1>5, <2>1
    <2>2. CASE j # 0
        <3>1. j - 1 \in 0..k
            BY <2>2
        <3>2. g[j - 1] \in Nodes /\ g[j] = step[g[j - 1]]
            BY <1>5, <2>2, <3>1
        <3> QED
            BY <2>2, <3>2
    <2> QED
        BY <2>1, <2>2
<1>7. IsAt(g, r, d, k)
    <2> HIDE DEF step
    <2>1. g = [j \in 0..k |-> g[j]]
        BY <1>5
    <2> QED
        BY <1>6, <2>1 DEF IsAt
<1> QED
    BY <1>1, <1>7 DEF At

(* A packet goes where the table of the router it has come to says.        *)
LEMMA HopMore ==
    ASSUME TablesRight, NEW r \in Nodes, NEW d \in Nodes, NEW k \in Nat
    PROVE  /\ Hop(r, d, 0) = r
           /\ Hop(r, d, k) \in Nodes
           /\ Hop(r, d, k + 1) = IF Hop(r, d, k) = d THEN d ELSE table[Hop(r, d, k)][d]
<1> DEFINE S == Nodes
           step == [x \in S |-> IF x = d THEN d ELSE table[x][d]]
           f == At(r, d, k)
           g == At(r, d, k + 1)
<1>1. step \in [S -> S]
    BY DEF TablesRight, TableRight, Neighbours
<1>2. Hop(r, d, k) = f[k] /\ Hop(r, d, k + 1) = g[k + 1]
    BY HopIsAt
<1>3. IsAt(f, r, d, k) /\ IsAt(g, r, d, k + 1)
    BY HopIsAt
<1> HIDE DEF f, g
<1>4. f[0] = r /\ g[0] = r
    BY <1>3 DEF IsAt
<1>5. ASSUME NEW j \in 1..k
      PROVE  /\ f[j - 1] \in S => f[j] = step[f[j - 1]]
             /\ g[j - 1] \in S => g[j] = step[g[j - 1]]
    <2>1. j \in 0..k /\ j \in 0..(k + 1) /\ j # 0
        OBVIOUS
    <2>2. /\ f[j] = IF f[j - 1] = d THEN d ELSE table[f[j - 1]][d]
          /\ g[j] = IF g[j - 1] = d THEN d ELSE table[g[j - 1]][d]
        BY <1>3, <2>1 DEF IsAt
    <2> QED
        BY <2>2
<1>6. \A j \in 0..k : f[j] = g[j] /\ f[j] \in S
    <2> HIDE DEF S, step
    <2>1. GoesStepwise(f, S, r, step, k) /\ GoesStepwise(g, S, r, step, k)
        BY <1>4, <1>5 DEF GoesStepwise
    <2>2. r \in S
        BY DEF S
    <2> QED
        BY <1>1, <2>1, <2>2, StepwiseAgree
<1>7. g[k + 1] = IF g[k] = d THEN d ELSE table[g[k]][d]
    <2>1. k + 1 \in 0..(k + 1) /\ k + 1 # 0 /\ (k + 1) - 1 = k
        OBVIOUS
    <2> QED
        BY <1>3, <2>1 DEF IsAt
<1>8. Hop(r, d, 0) = r
    <2>1. IsAt(At(r, d, 0), r, d, 0) /\ Hop(r, d, 0) = At(r, d, 0)[0]
        BY HopIsAt
    <2>2. At(r, d, 0)[0] = r
        <3> DEFINE h == At(r, d, 0)
        <3>1. IsAt(h, r, d, 0)
            BY <2>1
        <3> HIDE DEF h
        <3>2. h[0] = r
            BY <3>1 DEF IsAt
        <3> QED
            BY <3>2 DEF h
    <2> QED
        BY <2>1, <2>2
<1>9. k \in 0..k
    OBVIOUS
<1> QED
    BY <1>2, <1>6, <1>7, <1>8, <1>9

(* Every table brings a packet one link nearer.                            *)
LEMMA HopNearer ==
    ASSUME TablesRight, NEW r \in Nodes, NEW d \in Nodes, NEW k \in 0..LinksTo(r, d, links)
    PROVE  LinksTo(Hop(r, d, k), d, links) = LinksTo(r, d, links) - k
<1> DEFINE D == LinksTo(r, d, links)
           S == {j \in Nat : j <= D => LinksTo(Hop(r, d, j), d, links) = D - j}
<1>1. links \in Topologies /\ D \in Nat
    <2>1. links \in Topologies
        BY DEF TablesRight
    <2>2. D \in 0..N
        BY <2>1, LinksToLeast
    <2> QED
        BY <2>1, <2>2
<1>2. 0 \in S
    <2>1. Hop(r, d, 0) = r
        BY HopMore
    <2> QED
        BY <1>1, <2>1
<1> HIDE DEF D
<1>3. ASSUME NEW j \in S PROVE j + 1 \in S
    <2>1. SUFFICES ASSUME j + 1 <= D
                   PROVE  LinksTo(Hop(r, d, j + 1), d, links) = D - (j + 1)
        OBVIOUS
    <2> DEFINE x == Hop(r, d, j)
    <2>2. LinksTo(x, d, links) = D - j /\ x \in Nodes
        BY <1>1, <2>1, HopMore
    <2>3. D - j # 0
        BY <1>1, <2>1
    <2>4. x # d
        BY <1>1, <2>2, <2>3, LinksToLeast
    <2>5. Hop(r, d, j + 1) = table[x][d]
        BY <2>4, HopMore
    <2> HIDE DEF x
    <2>6. LinksTo(table[x][d], d, links) = LinksTo(x, d, links) - 1
        BY <2>2, <2>4 DEF TablesRight, TableRight
    <2>7. (D - j) - 1 = D - (j + 1)
        BY <1>1
    <2> QED
        BY <2>2, <2>5, <2>6, <2>7
<1>4. S = Nat
    <2>1. S \in SUBSET Nat
        OBVIOUS
    <2> HIDE DEF S
    <2> QED
        BY <1>2, <1>3, <2>1, AllNumbers
<1>5. k \in Nat /\ k <= D
    BY <1>1 DEF D
<1> QED
    BY <1>4, <1>5 DEF D

(* Right tables lead every packet to where it goes over as few links as    *)
(* there can be (recv and getQ, hupsim.pl:150-189).                        *)
LEMMA RoutesRight == TablesRight => RoutesShortest
<1> SUFFICES ASSUME TablesRight, NEW r \in Nodes, NEW d \in Nodes
             PROVE  Hop(r, d, LinksTo(r, d, links)) = d
    BY DEF RoutesShortest
<1> DEFINE D == LinksTo(r, d, links)
<1>1. links \in Topologies
    BY DEF TablesRight
<1>2. D \in 0..N
    BY <1>1, LinksToLeast
<1>3. D \in 0..D /\ D - D = 0 /\ D \in Nat
    BY <1>2
<1>4. LinksTo(Hop(r, d, D), d, links) = 0
    BY <1>3, HopNearer
<1>5. Hop(r, d, D) \in Nodes
    BY <1>3, HopMore
<1> QED
    BY <1>1, <1>4, <1>5, LinksToLeast

-----------------------------------------------------------------------------
(* What a step does to the queues: time passes, a packet is taken from the *)
(* head of one, a packet is given to another.                              *)
Queues == [Nodes -> [Nodes -> Seq(QueueEntry)]]

Aged(new, qs) ==
    \A r, s \in Nodes :
        /\ DOMAIN new[r][s] = DOMAIN qs[r][s]
        /\ Len(new[r][s]) = Len(qs[r][s])
        /\ \A k \in DOMAIN qs[r][s] :
              /\ new[r][s][k].pkt = qs[r][s][k].pkt
              /\ new[r][s][k].left <= qs[r][s][k].left

Others(new, qs, a, b) ==
    \A r, s \in Nodes : r # a \/ s # b => new[r][s] = qs[r][s]

Taken(new, qs, a, b) == new[a][b] = Tail(qs[a][b]) /\ Others(new, qs, a, b)

Queued(new, qs, a, b, m) == new[a][b] = EnQ(qs[a][b], m) /\ Others(new, qs, a, b)

(* Time passes for what is queued, and changes nothing else.               *)
LEMMA LaterAged ==
    ASSUME NetInv, NEW d \in Nat
    PROVE  Later(d) \in Queues /\ Aged(Later(d), queue)
<1> SUFFICES ASSUME NEW r \in Nodes, NEW s \in Nodes
             PROVE  /\ DOMAIN Later(d)[r][s] = DOMAIN queue[r][s]
                    /\ Len(Later(d)[r][s]) = Len(queue[r][s])
                    /\ \A k \in DOMAIN queue[r][s] :
                          /\ Later(d)[r][s][k].pkt = queue[r][s][k].pkt
                          /\ Later(d)[r][s][k].left <= queue[r][s][k].left
    BY LaterType DEF Queues, Aged
<1> DEFINE q == queue[r][s]
           new == Later(d)[r][s]
<1>1. new = [k \in DOMAIN q |-> [q[k] EXCEPT !.left = Max({0, @ - d})]]
    BY DEF Later
<1>2. q \in Seq(QueueEntry) /\ new \in Seq(QueueEntry)
    BY LaterType DEF NetInv
<1> HIDE DEF q, new
<1>3. DOMAIN new = DOMAIN q
    BY <1>1
<1>4. Len(new) = Len(q)
    BY <1>2, <1>3, LenProperties
<1>5. ASSUME NEW k \in DOMAIN q
      PROVE  new[k].pkt = q[k].pkt /\ new[k].left <= q[k].left
    <2>1. q[k] \in QueueEntry
        BY <1>2, LenProperties, ElementOfSeq
    <2>2. \A x \in Nat : Max({0, x - d}) <= x
        <3>1. ASSUME NEW x \in Nat PROVE Max({0, x - d}) = IF x - d > 0 THEN x - d ELSE 0
            BY DEF Max
        <3> QED
            BY <3>1
    <2>3. new[k] = [q[k] EXCEPT !.left = Max({0, @ - d})]
        BY <1>1
    <2> QED
        BY <2>1, <2>2, <2>3 DEF QueueEntry
<1> QED
    BY <1>3, <1>4, <1>5 DEF q, new

(* A packet queued where the table says is in a queue there.               *)
LEMMA QueuedThere ==
    ASSUME NEW qs \in Queues, NEW a \in Nodes, NEW b \in Nodes, NEW m \in Packet
    PROVE  LET new == [qs EXCEPT ![a][b] = EnQ(@, m)]
           IN  new \in Queues /\ Queued(new, qs, a, b, m)
<1>1. EnQ(qs[a][b], m) \in Seq(QueueEntry)
    BY EnQType DEF Queues
<1> QED
    BY <1>1 DEF Queues, Queued, Others

(* What arrives is queued at its router, after some time has passed.       *)
ArrivesIn(qs, f) ==
    LET m == [flow |-> f, num |-> sent[f] + 1]
    IN  /\ m \in Packet /\ f[1] \in Nodes /\ table[f[1]][f[2]] \in Nodes
        /\ qs \in Queues /\ Aged(qs, queue)
        /\ queue' \in Queues /\ Queued(queue', qs, f[1], table[f[1]][f[2]], m)

(* main reads a packet and has its router queue it (hupsim.pl:404-434).    *)
LEMMA ArriveQueues ==
    ASSUME NetInv, TablesRight, NEW f \in Flows, Arrive(f)
    PROVE  \E qs : ArrivesIn(qs, f)
<1> DEFINE m == [flow |-> f, num |-> sent[f] + 1]
           a == f[1]
           b == table[f[1]][f[2]]
<1>1. PICK d \in 0..(IF sleep = Forever THEN 0 ELSE sleep) :
          queue' = [Later(d) EXCEPT ![f[1]][table[f[1]][f[2]]] =
                       EnQ(@, [flow |-> f, num |-> sent[f] + 1])]
    BY DEF Arrive
<1>2. d \in Nat
    BY DEF NetInv
<1>3. m \in Packet
    BY SMTT(30) DEF Arrive, NetInv, Packet
<1>4. a \in Nodes /\ b \in Nodes
    BY DEF TablesRight, TableRight, Neighbours
<1> DEFINE qs == Later(d)
<1>5. qs \in Queues /\ Aged(qs, queue)
    BY <1>2, LaterAged
<1>6. queue' = [qs EXCEPT ![a][b] = EnQ(@, m)]
    BY <1>1
<1>7. queue' \in Queues /\ Queued(queue', qs, a, b, m)
    <2> HIDE DEF qs, a, b, m
    <2> QED
        BY <1>3, <1>4, <1>5, <1>6, QueuedThere
<1>8. ArrivesIn(qs, f)
    <2> HIDE DEF qs
    <2> QED
        BY <1>3, <1>4, <1>5, <1>7 DEF ArrivesIn
<1> QED
    BY <1>8

(* After a timeout the queues hold what they held.                         *)
LEMMA WakeQueues ==
    ASSUME NetInv, Wake
    PROVE  queue' \in Queues /\ Aged(queue', queue)
<1>1. PICK d \in sleep..(sleep + MaxLate) : queue' = Later(d)
    BY DEF Wake
<1>2. d \in Nat
    BY DEF NetInv, Wake
<1> QED
    BY <1>1, <1>2, LaterAged

(* The packet handed on is the first of its queue; the router at the other *)
(* end keeps it or queues it.                                              *)
HandedOn(qs, r, s, m) ==
    /\ r \in Nodes /\ s \in Nodes /\ m \in Packet
    /\ queue[r][s] # <<>> /\ m = queue[r][s][1].pkt
    /\ qs \in Queues /\ Taken(qs, queue, r, s)
    /\ queue' \in Queues
    /\ \/ /\ m.flow[2] = s /\ queue' = qs
          /\ last' = [last EXCEPT ![m.flow] = m.num]
       \/ /\ m.flow[2] # s /\ last' = last
          /\ table[s][m.flow[2]] \in Nodes
          /\ Queued(queue', qs, s, table[s][m.flow[2]], m)

(* run takes a packet that is due and has the next router receive it       *)
(* (hupsim.pl:199-214).                                                    *)
LEMMA ForwardQueues ==
    ASSUME NetInv, TablesRight, Forward
    PROVE  \E qs, r, s, m : HandedOn(qs, r, s, m)
<1> DEFINE r == Head(agenda)
           s == Min(Due(r))
           m == Head(queue[r][s]).pkt
           qs == [queue EXCEPT ![r][s] = Tail(@)]
<1>1. r \in Nodes
    <2>1. agenda \in Seq(Nodes) /\ agenda # <<>>
        BY DEF NetInv, Forward
    <2> QED
        BY <2>1, HeadTailProperties
<1>2. s \in Nodes /\ queue[r][s] # <<>>
    <2>1. Due(r) \in SUBSET Nat
        BY DEF Due, Nodes
    <2>2. Due(r) # {}
        BY DEF Forward
    <2>3. s \in Due(r)
        BY <2>1, <2>2, LeastIsOne
    <2> QED
        BY <2>3 DEF Due
<1>3. queue[r][s] \in Seq(QueueEntry)
    BY <1>1, <1>2 DEF NetInv
<1>4. /\ Tail(queue[r][s]) \in Seq(QueueEntry) /\ m \in Packet
      /\ m = queue[r][s][1].pkt
    <2> DEFINE q == queue[r][s]
    <2>1. q \in Seq(QueueEntry) /\ q # <<>> /\ m = Head(q).pkt
        BY <1>2, <1>3
    <2> HIDE DEF q, m
    <2>2. Tail(q) \in Seq(QueueEntry) /\ Head(q) \in QueueEntry /\ Head(q) = q[1]
        BY <2>1, HeadTailProperties
    <2>3. m \in Packet
        BY <2>1, <2>2 DEF QueueEntry
    <2> QED
        BY <2>1, <2>2, <2>3 DEF q
<1>5. Recv(s, m, qs, agenda)
    BY DEF Forward
<1>6. qs \in Queues /\ Taken(qs, queue, r, s)
    <2>1. queue \in Queues
        BY DEF NetInv, Queues
    <2> HIDE DEF r, s, m
    <2> QED
        BY <1>1, <1>2, <1>4, <2>1 DEF Queues, Taken, Others
<1> HIDE DEF r, s, m, qs
<1>7. CASE m.flow[2] = s
    <2>1. queue' = qs /\ last' = [last EXCEPT ![m.flow] = m.num]
        BY <1>5, <1>7 DEF Recv
    <2>2. HandedOn(qs, r, s, m)
        BY <1>1, <1>2, <1>4, <1>6, <1>7, <2>1 DEF HandedOn
    <2> QED
        BY <2>2
<1>8. CASE m.flow[2] # s
    <2> DEFINE b == table[s][m.flow[2]]
    <2>1. queue' = [qs EXCEPT ![s][b] = EnQ(@, m)] /\ last' = last
        BY <1>5, <1>8 DEF Recv
    <2>2. b \in Nodes
        <3>1. m.flow[2] \in Nodes
            BY <1>4 DEF Packet
        <3> QED
            BY <1>2, <1>8, <3>1 DEF TablesRight, TableRight, Neighbours
    <2>3. queue' \in Queues /\ Queued(queue', qs, s, b, m)
        <3> HIDE DEF b
        <3> QED
            BY <1>2, <1>4, <1>6, <2>1, <2>2, QueuedThere
    <2>4. HandedOn(qs, r, s, m)
        BY <1>1, <1>2, <1>4, <1>6, <1>8, <2>1, <2>2, <2>3 DEF HandedOn
    <2> QED
        BY <2>4
<1> QED
    BY <1>7, <1>8

(* No queue over its limit, no packet later than a full queue makes it.    *)
Bounded(q) ==
    /\ Len(q) <= QueueMax
    /\ \A k \in DOMAIN q : q[k].left <= Latency + QueueMax

AllBounded(qs) == \A r, s \in Nodes : Bounded(qs[r][s])

NetTyped ==
    /\ TablesRight
    /\ AllBounded(queue)
    /\ pc \in {"listen", "run"}
    /\ sleep \in (1..(Latency + QueueMax)) \cup {Forever}
    /\ sent \in [Flows -> 0..MaxSent]
    /\ last \in [Flows -> 0..MaxSent]

(* Time passing makes no queue longer and no packet later.                 *)
LEMMA AgedBounded ==
    ASSUME NEW qs \in Queues, NEW new \in Queues, Aged(new, qs), AllBounded(qs)
    PROVE  AllBounded(new)
<1> SUFFICES ASSUME NEW r \in Nodes, NEW s \in Nodes PROVE Bounded(new[r][s])
    BY DEF AllBounded
<1> DEFINE q == qs[r][s]
           p == new[r][s]
<1>1. q \in Seq(QueueEntry) /\ p \in Seq(QueueEntry) /\ Bounded(q)
    BY DEF Queues, AllBounded
<1>2. /\ DOMAIN p = DOMAIN q /\ Len(p) = Len(q)
      /\ \A k \in DOMAIN q : p[k].left <= q[k].left
    BY DEF Aged
<1> HIDE DEF p, q
<1>3. ASSUME NEW k \in DOMAIN p PROVE p[k].left <= Latency + QueueMax
    <2>1. p[k] \in QueueEntry /\ q[k] \in QueueEntry
        BY <1>1, <1>2, LenProperties, ElementOfSeq
    <2>2. p[k].left \in Nat /\ q[k].left \in Nat
        BY <2>1 DEF QueueEntry
    <2>3. p[k].left <= q[k].left /\ q[k].left <= Latency + QueueMax
        BY <1>1, <1>2 DEF Bounded
    <2> QED
        BY <2>2, <2>3
<1> QED
    BY <1>1, <1>2, <1>3 DEF Bounded, p

(* Nor does a packet taken from a queue.                                   *)
LEMMA TakenBounded ==
    ASSUME NEW qs \in Queues, NEW new, NEW a \in Nodes, NEW b \in Nodes,
           qs[a][b] # <<>>, Taken(new, qs, a, b), AllBounded(qs)
    PROVE  AllBounded(new)
<1>1. Bounded(Tail(qs[a][b]))
    <2> DEFINE q == qs[a][b]
    <2>1. q \in Seq(QueueEntry) /\ q # <<>> /\ Bounded(q)
        BY DEF Queues, AllBounded
    <2> HIDE DEF q
    <2>2. /\ Tail(q) \in Seq(QueueEntry)
          /\ Len(Tail(q)) = Len(q) - 1
          /\ \A k \in 1..Len(Tail(q)) : Tail(q)[k] = q[k + 1]
        BY <2>1, HeadTailProperties
    <2>3. Len(q) \in Nat /\ DOMAIN q = 1..Len(q) /\ DOMAIN Tail(q) = 1..Len(Tail(q))
        BY <2>1, <2>2, LenProperties
    <2>4. \A k \in 1..Len(Tail(q)) : k + 1 \in DOMAIN q
        BY <2>2, <2>3
    <2>5. Bounded(Tail(q))
        BY <2>1, <2>2, <2>3, <2>4 DEF Bounded
    <2> QED
        BY <2>5 DEF q
<1> QED
    BY <1>1 DEF Taken, Others, AllBounded

(* A packet is queued behind the others, unless the queue is full.         *)
Appended(p, q, m) ==
    /\ Len(q) < QueueMax
    /\ Len(p) = Len(q) + 1 /\ DOMAIN p = 1..(Len(q) + 1)
    /\ p[Len(q) + 1].pkt = m /\ p[Len(q) + 1].left = Latency + 1 + Len(q)
    /\ \A k \in 1..Len(q) : p[k] = q[k]

(* enQ appends to a queue that is not full, and to no other.               *)
LEMMA EnQAppends ==
    ASSUME NEW q \in Seq(QueueEntry), NEW m \in Packet
    PROVE  EnQ(q, m) = q \/ Appended(EnQ(q, m), q, m)
<1> DEFINE e == Entry(q, m)
<1>1. Len(q) \in Nat
    BY LenProperties
<1>2. CASE Len(q) >= QueueMax
    <2>1. EnQ(q, m) = q
        BY <1>2, Zenon DEF EnQ
    <2> QED
        BY <2>1
<1>3. CASE ~(Len(q) >= QueueMax)
    <2>1. e \in QueueEntry /\ e.pkt = m /\ e.left = Latency + 1 + Len(q)
        BY <1>1 DEF Entry, QueueEntry
    <2>2. EnQ(q, m) = Append(q, e)
        BY <1>3, Zenon DEF EnQ
    <2> HIDE DEF e
    <2>3. /\ Len(Append(q, e)) = Len(q) + 1
          /\ Append(q, e)[Len(q) + 1] = e
          /\ \A k \in 1..Len(q) : Append(q, e)[k] = q[k]
          /\ DOMAIN Append(q, e) = 1..(Len(q) + 1)
        BY <2>1, AppendProperties, LenProperties
    <2>4. Len(q) < QueueMax
        BY <1>1, <1>3
    <2>5. Appended(Append(q, e), q, m)
        BY <2>1, <2>3, <2>4 DEF Appended
    <2> QED
        BY <2>2, <2>5
<1> QED
    BY <1>2, <1>3

(* A packet is queued at most QueueMax - 1 behind others (enQ).            *)
LEMMA QueuedBounded ==
    ASSUME NEW qs \in Queues, NEW new, NEW a \in Nodes, NEW b \in Nodes, NEW m \in Packet,
           Queued(new, qs, a, b, m), AllBounded(qs)
    PROVE  AllBounded(new)
<1> DEFINE q == qs[a][b]
           p == EnQ(q, m)
<1>1. q \in Seq(QueueEntry) /\ Bounded(q)
    BY DEF Queues, AllBounded
<1> HIDE DEF q
<1>2. p = q \/ Appended(p, q, m)
    BY <1>1, EnQAppends
<1> HIDE DEF p
<1>3. ASSUME Appended(p, q, m) PROVE Bounded(p)
    <2>1. Len(q) \in Nat /\ DOMAIN q = 1..Len(q)
        BY <1>1, LenProperties
    <2>2. Len(p) <= QueueMax
        BY <1>3, <2>1 DEF Appended
    <2>3. ASSUME NEW k \in DOMAIN p PROVE p[k].left <= Latency + QueueMax
        <3>1. CASE k = Len(q) + 1
            BY <1>3, <2>1, <3>1 DEF Appended
        <3>2. CASE k # Len(q) + 1
            <4>1. k \in 1..Len(q) /\ p[k] = q[k]
                BY <1>3, <2>1, <3>2 DEF Appended
            <4> QED
                BY <1>1, <2>1, <4>1 DEF Bounded
        <3> QED
            BY <3>1, <3>2
    <2> QED
        BY <2>2, <2>3 DEF Bounded
<1>4. Bounded(p)
    BY <1>1, <1>2, <1>3
<1> QED
    BY <1>4 DEF p, q, Queued, Others, AllBounded

(* While nothing is due at a router, what it waits for is in time.         *)
LEMMA WaitsBounded ==
    ASSUME NetInv, NetTyped, NEW r \in Nodes, Due(r) = {}
    PROVE  Waits(r) \subseteq 1..(Latency + QueueMax)
<1> SUFFICES ASSUME NEW s \in Nodes, queue[r][s] # <<>>
             PROVE  queue[r][s][1].left \in 1..(Latency + QueueMax)
    BY DEF Waits
<1> DEFINE q == queue[r][s]
<1>1. q \in Seq(QueueEntry) /\ q # <<>> /\ Bounded(q)
    BY DEF NetInv, NetTyped, AllBounded
<1>2. q[1].left # 0
    BY DEF Due
<1> HIDE DEF q
<1>3. 1 \in DOMAIN q /\ q[1] \in QueueEntry
    BY <1>1, LenProperties, EmptySeq, ElementOfSeq
<1>4. q[1].left \in Nat /\ q[1].left <= Latency + QueueMax
    BY <1>1, <1>3 DEF QueueEntry, Bounded
<1>5. q[1].left \in 1..(Latency + QueueMax)
    BY <1>2, <1>4
<1> QED
    BY <1>5 DEF q

(* main: every router's table is right before the first packet comes.      *)
LEMMA InitTyped == Init => NetTyped
<1> SUFFICES ASSUME Init PROVE NetTyped
    OBVIOUS
<1>1. TablesRight
    BY TableMade DEF Init, TablesRight
<1>2. AllBounded(queue)
    <2>1. Len(<<>>) = 0 /\ DOMAIN <<>> = {}
        BY EmptySeq, LenProperties
    <2>2. Bounded(<<>>)
        BY <2>1 DEF Bounded
    <2>3. \A r, s \in Nodes : queue[r][s] = <<>>
        BY DEF Init
    <2> QED
        BY <2>2, <2>3 DEF AllBounded
<1>3. /\ pc = "listen" /\ sleep = Forever
      /\ sent \in [Flows -> 0..MaxSent] /\ last \in [Flows -> 0..MaxSent]
    BY DEF Init
<1> QED
    BY <1>1, <1>2, <1>3 DEF NetTyped

(* Types are kept, along with NetInv, by every action.                     *)
LEMMA StepTyped == NetInv /\ NetTyped /\ [Next]_vars => NetTyped'
<1> SUFFICES ASSUME NetInv, NetTyped, [Next]_vars PROVE NetTyped'
    OBVIOUS
<1>1. queue \in Queues /\ AllBounded(queue) /\ TablesRight
    BY DEF NetInv, NetTyped, Queues
<1>2. links' = links /\ table' = table
    BY DEF Next, Arrive, Wake, Forward, RunDone, vars
<1>3. TablesRight'
    BY <1>1, <1>2 DEF TablesRight
<1>4. ASSUME NEW f \in Flows, Arrive(f) PROVE NetTyped'
    <2>1. PICK qs : ArrivesIn(qs, f)
        BY <1>1, <1>4, ArriveQueues
    <2>2. AllBounded(qs)
        BY <1>1, <2>1, AgedBounded DEF ArrivesIn
    <2>3. AllBounded(queue')
        BY <2>1, <2>2, QueuedBounded DEF ArrivesIn
    <2>4. sent' \in [Flows -> 0..MaxSent]
        BY <1>4 DEF Arrive, NetTyped
    <2>5. pc' = "run" /\ sleep' = Forever /\ last' = last
        BY <1>4 DEF Arrive
    <2> QED
        BY <1>3, <2>3, <2>4, <2>5 DEF NetTyped, AllBounded
<1>5. CASE Wake
    <2>1. queue' \in Queues /\ Aged(queue', queue)
        BY <1>5, WakeQueues
    <2>2. AllBounded(queue')
        BY <1>1, <2>1, AgedBounded
    <2>3. pc' = "run" /\ sleep' = Forever /\ last' = last /\ sent' = sent
        BY <1>5 DEF Wake
    <2> QED
        BY <1>3, <2>2, <2>3 DEF NetTyped, AllBounded
<1>6. CASE Forward
    <2>1. PICK qs, r, s, m : HandedOn(qs, r, s, m)
        BY <1>1, <1>6, ForwardQueues
    <2>2. AllBounded(qs)
        BY <1>1, <2>1, TakenBounded DEF HandedOn
    <2>3. AllBounded(queue')
        <3>1. \/ queue' = qs
              \/ \E d \in Nodes : Queued(queue', qs, s, d, m)
            BY ONLY <2>1 DEF HandedOn
        <3>2. qs \in Queues /\ s \in Nodes /\ m \in Packet
            BY ONLY <2>1 DEF HandedOn
        <3> QED
            BY <2>2, <3>1, <3>2, QueuedBounded
    <2>4. last' \in [Flows -> 0..MaxSent]
        <3>1. m.flow \in Flows /\ m.num \in 0..MaxSent
            <4>1. m \in Packet
                BY <2>1 DEF HandedOn
            <4>2. m.flow \in Flows /\ m.num \in 1..MaxSent
                BY <4>1 DEF Packet
            <4> QED
                BY <4>2
        <3>2. last' = [last EXCEPT ![m.flow] = m.num] \/ last' = last
            BY <2>1 DEF HandedOn
        <3>3. last \in [Flows -> 0..MaxSent]
            BY DEF NetTyped
        <3> QED
            BY <3>1, <3>2, <3>3
    <2>5. pc' = pc /\ sleep' = sleep /\ sent' = sent
        BY <1>6 DEF Forward
    <2> QED
        BY <1>3, <2>3, <2>4, <2>5 DEF NetTyped, AllBounded
<1>7. CASE RunDone
    <2> DEFINE r == Head(agenda)
               waits == Waits(r) \cup ({sleep} \ {Forever})
    <2>1. r \in Nodes /\ Due(r) = {}
        <3>1. agenda \in Seq(Nodes) /\ agenda # <<>>
            BY <1>7 DEF NetInv, RunDone
        <3> QED
            BY <1>7, <3>1, HeadTailProperties DEF RunDone
    <2>2. waits \subseteq 1..(Latency + QueueMax)
        BY <2>1, WaitsBounded DEF NetTyped
    <2>3. /\ queue' = queue /\ sent' = sent /\ last' = last /\ pc' \in {"listen", "run"}
          /\ sleep' = IF waits = {} THEN Forever ELSE Min(waits)
        BY <1>7 DEF RunDone
    <2> HIDE DEF waits
    <2>4. waits # {} => Min(waits) \in waits
        BY <2>2, LeastIsOne
    <2>5. sleep' \in (1..(Latency + QueueMax)) \cup {Forever}
        BY <2>2, <2>3, <2>4
    <2> QED
        BY <1>3, <2>3, <2>5 DEF NetTyped, AllBounded
<1>8. CASE UNCHANGED vars
    BY <1>8 DEF vars, NetTyped, TablesRight, AllBounded
<1> QED
    BY <1>4, <1>5, <1>6, <1>7, <1>8 DEF Next

(* The types of the run follow.                                            *)
LEMMA TypedTypeOK == NetInv /\ NetTyped => TypeOK
<1> SUFFICES ASSUME NetInv, NetTyped PROVE TypeOK
    OBVIOUS
<1>1. /\ links \in Topologies
      /\ \A r \in Nodes : table[r] \in [Nodes \ {r} -> Neighbours(r, links)]
    BY DEF NetTyped, TablesRight, TableRight
<1>2. ASSUME NEW r \in Nodes, NEW s \in Nodes
      PROVE  /\ Len(queue[r][s]) <= QueueMax
             /\ \A k \in DOMAIN queue[r][s] :
                   queue[r][s][k] \in [pkt : Packet, left : 0..(Latency + QueueMax)]
    <2> DEFINE q == queue[r][s]
    <2>1. q \in Seq(QueueEntry) /\ Bounded(q)
        BY DEF NetInv, NetTyped, AllBounded
    <2> HIDE DEF q
    <2>2. ASSUME NEW k \in DOMAIN q
          PROVE  q[k] \in [pkt : Packet, left : 0..(Latency + QueueMax)]
        <3>1. q[k] \in QueueEntry /\ q[k].left <= Latency + QueueMax
            BY <2>1, LenProperties, ElementOfSeq DEF Bounded
        <3> QED
            BY <3>1 DEF QueueEntry
    <2>3. Len(q) <= QueueMax
        BY <2>1 DEF Bounded
    <2> QED
        BY <2>2, <2>3 DEF q
<1> QED
    BY <1>1, <1>2 DEF TypeOK, NetInv, NetTyped

NetTypedInv == NetInv /\ NetTyped

(* So they hold in every state.                                            *)
LEMMA AlwaysTyped == Spec => []NetTypedInv
<1>1. Init => NetTypedInv
    BY InitInv, InitTyped DEF NetTypedInv
<1>2. NetTypedInv /\ [Next]_vars => NetTypedInv'
    BY StepInv, StepTyped DEF NetTypedInv
<1> QED
    BY <1>1, <1>2, PTL DEF Spec

(* Types of the network for any connected topology: every table names      *)
(* neighbours, no queue is over its limit, and no packet waits longer than *)
(* behind a full queue (createTable, enQ and run).                         *)
THEOREM NetworkTypes == Spec => []TypeOK
<1>1. NetTypedInv => TypeOK
    BY TypedTypeOK DEF NetTypedInv
<1> QED
    BY <1>1, AlwaysTyped, PTL

(* The tables that createTable makes by Dijkstra's algorithm lead every    *)
(* packet to its destination, over as few links as the topology allows,    *)
(* on every connected topology of any size.                                *)
THEOREM RoutesAlwaysShortest == Spec => []RoutesShortest
<1>1. NetTypedInv => RoutesShortest
    BY RoutesRight DEF NetTypedInv, NetTyped
<1> QED
    BY <1>1, AlwaysTyped, PTL

-----------------------------------------------------------------------------
(* Where the packets of a flow can be: route[f] are the routers on its way *)
(* and rest[r][f] the links from r to where it goes.                       *)
RouteFacts(route, rest, t) ==
    \A f \in Flows :
        /\ route[f] \subseteq Nodes /\ f[1] \in route[f]
        /\ \A r \in Nodes : rest[r][f] \in Nat /\ (rest[r][f] = 0 <=> r = f[2])
        /\ \A r \in route[f] : rest[r][f] <= rest[f[1]][f]
        /\ \A r, x \in route[f] : rest[r][f] = rest[x][f] => r = x
        /\ \A r \in route[f] : r # f[2] =>
              /\ t[r][f[2]] \in route[f]
              /\ rest[t[r][f[2]]][f] = rest[r][f] - 1

(* Whether k is a place in the queue of r to s, and what is there.         *)
Place(qs, r, s, k) == r \in Nodes /\ s \in Nodes /\ k \in DOMAIN qs[r][s]

Pkt(qs, r, s, k) == qs[r][s][k].pkt

(* A packet nearer to where its flow goes, or before in the same queue.    *)
Ahead(rest, f, r, k, x, j) == rest[r][f] < rest[x][f] \/ (r = x /\ k < j)

(* Packets are on the routes of their flows, and those ahead were sent     *)
(* before; none is as old as the one received last.                        *)
InOrder(qs, snt, lst, route, rest, t) ==
    \A r, s, k : Place(qs, r, s, k) =>
        LET m == Pkt(qs, r, s, k)
        IN  /\ m \in Packet
            /\ r \in route[m.flow] /\ r # m.flow[2] /\ s = t[r][m.flow[2]]
            /\ lst[m.flow] < m.num /\ m.num <= snt[m.flow]
            /\ \A x, y, j : Place(qs, x, y, j) /\ Pkt(qs, x, y, j).flow = m.flow =>
                  (Ahead(rest, m.flow, r, k, x, j) => m.num < Pkt(qs, x, y, j).num)

(* Every place in new is that of the same packet in qs, in the same order. *)
LEMMA AgedOrder ==
    ASSUME NEW qs, NEW new, Aged(new, qs), NEW snt, NEW lst, NEW route, NEW rest, NEW t,
           InOrder(qs, snt, lst, route, rest, t)
    PROVE  InOrder(new, snt, lst, route, rest, t)
<1>1. \A r, s, k : Place(new, r, s, k) => Place(qs, r, s, k) /\ Pkt(new, r, s, k) = Pkt(qs, r, s, k)
    BY DEF Aged, Place, Pkt
<1> QED
    BY <1>1 DEF InOrder

(* Against a packet that comes from router a, having left its queue: what  *)
(* is nearer is older, what is not is newer.                               *)
Between(qs, m, a, rest) ==
    \A x, y, j : Place(qs, x, y, j) /\ Pkt(qs, x, y, j).flow = m.flow =>
        /\ rest[x][m.flow] < rest[a][m.flow] => Pkt(qs, x, y, j).num < m.num
        /\ rest[x][m.flow] >= rest[a][m.flow] => m.num < Pkt(qs, x, y, j).num

(* A place in the queues after the first packet of one of them is taken.   *)
Shift(r, s, a, b, k) == IF r = a /\ s = b THEN k + 1 ELSE k

CameFrom(new, qs, a, b) ==
    \A r, s, k : Place(new, r, s, k) =>
        /\ Place(qs, r, s, Shift(r, s, a, b, k)) /\ k \in Nat \ {0}
        /\ Pkt(new, r, s, k) = Pkt(qs, r, s, Shift(r, s, a, b, k))

WentTo(new, qs, a, b) ==
    \A r, s, k : Place(qs, r, s, k) =>
        \/ r = a /\ s = b /\ k = 1
        \/ /\ r = a /\ s = b /\ Place(new, r, s, k - 1)
           /\ Pkt(new, r, s, k - 1) = Pkt(qs, r, s, k)
        \/ /\ ~(r = a /\ s = b) /\ Place(new, r, s, k)
           /\ Pkt(new, r, s, k) = Pkt(qs, r, s, k)

(* What getQ leaves behind is where it was, one place nearer the head.     *)
LEMMA TakenPlaces ==
    ASSUME NEW qs \in Queues, NEW new, NEW a \in Nodes, NEW b \in Nodes,
           qs[a][b] # <<>>, Taken(new, qs, a, b)
    PROVE  Place(qs, a, b, 1) /\ CameFrom(new, qs, a, b) /\ WentTo(new, qs, a, b)
<1> DEFINE q == qs[a][b]
           p == new[a][b]
<1>1. q \in Seq(QueueEntry) /\ q # <<>> /\ p = Tail(q)
    BY DEF Queues, Taken
<1>2. /\ Len(q) \in Nat \ {0} /\ DOMAIN q = 1..Len(q) /\ DOMAIN p = 1..(Len(q) - 1)
      /\ \A k \in 1..(Len(q) - 1) : p[k] = q[k + 1]
    <2> HIDE DEF p, q
    <2>1. /\ Tail(q) \in Seq(QueueEntry)
          /\ Len(Tail(q)) = Len(q) - 1
          /\ \A k \in 1..Len(Tail(q)) : Tail(q)[k] = q[k + 1]
        BY <1>1, HeadTailProperties
    <2>2. Len(q) \in Nat /\ DOMAIN q = 1..Len(q) /\ DOMAIN Tail(q) = 1..Len(Tail(q))
        BY <1>1, <2>1, LenProperties
    <2>3. Len(q) # 0
        BY <1>1, EmptySeq
    <2> QED
        BY <1>1, <2>1, <2>2, <2>3
<1>3. ASSUME NEW r \in Nodes, NEW s \in Nodes, ~(r = a /\ s = b)
      PROVE  new[r][s] = qs[r][s] /\ DOMAIN qs[r][s] \subseteq Nat \ {0}
    <2>1. new[r][s] = qs[r][s]
        BY <1>3 DEF Taken, Others
    <2>2. qs[r][s] \in Seq(QueueEntry)
        BY DEF Queues
    <2>3. Len(qs[r][s]) \in Nat /\ DOMAIN qs[r][s] = 1..Len(qs[r][s])
        BY <2>2, LenProperties
    <2> QED
        BY <2>1, <2>3
<1>4. Place(qs, a, b, 1)
    BY <1>2 DEF Place
<1>5. ASSUME NEW r, NEW s, NEW k, Place(new, r, s, k)
      PROVE  /\ Place(qs, r, s, Shift(r, s, a, b, k)) /\ k \in Nat \ {0}
             /\ Pkt(new, r, s, k) = Pkt(qs, r, s, Shift(r, s, a, b, k))
    <2>1. CASE r = a /\ s = b
        <3>1. k \in 1..(Len(q) - 1) /\ Shift(r, s, a, b, k) = k + 1
            BY <1>2, <1>5, <2>1 DEF Place, Shift
        <3>2. k + 1 \in DOMAIN q /\ p[k] = q[k + 1] /\ k \in Nat \ {0}
            BY <1>2, <3>1
        <3> QED
            BY <2>1, <3>1, <3>2 DEF Place, Pkt
    <2>2. CASE ~(r = a /\ s = b)
        BY <1>3, <1>5, <2>2 DEF Place, Pkt, Shift
    <2> QED
        BY <2>1, <2>2
<1>6. ASSUME NEW r, NEW s, NEW k, Place(qs, r, s, k)
      PROVE  \/ r = a /\ s = b /\ k = 1
             \/ r = a /\ s = b /\ Place(new, r, s, k - 1)
                   /\ Pkt(new, r, s, k - 1) = Pkt(qs, r, s, k)
             \/ ~(r = a /\ s = b) /\ Place(new, r, s, k)
                   /\ Pkt(new, r, s, k) = Pkt(qs, r, s, k)
    <2>1. CASE r = a /\ s = b /\ k # 1
        <3>1. k \in 1..Len(q)
            BY <1>2, <1>6, <2>1 DEF Place
        <3>2. k - 1 \in 1..(Len(q) - 1) /\ (k - 1) + 1 = k
            BY <1>2, <2>1, <3>1
        <3>3. k - 1 \in DOMAIN p /\ p[k - 1] = q[k]
            BY <1>2, <3>2
        <3> QED
            BY <2>1, <3>3 DEF Place, Pkt
    <2>2. CASE ~(r = a /\ s = b)
        BY <1>3, <1>6, <2>2 DEF Place, Pkt
    <2> QED
        BY <2>1, <2>2
<1> HIDE DEF p, q
<1>7. CameFrom(new, qs, a, b)
    BY <1>5 DEF CameFrom
<1>8. WentTo(new, qs, a, b)
    BY <1>6 DEF WentTo
<1> QED
    BY <1>4, <1>7, <1>8

(* A packet on its route, not yet received.                                *)
FromRoute(m, a, b, snt, lst, route, t) ==
    /\ m \in Packet /\ a \in route[m.flow] /\ a # m.flow[2] /\ b = t[a][m.flow[2]]
    /\ lst[m.flow] < m.num /\ m.num <= snt[m.flow]

(* What a packet leaves behind in order, and how it is to be queued again. *)
LeftInOrder(new, m, a, b, snt, lst, route, rest, t) ==
    /\ InOrder(new, snt, lst, route, rest, t)
    /\ Between(new, m, a, rest)
    /\ FromRoute(m, a, b, snt, lst, route, t)

(* Taking the first packet of a queue leaves the others in order around it.*)
LEMMA TakenOrder ==
    ASSUME NEW qs \in Queues, NEW new, NEW a \in Nodes, NEW b \in Nodes,
           qs[a][b] # <<>>, Taken(new, qs, a, b),
           NEW snt, NEW lst, NEW route, NEW rest, NEW t, RouteFacts(route, rest, t),
           InOrder(qs, snt, lst, route, rest, t), NEW m, m = qs[a][b][1].pkt
    PROVE  LeftInOrder(new, m, a, b, snt, lst, route, rest, t)
<1>1. Place(qs, a, b, 1) /\ Pkt(qs, a, b, 1) = m
    BY TakenPlaces DEF Pkt
<1>2. \A r, s, k : Place(new, r, s, k) =>
          /\ Place(qs, r, s, Shift(r, s, a, b, k)) /\ k \in Nat \ {0}
          /\ Pkt(new, r, s, k) = Pkt(qs, r, s, Shift(r, s, a, b, k))
    <2>1. CameFrom(new, qs, a, b)
        BY TakenPlaces
    <2> QED
        BY <2>1 DEF CameFrom
<1>3. /\ m \in Packet /\ a \in route[m.flow] /\ a # m.flow[2] /\ b = t[a][m.flow[2]]
      /\ lst[m.flow] < m.num /\ m.num <= snt[m.flow]
    BY ONLY <1>1, InOrder(qs, snt, lst, route, rest, t) DEF InOrder
<1>4. ASSUME NEW r, NEW s, NEW k, Place(new, r, s, k),
             NEW x, NEW y, NEW j, Place(new, x, y, j),
             Pkt(new, x, y, j).flow = Pkt(new, r, s, k).flow,
             Ahead(rest, Pkt(new, r, s, k).flow, r, k, x, j)
      PROVE  Pkt(new, r, s, k).num < Pkt(new, x, y, j).num
    <2> DEFINE kk == Shift(r, s, a, b, k)
               jj == Shift(x, y, a, b, j)
               f == Pkt(new, r, s, k).flow
    <2>1. /\ Place(qs, r, s, kk) /\ Pkt(new, r, s, k) = Pkt(qs, r, s, kk)
          /\ Place(qs, x, y, jj) /\ Pkt(new, x, y, j) = Pkt(qs, x, y, jj)
          /\ k \in Nat /\ j \in Nat
        BY <1>2, <1>4
    <2>2. r = x => s = y
        BY <1>4, <2>1 DEF InOrder
    <2>3. Ahead(rest, f, r, kk, x, jj)
        BY <1>4, <2>1, <2>2 DEF Ahead, Shift
    <2> HIDE DEF kk, jj
    <2> QED
        BY <1>4, <2>1, <2>3 DEF InOrder
<1>5. InOrder(new, snt, lst, route, rest, t)
    <2>1. ASSUME NEW r, NEW s, NEW k, Place(new, r, s, k)
          PROVE  LET o == Pkt(new, r, s, k)
                 IN  /\ o \in Packet
                     /\ r \in route[o.flow] /\ r # o.flow[2] /\ s = t[r][o.flow[2]]
                     /\ lst[o.flow] < o.num /\ o.num <= snt[o.flow]
        BY <1>2, <2>1 DEF InOrder
    <2> QED
        BY <1>4, <2>1 DEF InOrder
<1>6. ASSUME NEW x, NEW y, NEW j, Place(new, x, y, j), Pkt(new, x, y, j).flow = m.flow
      PROVE  /\ rest[x][m.flow] < rest[a][m.flow] => Pkt(new, x, y, j).num < m.num
             /\ rest[x][m.flow] >= rest[a][m.flow] => m.num < Pkt(new, x, y, j).num
    <2> DEFINE jj == Shift(x, y, a, b, j)
               o == Pkt(new, x, y, j)
    <2>1. Place(qs, x, y, jj) /\ o = Pkt(qs, x, y, jj) /\ j \in Nat \ {0}
        BY <1>2, <1>6
    <2>2. /\ x \in route[m.flow] /\ a \in route[m.flow]
          /\ y = t[x][m.flow[2]] /\ b = t[a][m.flow[2]] /\ m.flow \in Flows
        <3>1. m.flow \in Flows /\ a \in route[m.flow] /\ b = t[a][m.flow[2]]
            BY <1>3 DEF Packet
        <3>2. x \in route[o.flow] /\ y = t[x][o.flow[2]]
            <4> HIDE DEF o, jj
            <4> QED
                BY <2>1 DEF InOrder
        <3>3. o.flow = m.flow
            BY <1>6
        <3> HIDE DEF o
        <3> QED
            BY <3>1, <3>2, <3>3
    <2>3. rest[x][m.flow] \in Nat /\ rest[a][m.flow] \in Nat
        BY <2>2 DEF RouteFacts
    <2>4. rest[x][m.flow] = rest[a][m.flow] => x = a /\ y = b
        BY <2>2 DEF RouteFacts
    <2>5. x = a /\ y = b => jj = j + 1
        BY DEF Shift
    <2>6. rest[x][m.flow] >= rest[a][m.flow] => Ahead(rest, m.flow, a, 1, x, jj)
        <3>1. CASE rest[x][m.flow] = rest[a][m.flow]
            <4>1. x = a /\ jj = j + 1 /\ 1 < j + 1
                BY <2>1, <2>4, <2>5, <3>1
            <4> QED
                BY <4>1 DEF Ahead
        <3>2. CASE rest[x][m.flow] # rest[a][m.flow]
            BY ONLY <2>3, <3>2 DEF Ahead
        <3> QED
            BY <3>1, <3>2
    <2> HIDE DEF jj
    <2>7. rest[x][m.flow] < rest[a][m.flow] => Ahead(rest, m.flow, x, jj, a, 1)
        BY DEF Ahead
    <2> HIDE DEF o
    <2>8. Pkt(qs, x, y, jj).flow = m.flow
        BY <1>6, <2>1 DEF o
    <2>9. rest[x][m.flow] >= rest[a][m.flow] => m.num < o.num
        BY ONLY <1>1, <2>1, <2>6, <2>8, InOrder(qs, snt, lst, route, rest, t) DEF InOrder
    <2>10. rest[x][m.flow] < rest[a][m.flow] => o.num < m.num
        BY ONLY <1>1, <2>1, <2>7, <2>8, InOrder(qs, snt, lst, route, rest, t) DEF InOrder
    <2> QED
        BY <2>9, <2>10 DEF o
<1>7. Between(new, m, a, rest)
    BY <1>6 DEF Between
<1>8. FromRoute(m, a, b, snt, lst, route, t)
    BY <1>3 DEF FromRoute
<1> QED
    BY <1>5, <1>7, <1>8 DEF LeftInOrder

(* A packet queued is at a place of its own, behind those of its queue.    *)
SamePlaces(new, qs) ==
    \A r, s, k : /\ Place(new, r, s, k) <=> Place(qs, r, s, k)
                 /\ Place(qs, r, s, k) => Pkt(new, r, s, k) = Pkt(qs, r, s, k)

NewPlace(new, qs, a, b, z, m) ==
    /\ \A k : Place(qs, a, b, k) => k < z
    /\ Place(new, a, b, z) /\ Pkt(new, a, b, z) = m
    /\ \A r, s, k : Place(new, r, s, k) => Place(qs, r, s, k) \/ (r = a /\ s = b /\ k = z)
    /\ \A r, s, k : Place(qs, r, s, k) =>
          Place(new, r, s, k) /\ Pkt(new, r, s, k) = Pkt(qs, r, s, k) /\ k \in Nat

(* What enQ appends is at a place of its own; a full queue stays as it is. *)
LEMMA QueuedPlaces ==
    ASSUME NEW qs \in Queues, NEW new, NEW a \in Nodes, NEW b \in Nodes, NEW m \in Packet,
           Queued(new, qs, a, b, m)
    PROVE  SamePlaces(new, qs) \/ \E z \in Nat : NewPlace(new, qs, a, b, z, m)
<1> DEFINE q == qs[a][b]
           p == new[a][b]
           z == Len(q) + 1
<1>1. q \in Seq(QueueEntry) /\ p = EnQ(q, m)
    BY DEF Queues, Queued
<1>2. Len(q) \in Nat /\ DOMAIN q = 1..Len(q)
    <2> HIDE DEF q
    <2> QED
        BY <1>1, LenProperties
<1>3. \A r, s \in Nodes : r # a \/ s # b => new[r][s] = qs[r][s]
    BY DEF Queued, Others
<1>4. CASE p = q
    <2>1. \A r, s \in Nodes : new[r][s] = qs[r][s]
        BY <1>3, <1>4
    <2>2. SamePlaces(new, qs)
        BY <2>1 DEF SamePlaces, Place, Pkt
    <2> QED
        BY <2>2
<1>5. CASE Appended(p, q, m)
    <2>1. /\ DOMAIN p = 1..z /\ p[z].pkt = m
          /\ \A k \in DOMAIN q : p[k] = q[k]
        <3> HIDE DEF p, q
        <3> QED
            BY <1>2, <1>5 DEF Appended
    <2>2. z \in Nat /\ z \in 1..z /\ \A k \in 1..z : k \in DOMAIN q \/ k = z
        BY <1>2
    <2>3. \A k \in DOMAIN q : k < z /\ k \in 1..z /\ k \in Nat
        BY <1>2
    <2> HIDE DEF z
    <2>4. \A k : Place(qs, a, b, k) => k < z
        BY <2>3 DEF Place
    <2>5. Place(new, a, b, z) /\ Pkt(new, a, b, z) = m
        BY <2>1, <2>2 DEF Place, Pkt
    <2>6. ASSUME NEW r, NEW s, NEW k, Place(new, r, s, k)
          PROVE  Place(qs, r, s, k) \/ (r = a /\ s = b /\ k = z)
        <3>1. CASE r = a /\ s = b
            BY <2>1, <2>2, <2>6, <3>1 DEF Place
        <3>2. CASE ~(r = a /\ s = b)
            BY <1>3, <2>6, <3>2 DEF Place
        <3> QED
            BY <3>1, <3>2
    <2>7. ASSUME NEW r, NEW s, NEW k, Place(qs, r, s, k)
          PROVE  Place(new, r, s, k) /\ Pkt(new, r, s, k) = Pkt(qs, r, s, k) /\ k \in Nat
        <3>1. CASE r = a /\ s = b
            BY <2>1, <2>3, <2>7, <3>1 DEF Place, Pkt
        <3>2. CASE ~(r = a /\ s = b)
            <4>1. new[r][s] = qs[r][s] /\ qs[r][s] \in Seq(QueueEntry)
                BY <1>3, <2>7, <3>2 DEF Place, Queues
            <4>2. Len(qs[r][s]) \in Nat /\ DOMAIN qs[r][s] = 1..Len(qs[r][s])
                BY <4>1, LenProperties
            <4> QED
                BY <2>7, <4>1, <4>2 DEF Place, Pkt
        <3> QED
            BY <3>1, <3>2
    <2>8. NewPlace(new, qs, a, b, z, m)
        BY <2>4, <2>5, <2>6, <2>7 DEF NewPlace
    <2> QED
        BY <2>2, <2>8
<1>6. p = q \/ Appended(p, q, m)
    <2> HIDE DEF p, q
    <2> QED
        BY <1>1, EnQAppends
<1> QED
    BY <1>4, <1>5, <1>6

(* Whether m may be queued at a: newer than what is not behind it.         *)
Fits(qs, m, a, rest) ==
    \A x, y, j : Place(qs, x, y, j) /\ Pkt(qs, x, y, j).flow = m.flow =>
        /\ rest[x][m.flow] <= rest[a][m.flow] => Pkt(qs, x, y, j).num < m.num
        /\ rest[x][m.flow] > rest[a][m.flow] => m.num < Pkt(qs, x, y, j).num

(* A packet newer than what is not behind it may be queued.                *)
LEMMA QueuedOrder ==
    ASSUME NEW qs \in Queues, NEW new, NEW a \in Nodes, NEW b \in Nodes, NEW m \in Packet,
           Queued(new, qs, a, b, m),
           NEW snt, NEW lst, NEW route, NEW rest, NEW t, RouteFacts(route, rest, t),
           InOrder(qs, snt, lst, route, rest, t), Fits(qs, m, a, rest),
           a \in route[m.flow], a # m.flow[2], b = t[a][m.flow[2]],
           lst[m.flow] < m.num, m.num <= snt[m.flow]
    PROVE  InOrder(new, snt, lst, route, rest, t)
<1>1. CASE SamePlaces(new, qs)
    BY <1>1 DEF SamePlaces, InOrder
<1>2. ASSUME NEW z \in Nat, NewPlace(new, qs, a, b, z, m)
      PROVE  InOrder(new, snt, lst, route, rest, t)
    <2>1. ASSUME NEW r, NEW s, NEW k, Place(new, r, s, k)
          PROVE  \/ r = a /\ s = b /\ k = z /\ Pkt(new, r, s, k) = m
                 \/ Place(qs, r, s, k) /\ Pkt(new, r, s, k) = Pkt(qs, r, s, k)
        BY <1>2, <2>1 DEF NewPlace
    <2>2. ASSUME NEW r, NEW s, NEW k, Place(new, r, s, k)
          PROVE  LET o == Pkt(new, r, s, k)
                 IN  /\ o \in Packet
                     /\ r \in route[o.flow] /\ r # o.flow[2] /\ s = t[r][o.flow[2]]
                     /\ lst[o.flow] < o.num /\ o.num <= snt[o.flow]
        <3>1. CASE Pkt(new, r, s, k) = m /\ r = a /\ s = b
            BY <3>1
        <3>2. CASE Place(qs, r, s, k) /\ Pkt(new, r, s, k) = Pkt(qs, r, s, k)
            BY <3>2 DEF InOrder
        <3> QED
            BY <2>1, <2>2, <3>1, <3>2
    <2>3. ASSUME NEW r, NEW s, NEW k, Place(new, r, s, k),
                 NEW x, NEW y, NEW j, Place(new, x, y, j),
                 Pkt(new, x, y, j).flow = Pkt(new, r, s, k).flow,
                 Ahead(rest, Pkt(new, r, s, k).flow, r, k, x, j)
          PROVE  Pkt(new, r, s, k).num < Pkt(new, x, y, j).num
        <3> DEFINE f == Pkt(new, r, s, k).flow
        <3>1. f \in Flows /\ r \in Nodes /\ x \in Nodes
            BY <2>2, <2>3 DEF Packet, Place
        <3>2. rest[r][f] \in Nat /\ rest[x][f] \in Nat
            BY <3>1 DEF RouteFacts
        <3>3. CASE /\ Place(qs, r, s, k) /\ Pkt(new, r, s, k) = Pkt(qs, r, s, k)
                   /\ Place(qs, x, y, j) /\ Pkt(new, x, y, j) = Pkt(qs, x, y, j)
            BY <2>3, <3>3 DEF InOrder
        <3>4. CASE /\ r = a /\ s = b /\ k = z /\ Pkt(new, r, s, k) = m
                   /\ Place(qs, x, y, j) /\ Pkt(new, x, y, j) = Pkt(qs, x, y, j)
            <4>1. y = t[x][f[2]]
                BY <2>3, <3>4 DEF InOrder
            <4>2. r = x => y = b
                BY <3>4, <4>1
            <4>3. r = x => ~(k < j)
                <5>1. r = x => j < z /\ j \in Nat
                    BY <1>2, <3>4, <4>2 DEF NewPlace
                <5> QED
                    BY <3>4, <5>1
            <4>4. rest[r][f] < rest[x][f]
                BY <2>3, <4>3 DEF Ahead
            <4>5. rest[x][m.flow] > rest[a][m.flow]
                BY <3>2, <3>4, <4>4
            <4> QED
                BY <2>3, <3>4, <4>5 DEF Fits
        <3>5. CASE /\ Place(qs, r, s, k) /\ Pkt(new, r, s, k) = Pkt(qs, r, s, k)
                   /\ x = a /\ y = b /\ j = z /\ Pkt(new, x, y, j) = m
            <4>1. rest[r][m.flow] <= rest[a][m.flow]
                BY <2>3, <3>2, <3>5 DEF Ahead
            <4> QED
                BY <2>3, <3>5, <4>1 DEF Fits
        <3>6. CASE r = a /\ s = b /\ k = z /\ x = a /\ y = b /\ j = z
            <4>1. FALSE
                BY ONLY <2>3, <3>2, <3>6 DEF Ahead
            <4> QED
                BY <4>1
        <3> QED
            BY <2>1, <2>3, <3>3, <3>4, <3>5, <3>6
    <2> QED
        BY <2>2, <2>3 DEF InOrder
<1> QED
    BY <1>1, <1>2, QueuedPlaces

(* A packet newly sent is newer than any on its way.                       *)
LEMMA ArriveFits ==
    ASSUME NEW qs \in Queues, NEW snt \in [Flows -> Nat], NEW lst \in [Flows -> Nat],
           NEW route, NEW rest, NEW t,
           RouteFacts(route, rest, t), InOrder(qs, snt, lst, route, rest, t),
           NEW f \in Flows, NEW m, m = [flow |-> f, num |-> snt[f] + 1],
           NEW new, new = [snt EXCEPT ![f] = @ + 1]
    PROVE  /\ Fits(qs, m, f[1], rest)
           /\ InOrder(qs, new, lst, route, rest, t)
<1>1. m.flow = f /\ m.num = snt[f] + 1
    OBVIOUS
<1>2. ASSUME NEW x, NEW y, NEW j, Place(qs, x, y, j), Pkt(qs, x, y, j).flow = f
      PROVE  Pkt(qs, x, y, j).num < m.num /\ ~(rest[x][f] > rest[f[1]][f])
    <2> DEFINE o == Pkt(qs, x, y, j)
    <2>1. o \in Packet /\ o.num <= snt[f] /\ x \in route[f]
        BY <1>2 DEF InOrder
    <2>2. o.num \in Nat /\ snt[f] \in Nat
        BY <2>1 DEF Packet
    <2> HIDE DEF o
    <2>3. o.num < m.num
        BY <1>1, <2>1, <2>2
    <2>4. rest[x][f] <= rest[f[1]][f] /\ rest[x][f] \in Nat /\ rest[f[1]][f] \in Nat
        BY <2>1 DEF RouteFacts
    <2> QED
        BY <2>3, <2>4 DEF o
<1>3. Fits(qs, m, f[1], rest)
    BY <1>1, <1>2 DEF Fits
<1>4. ASSUME NEW r, NEW s, NEW k, Place(qs, r, s, k)
      PROVE  Pkt(qs, r, s, k).num <= new[Pkt(qs, r, s, k).flow]
    <2> DEFINE o == Pkt(qs, r, s, k)
    <2>1. o \in Packet /\ o.num <= snt[o.flow]
        BY <1>4 DEF InOrder
    <2>2. o.flow \in Flows /\ o.num \in Nat /\ snt[o.flow] \in Nat
        BY <2>1 DEF Packet
    <2> HIDE DEF o
    <2>3. new[o.flow] = snt[o.flow] \/ new[o.flow] = snt[o.flow] + 1
        BY <2>2
    <2>4. o.num <= new[o.flow]
        BY <2>1, <2>2, <2>3
    <2> QED
        BY <2>4 DEF o
<1>5. InOrder(qs, new, lst, route, rest, t)
    BY <1>4 DEF InOrder
<1> QED
    BY <1>3, <1>5

(* A packet handed on fits at the next router: it is one link nearer than  *)
(* where it comes from.                                                    *)
LEMMA ForwardFits ==
    ASSUME NEW qs \in Queues, NEW route, NEW rest, NEW t, NEW m \in Packet,
           NEW a \in route[m.flow], NEW b, NEW snt, NEW lst,
           a # m.flow[2], b = t[a][m.flow[2]], RouteFacts(route, rest, t),
           InOrder(qs, snt, lst, route, rest, t), Between(qs, m, a, rest)
    PROVE  /\ Fits(qs, m, b, rest) /\ b \in route[m.flow]
           /\ b = m.flow[2] =>
                 \A x, y, j : Place(qs, x, y, j) /\ Pkt(qs, x, y, j).flow = m.flow =>
                    m.num < Pkt(qs, x, y, j).num
<1> DEFINE f == m.flow
<1>1. f \in Flows
    BY DEF Packet
<1>2. b \in route[f] /\ rest[b][f] = rest[a][f] - 1 /\ a \in Nodes /\ b \in Nodes
    BY <1>1 DEF RouteFacts
<1>3. rest[a][f] \in Nat /\ rest[b][f] \in Nat
    BY <1>1, <1>2 DEF RouteFacts
<1>4. ASSUME NEW x, NEW y, NEW j, Place(qs, x, y, j), Pkt(qs, x, y, j).flow = f
      PROVE  /\ rest[x][f] <= rest[b][f] => Pkt(qs, x, y, j).num < m.num
             /\ rest[x][f] > rest[b][f] => m.num < Pkt(qs, x, y, j).num
             /\ b = f[2] => rest[x][f] > rest[b][f]
    <2>1. x \in Nodes /\ x # f[2]
        BY <1>4 DEF InOrder, Place
    <2>2. rest[x][f] \in Nat /\ rest[x][f] # 0
        BY <1>1, <2>1 DEF RouteFacts
    <2>3. /\ rest[x][f] <= rest[b][f] => rest[x][f] < rest[a][f]
          /\ rest[x][f] > rest[b][f] => rest[x][f] >= rest[a][f]
        BY <1>2, <1>3, <2>2
    <2>4. b = f[2] => rest[b][f] = 0
        BY <1>1, <1>2 DEF RouteFacts
    <2>5. b = f[2] => rest[x][f] > rest[b][f]
        BY <2>2, <2>4
    <2> QED
        BY <1>4, <2>3, <2>5 DEF Between
<1> QED
    BY <1>2, <1>4 DEF Fits

(* The packet delivered is older than all that are left of its flow.       *)
LEMMA DeliverOrder ==
    ASSUME NEW qs, NEW snt, NEW lst \in [Flows -> Nat], NEW route, NEW rest, NEW t,
           NEW m \in Packet, InOrder(qs, snt, lst, route, rest, t),
           \A x, y, j : Place(qs, x, y, j) /\ Pkt(qs, x, y, j).flow = m.flow =>
              m.num < Pkt(qs, x, y, j).num,
           NEW new, new = [lst EXCEPT ![m.flow] = m.num]
    PROVE  InOrder(qs, snt, new, route, rest, t)
<1>1. ASSUME NEW r, NEW s, NEW k, Place(qs, r, s, k)
      PROVE  new[Pkt(qs, r, s, k).flow] < Pkt(qs, r, s, k).num
    <2> DEFINE o == Pkt(qs, r, s, k)
    <2>1. o \in Packet /\ lst[o.flow] < o.num
        BY <1>1 DEF InOrder
    <2>2. o.flow \in Flows
        BY <2>1 DEF Packet
    <2>3. o.flow = m.flow => m.num < o.num
        BY <1>1
    <2> HIDE DEF o
    <2>4. new[o.flow] < o.num
        BY <2>1, <2>2, <2>3
    <2> QED
        BY <2>4 DEF o
<1> QED
    BY <1>1 DEF InOrder

-----------------------------------------------------------------------------
(* The routes that the tables make, and what is left of them.              *)
RestOf == [r \in Nodes |-> [f \in Flows |-> LinksTo(r, f[2], links)]]

OnRoute(f, r) ==
    /\ RestOf[r][f] <= RestOf[f[1]][f]
    /\ r = Hop(f[1], f[2], RestOf[f[1]][f] - RestOf[r][f])

Route == [f \in Flows |-> {r \in Nodes : OnRoute(f, r)}]

(* Right tables make such routes: each link brings a packet one nearer.    *)
LEMMA RoutesGood == TablesRight => RouteFacts(Route, RestOf, table)
<1> SUFFICES ASSUME TablesRight, NEW f \in Flows
             PROVE  /\ Route[f] \subseteq Nodes /\ f[1] \in Route[f]
                    /\ \A r \in Nodes : RestOf[r][f] \in Nat /\ (RestOf[r][f] = 0 <=> r = f[2])
                    /\ \A r \in Route[f] : RestOf[r][f] <= RestOf[f[1]][f]
                    /\ \A r, x \in Route[f] : RestOf[r][f] = RestOf[x][f] => r = x
                    /\ \A r \in Route[f] : r # f[2] =>
                          /\ table[r][f[2]] \in Route[f]
                          /\ RestOf[table[r][f[2]]][f] = RestOf[r][f] - 1
    BY DEF RouteFacts
<1> DEFINE d == f[2]
           D == LinksTo(f[1], d, links)
<1>1. /\ f[1] \in Nodes /\ d \in Nodes /\ links \in Topologies
      /\ \A r \in Nodes : RestOf[r][f] = LinksTo(r, d, links)
    BY DEF TablesRight, RestOf
<1>2. \A r \in Nodes : RestOf[r][f] \in Nat /\ (RestOf[r][f] = 0 <=> r = d)
    <2>1. ASSUME NEW r \in Nodes
          PROVE  LinksTo(r, d, links) \in Nat /\ (LinksTo(r, d, links) = 0 <=> r = d)
        <3>1. LinksTo(r, d, links) \in 0..N /\ (LinksTo(r, d, links) = 0 <=> r = d)
            BY <1>1, LinksToLeast
        <3> QED
            BY <3>1
    <2> QED
        BY <1>1, <2>1
<1>3. \A r : r \in Route[f] <=> /\ r \in Nodes /\ RestOf[r][f] <= RestOf[f[1]][f]
                                /\ r = Hop(f[1], d, RestOf[f[1]][f] - RestOf[r][f])
    BY DEF Route, OnRoute
<1>4. f[1] \in Route[f]
    <2>1. RestOf[f[1]][f] - RestOf[f[1]][f] = 0 /\ RestOf[f[1]][f] <= RestOf[f[1]][f]
        BY <1>1, <1>2
    <2>2. Hop(f[1], d, 0) = f[1]
        BY <1>1, HopMore
    <2> QED
        BY <1>1, <1>3, <2>1, <2>2
<1>5. ASSUME NEW r \in Route[f], r # d
      PROVE  table[r][d] \in Route[f] /\ RestOf[table[r][d]][f] = RestOf[r][f] - 1
    <2> DEFINE s == table[r][d]
               k == RestOf[f[1]][f] - RestOf[r][f]
    <2>1. r \in Nodes /\ r = Hop(f[1], d, k) /\ RestOf[r][f] <= RestOf[f[1]][f]
        BY <1>3
    <2>2. s \in Nodes /\ LinksTo(s, d, links) = LinksTo(r, d, links) - 1
        BY <1>1, <1>5, <2>1 DEF TablesRight, TableRight, Neighbours
    <2>3. RestOf[s][f] = RestOf[r][f] - 1
        BY <1>1, <2>1, <2>2
    <2>4. /\ k \in Nat /\ k + 1 = RestOf[f[1]][f] - RestOf[s][f]
          /\ RestOf[s][f] <= RestOf[f[1]][f]
        BY <1>1, <1>2, <2>1, <2>2, <2>3
    <2>5. Hop(f[1], d, k + 1) = IF Hop(f[1], d, k) = d THEN d ELSE table[Hop(f[1], d, k)][d]
        <3> HIDE DEF k, d
        <3> QED
            BY <1>1, <2>4, HopMore
    <2>6. Hop(f[1], d, k + 1) = s
        BY <1>5, <2>1, <2>5
    <2> HIDE DEF s, k
    <2>7. s \in Route[f]
        BY <1>3, <2>2, <2>4, <2>6
    <2> QED
        BY <2>3, <2>7 DEF s
<1>6. \A r, x \in Route[f] : RestOf[r][f] = RestOf[x][f] => r = x
    BY <1>3
<1> QED
    BY <1>2, <1>3, <1>4, <1>5, <1>6

(* Per flow packets are on their way in the order in which they were sent. *)
OrderInv ==
    /\ InOrder(queue, sent, last, Route, RestOf, table)
    /\ \A f \in Flows : last[f] <= sent[f]

(* The routes stay: createTable is called before the main loop only.       *)
LEMMA RoutesStay ==
    ASSUME links' = links, table' = table
    PROVE  Route' = Route /\ RestOf' = RestOf
BY DEF Route, RestOf, OnRoute, Hop

(* What is on its way in queues qs.                                        *)
Carried(qs) == [f \in Flows |-> {n \in 1..MaxSent : Holds(qs, f, n)}]

(* A packet is held if it is at a place.                                   *)
LEMMA HoldsPlace ==
    ASSUME NEW qs, NEW f, NEW n
    PROVE  Holds(qs, f, n) <=>
              \E r, s, k : Place(qs, r, s, k) /\ Pkt(qs, r, s, k) = [flow |-> f, num |-> n]
BY DEF Holds, Place, Pkt

(* Time passing loses and makes no packet.                                 *)
LEMMA AgedCarries ==
    ASSUME NEW qs, NEW new, Aged(new, qs)
    PROVE  Carried(new) = Carried(qs)
<1>1. ASSUME NEW f, NEW n PROVE Holds(new, f, n) <=> Holds(qs, f, n)
    <2>1. ASSUME NEW r, NEW s, NEW k
          PROVE  /\ Place(new, r, s, k) <=> Place(qs, r, s, k)
                 /\ Place(new, r, s, k) => Pkt(new, r, s, k) = Pkt(qs, r, s, k)
        BY DEF Place, Pkt, Aged
    <2> QED
        BY <2>1, HoldsPlace
<1> QED
    BY <1>1 DEF Carried

LessOne(new, qs, m) ==
    /\ m.num \in Carried(qs)[m.flow]
    /\ Carried(new) = [Carried(qs) EXCEPT ![m.flow] = @ \ {m.num}]

OneMore(new, qs, m) == Carried(new) = [Carried(qs) EXCEPT ![m.flow] = @ \cup {m.num}]

(* A packet taken from its queue is on its way nowhere else: none is       *)
(* there twice.                                                            *)
LEMMA TakenCarries ==
    ASSUME NEW qs \in Queues, NEW new, NEW a \in Nodes, NEW b \in Nodes,
           qs[a][b] # <<>>, Taken(new, qs, a, b), NEW m \in Packet, m = qs[a][b][1].pkt,
           NEW rest, Between(new, m, a, rest), \A x \in Nodes : rest[x][m.flow] \in Nat
    PROVE  LessOne(new, qs, m)
<1>1. CameFrom(new, qs, a, b) /\ WentTo(new, qs, a, b) /\ Place(qs, a, b, 1)
    BY TakenPlaces
<1>2. /\ Pkt(qs, a, b, 1) = m /\ m.flow \in Flows /\ m.num \in 1..MaxSent
      /\ m = [flow |-> m.flow, num |-> m.num]
    BY DEF Pkt, Packet
<1>3. Holds(qs, m.flow, m.num)
    BY <1>1, <1>2, HoldsPlace
<1>4. ASSUME NEW f \in Flows, NEW n \in 1..MaxSent
      PROVE  Holds(new, f, n) <=> Holds(qs, f, n) /\ ~(f = m.flow /\ n = m.num)
    <2> DEFINE o == [flow |-> f, num |-> n]
    <2>1. ASSUME Holds(new, f, n) PROVE Holds(qs, f, n) /\ ~(f = m.flow /\ n = m.num)
        <3>1. PICK r, s, k : Place(new, r, s, k) /\ Pkt(new, r, s, k) = o
            BY <2>1, HoldsPlace
        <3>2. Holds(qs, f, n)
            BY <1>1, <3>1, HoldsPlace DEF CameFrom
        <3>3. SUFFICES ASSUME f = m.flow, n = m.num PROVE FALSE
            BY <3>2
        <3>4. o.flow = m.flow /\ o.num = n /\ r \in Nodes
            BY <3>1, <3>3 DEF Place
        <3>5. rest[r][m.flow] \in Nat /\ rest[a][m.flow] \in Nat
            BY <3>4
        <3>6. rest[r][m.flow] < rest[a][m.flow] \/ rest[r][m.flow] >= rest[a][m.flow]
            BY ONLY <3>5
        <3>7. n < m.num \/ m.num < n
            <4>1. /\ Place(new, r, s, k) /\ Pkt(new, r, s, k).flow = m.flow
                  /\ Pkt(new, r, s, k).num = n
                BY <3>1, <3>4
            <4>2. /\ rest[r][m.flow] < rest[a][m.flow] => Pkt(new, r, s, k).num < m.num
                  /\ rest[r][m.flow] >= rest[a][m.flow] => m.num < Pkt(new, r, s, k).num
                BY <4>1 DEF Between
            <4> QED
                BY <3>6, <4>1, <4>2
        <3> QED
            BY ONLY <3>3, <3>7, n \in 1..MaxSent
    <2>2. ASSUME Holds(qs, f, n), ~(f = m.flow /\ n = m.num) PROVE Holds(new, f, n)
        <3>1. PICK r, s, k : Place(qs, r, s, k) /\ Pkt(qs, r, s, k) = o
            BY <2>2, HoldsPlace
        <3>2. ~(r = a /\ s = b /\ k = 1)
            <4>1. ~(f = m.flow /\ n = m.num) /\ o.flow = f /\ o.num = n
                BY ONLY <2>2
            <4> QED
                BY ONLY <1>2, <3>1, <4>1
        <3>3. \E j : Place(new, r, s, j) /\ Pkt(new, r, s, j) = o
            BY <1>1, <3>1, <3>2 DEF WentTo
        <3> QED
            BY <3>3, HoldsPlace
    <2> QED
        BY <2>1, <2>2
<1>5. m.num \in Carried(qs)[m.flow]
    BY <1>2, <1>3 DEF Carried
<1>6. ASSUME NEW f \in Flows
      PROVE  Carried(new)[f] = [Carried(qs) EXCEPT ![m.flow] = @ \ {m.num}][f]
    BY ONLY <1>2, <1>4, f \in Flows DEF Carried
<1> QED
    BY <1>5, <1>6 DEF Carried, LessOne

(* A packet queued is one more on its way, unless the queue is full.       *)
LEMMA QueuedCarries ==
    ASSUME NEW qs \in Queues, NEW new, NEW a \in Nodes, NEW b \in Nodes, NEW m \in Packet,
           Queued(new, qs, a, b, m)
    PROVE  \/ Carried(new) = Carried(qs)
           \/ OneMore(new, qs, m)
<1>1. CASE SamePlaces(new, qs)
    <2>1. ASSUME NEW f, NEW n PROVE Holds(new, f, n) <=> Holds(qs, f, n)
        BY <1>1, HoldsPlace DEF SamePlaces
    <2> QED
        BY <2>1 DEF Carried
<1>2. ASSUME NEW z \in Nat, NewPlace(new, qs, a, b, z, m)
      PROVE  OneMore(new, qs, m)
    <2>1. m.flow \in Flows /\ m.num \in 1..MaxSent /\ m = [flow |-> m.flow, num |-> m.num]
        BY DEF Packet
    <2>2. ASSUME NEW f \in Flows, NEW n \in 1..MaxSent
          PROVE  Holds(new, f, n) <=> Holds(qs, f, n) \/ (f = m.flow /\ n = m.num)
        <3> DEFINE o == [flow |-> f, num |-> n]
        <3>1. ASSUME Holds(new, f, n) PROVE Holds(qs, f, n) \/ (f = m.flow /\ n = m.num)
            <4>1. PICK r, s, k : Place(new, r, s, k) /\ Pkt(new, r, s, k) = o
                BY <3>1, HoldsPlace
            <4>2. CASE Place(qs, r, s, k)
                <5>1. Pkt(qs, r, s, k) = o
                    BY <1>2, <4>1, <4>2 DEF NewPlace
                <5> QED
                    BY <4>2, <5>1, HoldsPlace
            <4>3. CASE r = a /\ s = b /\ k = z
                <5>1. m = o
                    BY <1>2, <4>1, <4>3 DEF NewPlace
                <5> QED
                    BY <2>1, <5>1
            <4> QED
                BY <1>2, <4>1, <4>2, <4>3 DEF NewPlace
        <3>2. ASSUME Holds(qs, f, n) PROVE Holds(new, f, n)
            <4>1. PICK r, s, k : Place(qs, r, s, k) /\ Pkt(qs, r, s, k) = o
                BY <3>2, HoldsPlace
            <4>2. Place(new, r, s, k) /\ Pkt(new, r, s, k) = o
                BY <1>2, <4>1 DEF NewPlace
            <4> QED
                BY <4>2, HoldsPlace
        <3>3. ASSUME f = m.flow, n = m.num PROVE Holds(new, f, n)
            <4>1. Place(new, a, b, z) /\ Pkt(new, a, b, z) = o
                BY <1>2, <2>1, <3>3 DEF NewPlace
            <4> QED
                BY <4>1, HoldsPlace
        <3> QED
            BY <3>1, <3>2, <3>3
    <2>3. ASSUME NEW f \in Flows
          PROVE  Carried(new)[f] = [Carried(qs) EXCEPT ![m.flow] = @ \cup {m.num}][f]
        BY <2>1, <2>2 DEF Carried
    <2> QED
        BY <2>3 DEF Carried, OneMore
<1> QED
    BY <1>1, <1>2, QueuedPlaces

NetOrdered == NetTypedInv /\ OrderInv

(* Nothing is on its way before the first packet comes.                    *)
LEMMA InitOrdered == Init => OrderInv
<1> SUFFICES ASSUME Init PROVE OrderInv
    OBVIOUS
<1>1. DOMAIN <<>> = {}
    BY EmptySeq, LenProperties
<1>2. \A r, s, k : ~Place(queue, r, s, k)
    BY <1>1 DEF Init, Place
<1>3. \A f \in Flows : last[f] <= sent[f]
    BY DEF Init
<1> QED
    BY <1>2, <1>3 DEF OrderInv, InOrder

(* What the proofs below need of the invariant.                            *)
LEMMA OrderFacts ==
    ASSUME NetOrdered
    PROVE  /\ NetInv /\ NetTyped /\ TablesRight /\ queue \in Queues
           /\ sent \in [Flows -> Nat] /\ last \in [Flows -> Nat]
           /\ RouteFacts(Route, RestOf, table)
           /\ InOrder(queue, sent, last, Route, RestOf, table)
           /\ \A f \in Flows : last[f] <= sent[f]
<1>1. NetInv /\ NetTyped /\ TablesRight
    BY DEF NetOrdered, NetTypedInv, NetTyped
<1>2. queue \in Queues /\ sent \in [Flows -> Nat] /\ last \in [Flows -> Nat]
    BY <1>1 DEF NetInv, NetTyped, Queues
<1> QED
    BY <1>1, <1>2, RoutesGood DEF NetOrdered, OrderInv

(* A packet that arrives is behind all of its flow.                        *)
LEMMA ArriveOrdered ==
    ASSUME NetOrdered, NEW f \in Flows, Arrive(f)
    PROVE  /\ InOrder(queue', sent', last, Route, RestOf, table)
           /\ Carried(queue') \in {Carried(queue),
                                   [Carried(queue) EXCEPT ![f] = @ \cup {sent[f] + 1}]}
<1> DEFINE m == [flow |-> f, num |-> sent[f] + 1]
           a == f[1]
           b == table[f[1]][f[2]]
<1>1. /\ NetInv /\ TablesRight /\ queue \in Queues
      /\ sent \in [Flows -> Nat] /\ last \in [Flows -> Nat]
      /\ RouteFacts(Route, RestOf, table)
      /\ InOrder(queue, sent, last, Route, RestOf, table)
      /\ last[f] <= sent[f]
    BY OrderFacts
<1>2. PICK qs : ArrivesIn(qs, f)
    BY <1>1, ArriveQueues
<1>3. /\ m \in Packet /\ a \in Nodes /\ b \in Nodes /\ m.flow = f /\ m.num = sent[f] + 1
      /\ qs \in Queues /\ Aged(qs, queue)
      /\ Queued(queue', qs, a, b, m)
    BY <1>2 DEF ArrivesIn
<1>4. InOrder(qs, sent, last, Route, RestOf, table)
    BY <1>1, <1>3, AgedOrder
<1>5. sent' = [sent EXCEPT ![f] = @ + 1]
    BY DEF Arrive
<1>6. Fits(qs, m, a, RestOf) /\ InOrder(qs, sent', last, Route, RestOf, table)
    BY <1>1, <1>3, <1>4, <1>5, ArriveFits
<1>7. a \in Route[f] /\ a # f[2]
    BY <1>1 DEF RouteFacts
<1>8. last[f] < m.num /\ m.num <= sent'[f]
    <2>1. sent[f] \in Nat /\ last[f] \in Nat /\ sent'[f] = sent[f] + 1
        BY <1>1, <1>5
    <2> QED
        BY <1>1, <1>3, <2>1
<1>9. Carried(qs) = Carried(queue)
    BY <1>3, AgedCarries
<1> HIDE DEF m
<1>10. InOrder(queue', sent', last, Route, RestOf, table)
    BY <1>1, <1>3, <1>6, <1>7, <1>8, QueuedOrder
<1>11. \/ Carried(queue') = Carried(qs)
       \/ Carried(queue') = [Carried(qs) EXCEPT ![m.flow] = @ \cup {m.num}]
    <2>1. Carried(queue') = Carried(qs) \/ OneMore(queue', qs, m)
        BY <1>3, QueuedCarries
    <2> QED
        BY <2>1 DEF OneMore
<1> QED
    BY <1>3, <1>9, <1>10, <1>11

(* Nothing but time passes for what is queued.                             *)
LEMMA WakeOrdered ==
    ASSUME NetOrdered, Wake
    PROVE  /\ InOrder(queue', sent, last, Route, RestOf, table)
           /\ Carried(queue') = Carried(queue)
<1>1. NetInv /\ InOrder(queue, sent, last, Route, RestOf, table)
    BY OrderFacts
<1>2. Aged(queue', queue)
    BY <1>1, WakeQueues
<1> QED
    BY <1>1, <1>2, AgedOrder, AgedCarries

(* What becomes of a packet handed on: it is queued again, lost, or        *)
(* delivered, the oldest of its flow.                                      *)
Kept == last' = last /\ Carried(queue') = Carried(queue)

Lost(f) ==
    /\ last' = last
    /\ \E n \in Carried(queue)[f] : Carried(queue') = [Carried(queue) EXCEPT ![f] = @ \ {n}]

Delivered(f) ==
    /\ Carried(queue)[f] # {}
    /\ last' = [last EXCEPT ![f] = Min(Carried(queue)[f])]
    /\ Carried(queue') = [Carried(queue) EXCEPT ![f] = @ \ {Min(Carried(queue)[f])}]

(* Whatever becomes of it, the packets stay in order: routes that join     *)
(* let none overtake another of its flow.                                  *)
LEMMA ForwardOrdered ==
    ASSUME NetOrdered, Forward
    PROVE  /\ InOrder(queue', sent, last', Route, RestOf, table)
           /\ \A f \in Flows : last'[f] <= sent[f]
           /\ Kept \/ \E f \in Flows : Lost(f) \/ Delivered(f)
<1>1. /\ NetInv /\ TablesRight /\ queue \in Queues
      /\ sent \in [Flows -> Nat] /\ last \in [Flows -> Nat]
      /\ RouteFacts(Route, RestOf, table)
      /\ InOrder(queue, sent, last, Route, RestOf, table)
      /\ \A f \in Flows : last[f] <= sent[f]
    BY OrderFacts
<1>2. PICK qs, r, s, m : HandedOn(qs, r, s, m)
    BY <1>1, ForwardQueues
<1>3. /\ r \in Nodes /\ s \in Nodes /\ m \in Packet
      /\ queue[r][s] # <<>> /\ m = queue[r][s][1].pkt
      /\ qs \in Queues /\ Taken(qs, queue, r, s)
    BY <1>2 DEF HandedOn
<1>4. /\ InOrder(qs, sent, last, Route, RestOf, table)
      /\ Between(qs, m, r, RestOf)
      /\ r \in Route[m.flow] /\ r # m.flow[2] /\ s = table[r][m.flow[2]]
      /\ last[m.flow] < m.num /\ m.num <= sent[m.flow]
    <2>1. /\ queue \in Queues /\ r \in Nodes /\ s \in Nodes /\ queue[r][s] # <<>>
          /\ Taken(qs, queue, r, s) /\ m = queue[r][s][1].pkt
          /\ RouteFacts(Route, RestOf, table)
          /\ InOrder(queue, sent, last, Route, RestOf, table)
        BY <1>1, <1>3
    <2>2. LeftInOrder(qs, m, r, s, sent, last, Route, RestOf, table)
        BY <2>1, TakenOrder
    <2> QED
        BY <2>2 DEF LeftInOrder, FromRoute
<1>5. /\ m.flow \in Flows /\ m.num \in Nat
      /\ \A x \in Nodes : RestOf[x][m.flow] \in Nat
    BY SMTT(30), <1>1, <1>3 DEF RouteFacts, Packet
<1>6. /\ m.num \in Carried(queue)[m.flow]
      /\ Carried(qs) = [Carried(queue) EXCEPT ![m.flow] = @ \ {m.num}]
    <2>1. LessOne(qs, queue, m)
        BY <1>1, <1>3, <1>4, <1>5, TakenCarries
    <2> QED
        BY <2>1 DEF LessOne
<1> DEFINE Newer == \A x, y, j : Place(qs, x, y, j) /\ Pkt(qs, x, y, j).flow = m.flow =>
                        m.num < Pkt(qs, x, y, j).num
<1>7. Fits(qs, m, s, RestOf) /\ s \in Route[m.flow] /\ (s = m.flow[2] => Newer)
    <2> HIDE DEF Newer
    <2>1. /\ Fits(qs, m, s, RestOf) /\ s \in Route[m.flow]
          /\ s = m.flow[2] =>
                \A x, y, j : Place(qs, x, y, j) /\ Pkt(qs, x, y, j).flow = m.flow =>
                    m.num < Pkt(qs, x, y, j).num
        BY <1>1, <1>3, <1>4, ForwardFits
    <2> QED
        BY <2>1 DEF Newer
<1>8. CASE m.flow[2] = s
    <2>1. queue' = qs /\ last' = [last EXCEPT ![m.flow] = m.num]
        BY <1>2, <1>8 DEF HandedOn
    <2>2. InOrder(queue', sent, last', Route, RestOf, table)
        BY <1>1, <1>3, <1>4, <1>7, <1>8, <2>1, DeliverOrder
    <2>3. \A f \in Flows : last'[f] <= sent[f]
        BY <1>1, <1>4, <2>1
    <2>4. m.num = Min(Carried(queue)[m.flow])
        <3> DEFINE S == Carried(queue)[m.flow]
        <3>1. S \in SUBSET Nat /\ m.num \in S
            BY <1>5, <1>6 DEF Carried
        <3>2. ASSUME NEW n \in S PROVE m.num <= n
            <4>1. n \in Carried(qs)[m.flow] \/ n = m.num
                BY <1>5, <1>6
            <4>2. CASE n \in Carried(qs)[m.flow]
                <5>1. Holds(qs, m.flow, n) /\ n \in Nat
                    BY <1>5, <4>2 DEF Carried
                <5>2. PICK x, y, j : /\ Place(qs, x, y, j)
                                     /\ Pkt(qs, x, y, j) = [flow |-> m.flow, num |-> n]
                    BY <5>1, HoldsPlace
                <5>3. m.num < n
                    BY <1>7, <1>8, <5>2
                <5> QED
                    BY <1>5, <5>1, <5>3
            <4> QED
                BY <1>5, <4>1, <4>2
        <3>3. Min(S) \in S /\ Min(S) <= m.num
            <4> HIDE DEF S
            <4> QED
                BY <3>1, LeastIsOne
        <3>4. m.num <= Min(S) /\ Min(S) \in Nat
            BY <3>1, <3>2, <3>3
        <3> QED
            BY <1>5, <3>3, <3>4
    <2>5. Delivered(m.flow)
        BY <1>6, <2>1, <2>4 DEF Delivered
    <2> QED
        BY <1>5, <2>2, <2>3, <2>5
<1>9. CASE m.flow[2] # s
    <2> DEFINE b == table[s][m.flow[2]]
    <2>1. last' = last /\ b \in Nodes /\ Queued(queue', qs, s, b, m)
        BY <1>2, <1>9 DEF HandedOn
    <2> HIDE DEF Newer
    <2>2. InOrder(queue', sent, last, Route, RestOf, table)
        BY <1>1, <1>3, <1>4, <1>7, <1>9, <2>1, QueuedOrder
    <2>3. \/ Carried(queue') = Carried(qs)
          \/ Carried(queue') = [Carried(qs) EXCEPT ![m.flow] = @ \cup {m.num}]
        <3>1. Carried(queue') = Carried(qs) \/ OneMore(queue', qs, m)
            BY <1>3, <2>1, QueuedCarries
        <3> QED
            BY <3>1 DEF OneMore
    <2>4. CASE Carried(queue') = Carried(qs)
        <3>1. Lost(m.flow)
            BY <1>6, <2>1, <2>4 DEF Lost
        <3> QED
            BY <1>1, <1>5, <2>1, <2>2, <3>1
    <2>5. CASE Carried(queue') = [Carried(qs) EXCEPT ![m.flow] = @ \cup {m.num}]
        <3> DEFINE C == Carried(queue)
                   f == m.flow
                   n == m.num
        <3>1. DOMAIN C = Flows /\ C = [x \in Flows |-> C[x]] /\ n \in C[f] /\ f \in Flows
            BY <1>5, <1>6 DEF Carried
        <3>2. Carried(queue') = [[C EXCEPT ![f] = @ \ {n}] EXCEPT ![f] = @ \cup {n}]
            BY <1>6, <2>5
        <3> HIDE DEF C, f, n
        <3>3. Carried(queue') = C
            BY <3>1, <3>2
        <3>4. Kept
            BY <2>1, <3>3 DEF Kept, C
        <3> QED
            BY <1>1, <2>1, <2>2, <3>4
    <2> QED
        BY <2>3, <2>4, <2>5
<1> QED
    BY <1>8, <1>9

(* Every action keeps the packets of a flow in order.                      *)
LEMMA StepOrdered == NetOrdered /\ [Next]_vars => NetOrdered'
<1> SUFFICES ASSUME NetOrdered, [Next]_vars PROVE NetOrdered'
    OBVIOUS
<1>1. NetTypedInv'
    BY StepInv, StepTyped DEF NetOrdered, NetTypedInv
<1>2. links' = links /\ table' = table
    BY DEF Next, Arrive, Wake, Forward, RunDone, vars
<1>3. Route' = Route /\ RestOf' = RestOf
    BY <1>2, RoutesStay
<1>4. /\ InOrder(queue, sent, last, Route, RestOf, table)
      /\ \A f \in Flows : last[f] <= sent[f]
      /\ sent \in [Flows -> Nat] /\ last \in [Flows -> Nat]
    BY OrderFacts
<1> SUFFICES /\ InOrder(queue', sent', last', Route, RestOf, table)
             /\ \A f \in Flows : last'[f] <= sent'[f]
    BY <1>1, <1>2, <1>3 DEF NetOrdered, OrderInv
<1>5. ASSUME NEW f \in Flows, Arrive(f)
      PROVE  /\ InOrder(queue', sent', last', Route, RestOf, table)
             /\ \A x \in Flows : last'[x] <= sent'[x]
    <2>1. InOrder(queue', sent', last, Route, RestOf, table)
        BY <1>5, ArriveOrdered
    <2>2. last' = last /\ sent' = [sent EXCEPT ![f] = @ + 1]
        BY <1>5 DEF Arrive
    <2>3. ASSUME NEW x \in Flows PROVE last'[x] <= sent'[x]
        <3>1. last[x] <= sent[x] /\ last[x] \in Nat /\ sent[x] \in Nat
            BY <1>4
        <3>2. sent'[x] = sent[x] \/ sent'[x] = sent[x] + 1
            BY <1>4, <2>2
        <3> QED
            BY <2>2, <3>1, <3>2
    <2> QED
        BY <2>1, <2>2, <2>3
<1>6. CASE Wake
    <2>1. sent' = sent /\ last' = last
        BY <1>6 DEF Wake
    <2> QED
        BY <1>4, <1>6, <2>1, WakeOrdered
<1>7. CASE Forward
    <2>1. sent' = sent
        BY <1>7 DEF Forward
    <2> QED
        BY <1>7, <2>1, ForwardOrdered
<1>8. CASE RunDone
    BY <1>4, <1>8 DEF RunDone
<1>9. CASE UNCHANGED vars
    BY <1>4, <1>9 DEF vars
<1> QED
    BY <1>5, <1>6, <1>7, <1>8, <1>9 DEF Next

(* So they are in order in every state.                                    *)
LEMMA AlwaysOrdered == Spec => []NetOrdered
<1>1. Init => NetOrdered
    BY InitInv, InitTyped, InitOrdered DEF NetOrdered, NetTypedInv
<1> QED
    BY <1>1, StepOrdered, PTL DEF Spec

-----------------------------------------------------------------------------
(* At first nothing is sent, on its way or received.                       *)
LEMMA InitLinks == Init => L!Init
<1> SUFFICES ASSUME Init PROVE L!Init
    OBVIOUS
<1>1. DOMAIN <<>> = {}
    BY EmptySeq, LenProperties
<1>2. ASSUME NEW f \in Flows, NEW n PROVE ~Holds(queue, f, n)
    BY <1>1 DEF Init, Holds
<1>3. Inflight = [f \in Flows |-> {}]
    BY <1>2 DEF Inflight
<1> QED
    BY <1>3 DEF Init, L!Init

(* Every step sends, loses or delivers a packet, or nothing Links sees.    *)
LEMMA StepLinks == NetOrdered /\ [Next]_vars => [L!Next]_L!lvars
<1> SUFFICES ASSUME NetOrdered, [Next]_vars PROVE [L!Next]_L!lvars
    OBVIOUS
<1>1. Inflight = Carried(queue) /\ Inflight' = Carried(queue')
    BY DEF Inflight, Carried, Holds
<1>2. ASSUME NEW f \in Flows, Arrive(f) PROVE L!Send(f)
    <2>1. Inflight' \in {Inflight, [Inflight EXCEPT ![f] = @ \cup {sent[f] + 1}]}
        BY <1>1, <1>2, ArriveOrdered
    <2> QED
        BY <1>2, <2>1 DEF Arrive, L!Send
<1>3. CASE Wake
    <2>1. Inflight' = Inflight
        BY <1>1, <1>3, WakeOrdered
    <2> QED
        BY <1>3, <2>1 DEF Wake, L!lvars
<1>4. CASE Forward
    <2>1. sent' = sent
        BY <1>4 DEF Forward
    <2>2. CASE Kept
        BY <1>1, <2>1, <2>2 DEF Kept, L!lvars
    <2>3. ASSUME NEW f \in Flows, Lost(f) PROVE L!Lose(f)
        BY <1>1, <2>1, <2>3 DEF Lost, L!Lose
    <2>4. ASSUME NEW f \in Flows, Delivered(f) PROVE L!Deliver(f)
        BY <1>1, <2>1, <2>4 DEF Delivered, L!Deliver, L!Min, Min
    <2> QED
        BY <1>4, <2>2, <2>3, <2>4, ForwardOrdered DEF L!Next
<1>5. CASE RunDone
    BY <1>1, <1>5 DEF RunDone, L!lvars
<1>6. CASE UNCHANGED vars
    BY <1>1, <1>6 DEF vars, L!lvars
<1> QED
    BY <1>2, <1>3, <1>4, <1>5, <1>6 DEF Next, L!Next

(* Between two peers the network of queues is a channel that may lose but  *)
(* never reorders or duplicates, for any connected topology, any flows,    *)
(* any queue limit and delays (recv, run, enQ and createTable).            *)
THEOREM NetworkImplementsLinks == Spec => ImplementsLinks
<1> QED
    BY InitLinks, AlwaysOrdered, StepLinks, PTL DEF Spec, ImplementsLinks, L!Spec
=============================================================================
