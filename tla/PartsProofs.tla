----------------------------- MODULE PartsProofs -----------------------------
(***************************************************************************)
(* The two linked lists of a peer, for any heap: the output queue is the   *)
(* sequence of packets that the rest of the model takes it for, with the   *)
(* bytes of each packet accounted for, and a walk over the uploads that    *)
(* deletes some of them misses none.                                       *)
(*                                                                         *)
(* What is kept is that there is a sequence of distinct addresses whose    *)
(* links are the pointers; what is reached by following the pointers is    *)
(* then that sequence (ChainIs).                                           *)
(***************************************************************************)
EXTENDS MCParts, LeastNumber, SequenceTheorems, FiniteSetTheorems, TLAPS

Pointer == Addresses \cup {NULL}

HeapAssumption == NULL \notin Addresses /\ IsFiniteSet(Addresses)

-----------------------------------------------------------------------------
(* Lists in the heap.                                                      *)

(* The addresses of s, each linked to the next, make up the list from p.   *)
LinkedFrom(s, next, p) ==
    /\ s \in Seq(Addresses)
    /\ \A j, k \in DOMAIN s : s[j] = s[k] => j = k
    /\ p = IF s = <<>> THEN NULL ELSE s[1]
    /\ \A k \in DOMAIN s : next[s[k]] = IF k = Len(s) THEN NULL ELSE s[k + 1]

(* A function on 1..n is a sequence of length n.                           *)
LEMMA ListedSeq ==
    ASSUME NEW A, NEW n \in Nat, NEW t \in [1..n -> A]
    PROVE  t \in Seq(A) /\ Len(t) = n
<1>1. t \in Seq(A)
    BY SeqDef
<1>2. Len(t) \in Nat /\ DOMAIN t = 1..Len(t) /\ DOMAIN t = 1..n
    BY <1>1, LenProperties
<1> QED
    BY <1>1, <1>2

(* Distinct addresses are no more than there are addresses.                *)
LEMMA DistinctFit ==
    ASSUME HeapAssumption,
           NEW s \in Seq(Addresses), \A j, k \in DOMAIN s : s[j] = s[k] => j = k
    PROVE  Cardinality(Addresses) \in Nat /\ Len(s) <= Cardinality(Addresses)
<1>1. IsFiniteSet(Addresses) /\ Cardinality(Addresses) \in Nat
    BY FS_CardinalityType DEF HeapAssumption
<1>2. Len(s) \in Nat /\ DOMAIN s = 1..Len(s) /\ s \in [1..Len(s) -> Addresses]
    BY LenProperties
<1>3. s \in Injection(1..Len(s), Addresses)
    BY <1>2 DEF Injection, IsInjective
<1>4. Cardinality(1..Len(s)) <= Cardinality(Addresses)
    BY <1>1, <1>3, FS_Injection
<1>5. Cardinality(1..Len(s)) = IF 1 > Len(s) THEN 0 ELSE Len(s) - 1 + 1
    BY <1>2, FS_Interval
<1> QED
    BY <1>1, <1>2, <1>4, <1>5

(* The recursion of Chain: where n links lead to from p.                   *)
Followed(next, p, n) ==
    CHOOSE at : at = [k \in 0..n |-> IF k = 0 THEN p
                                     ELSE IF at[k - 1] = NULL THEN NULL ELSE next[at[k - 1]]]

(* Following the links of a list comes to its cells in turn, then to NULL. *)
LEMMA FollowedIs ==
    ASSUME HeapAssumption, NEW s, NEW next, NEW p, LinkedFrom(s, next, p),
           NEW n \in Nat, Len(s) <= n
    PROVE  \A k \in 0..n : Followed(next, p, n)[k] = IF k < Len(s) THEN s[k + 1] ELSE NULL
<1> DEFINE L == Len(s)
           Step(f, k) == IF k = 0 THEN p ELSE IF f[k - 1] = NULL THEN NULL ELSE next[f[k - 1]]
           Follows(f) == f = [k \in 0..n |-> Step(f, k)]
           g == [k \in 0..n |-> IF k < L THEN s[k + 1] ELSE NULL]
           at == Followed(next, p, n)
<1>1. /\ s \in Seq(Addresses) /\ L \in Nat /\ DOMAIN s = 1..L
      /\ \A k \in 1..L : s[k] \in Addresses /\ s[k] # NULL
      /\ s = <<>> <=> L = 0
    BY LenProperties, ElementOfSeq, EmptySeq DEF LinkedFrom, HeapAssumption
<1>2. L <= n
    OBVIOUS
<1>3. Follows(g)
    <2>1. ASSUME NEW k \in 0..n PROVE g[k] = Step(g, k)
        <3>1. CASE k = 0
            BY <1>1, <1>2, <2>1, <3>1 DEF LinkedFrom
        <3>2. CASE k # 0 /\ k - 1 < L
            <4>1. k \in 1..L /\ g[k - 1] = s[k] /\ s[k] # NULL
                BY <1>1, <1>2, <2>1, <3>2
            <4>2. next[s[k]] = IF k = L THEN NULL ELSE s[k + 1]
                BY <1>1, <4>1 DEF LinkedFrom
            <4>3. Step(g, k) = next[s[k]]
                BY <3>2, <4>1
            <4>4. g[k] = IF k < L THEN s[k + 1] ELSE NULL
                BY <2>1
            <4>5. k < L <=> k # L
                <5>1. k \in 1..L /\ L \in Nat
                    BY <1>1, <4>1
                <5> HIDE DEF L
                <5> QED
                    BY <5>1
            <4> HIDE DEF g, L, Step
            <4> QED
                BY <4>2, <4>3, <4>4, <4>5
        <3>3. CASE k # 0 /\ ~(k - 1 < L)
            <4>1. g[k - 1] = NULL /\ g[k] = NULL
                BY <1>1, <1>2, <2>1, <3>3
            <4> QED
                BY <3>3, <4>1
        <3> QED
            BY <3>1, <3>2, <3>3
    <2> HIDE DEF Step
    <2> QED
        BY <2>1
<1>4. Follows(at)
    <2>1. at = CHOOSE f : Follows(f)
        BY DEF Followed
    <2> HIDE DEF Follows, g, at
    <2> QED
        BY <1>3, <2>1
<1> HIDE DEF at
<1>5. \A k \in 0..n : at[k] = g[k]
    <2> DEFINE S == {k \in 0..n : at[k] # g[k]}
    <2>1. SUFFICES ASSUME S # {} PROVE FALSE
        OBVIOUS
    <2>2. S \in SUBSET Nat
        OBVIOUS
    <2> DEFINE m == Min(S)
    <2>3. m \in S /\ \A k \in S : m <= k
        <3> HIDE DEF S
        <3> QED
            BY <2>1, <2>2, LeastIsOne
    <2> HIDE DEF m, g
    <2>4. m \in 0..n /\ at[m] # g[m]
        BY <2>3
    <2>5. at[m] = Step(at, m) /\ g[m] = Step(g, m)
        BY <1>3, <1>4, <2>4
    <2>6. m = 0 \/ at[m - 1] = g[m - 1]
        BY <2>3, <2>4
    <2> QED
        BY <2>4, <2>5, <2>6
<1> QED
    BY <1>5 DEF at

(* What Chain makes of it: the list.                                       *)
LEMMA ChainIs ==
    ASSUME HeapAssumption, NEW s, NEW next, NEW p, LinkedFrom(s, next, p),
           NEW n, n = Cardinality(Addresses)
    PROVE  LET at == Followed(next, p, n)
           IN  s = [k \in 1..Cardinality({j \in 0..(n - 1) : at[j] # NULL}) |-> at[k - 1]]
<1> DEFINE L == Len(s)
           at == Followed(next, p, n)
<1>1. /\ s \in Seq(Addresses) /\ L \in Nat /\ s \in [1..L -> Addresses]
      /\ \A k \in 1..L : s[k] # NULL
    BY LenProperties, ElementOfSeq DEF LinkedFrom, HeapAssumption
<1>2. n \in Nat /\ L <= n
    BY DistinctFit DEF LinkedFrom
<1>3. \A k \in 0..n : at[k] = IF k < L THEN s[k + 1] ELSE NULL
    BY <1>2, FollowedIs
<1> HIDE DEF at
<1>4. {j \in 0..(n - 1) : at[j] # NULL} = 0..(L - 1)
    BY <1>1, <1>2, <1>3
<1>5. Cardinality(0..(L - 1)) = L
    <2>1. 0 \in Int /\ L - 1 \in Int
        BY <1>1
    <2> HIDE DEF L
    <2>2. Cardinality(0..(L - 1)) = IF 0 > L - 1 THEN 0 ELSE (L - 1) - 0 + 1
        BY <2>1, FS_Interval
    <2> QED
        BY <1>1, <2>2
<1>6. \A k \in 1..L : at[k - 1] = s[k]
    BY <1>1, <1>2, <1>3
<1> HIDE DEF L
<1>7. s = [k \in 1..Cardinality({j \in 0..(n - 1) : at[j] # NULL}) |-> at[k - 1]]
    BY <1>1, <1>4, <1>5, <1>6
<1> QED
    BY <1>7 DEF at

(* The list from a cell further on is the rest of the list.                *)
LEMMA RestLinked ==
    ASSUME NEW s, NEW next, NEW p, LinkedFrom(s, next, p), NEW j \in DOMAIN s
    PROVE  /\ LinkedFrom(SubSeq(s, j, Len(s)), next, s[j])
           /\ {SubSeq(s, j, Len(s))[k] : k \in DOMAIN SubSeq(s, j, Len(s))}
                 = {s[k] : k \in j..Len(s)}
<1> DEFINE t == SubSeq(s, j, Len(s))
<1>1. /\ s \in Seq(Addresses) /\ Len(s) \in Nat /\ DOMAIN s = 1..Len(s) /\ j \in 1..Len(s)
      /\ \A k \in 1..Len(s) : s[k] \in Addresses
    BY LenProperties, ElementOfSeq DEF LinkedFrom
<1>2. /\ t \in Seq(Addresses) /\ Len(t) = Len(s) - j + 1
      /\ \A k \in 1..(Len(s) - j + 1) : t[k] = s[j + k - 1]
    BY <1>1, SubSeqProperties
<1>3. DOMAIN t = 1..(Len(s) - j + 1) /\ t # <<>>
    BY <1>1, <1>2, LenProperties, EmptySeq
<1> HIDE DEF t
<1>4. ASSUME NEW k \in j..Len(s) PROVE k - j + 1 \in DOMAIN t /\ t[k - j + 1] = s[k]
    <2>1. k - j + 1 \in 1..(Len(s) - j + 1) /\ j + (k - j + 1) - 1 = k
        BY <1>1
    <2> QED
        BY <1>2, <1>3, <2>1
<1>5. ASSUME NEW k \in DOMAIN t PROVE j + k - 1 \in j..Len(s) /\ t[k] = s[j + k - 1]
    <2>1. k \in 1..(Len(s) - j + 1)
        BY <1>3
    <2> QED
        BY <1>1, <1>2, <2>1
<1>6. {t[k] : k \in DOMAIN t} = {s[k] : k \in j..Len(s)}
    <2>1. ASSUME NEW k \in DOMAIN t PROVE t[k] \in {s[l] : l \in j..Len(s)}
        BY <1>5
    <2>2. ASSUME NEW k \in j..Len(s) PROVE s[k] \in {t[l] : l \in DOMAIN t}
        BY <1>4
    <2> QED
        BY <2>1, <2>2
<1>7. \A k, l \in DOMAIN t : t[k] = t[l] => k = l
    <2>1. \A k, l \in j..Len(s) : s[k] = s[l] => k = l
        BY <1>1 DEF LinkedFrom
    <2>2. ASSUME NEW k \in DOMAIN t, NEW l \in DOMAIN t, t[k] = t[l] PROVE k = l
        <3>1. j + k - 1 = j + l - 1
            BY <1>5, <2>1, <2>2
        <3>2. k \in Nat /\ l \in Nat /\ j \in Nat
            BY <1>1, <1>3
        <3> QED
            BY <3>1, <3>2
    <2> QED
        BY <2>2
<1>8. s[j] = t[1]
    BY <1>1, <1>2
<1>9. ASSUME NEW k \in DOMAIN t PROVE next[t[k]] = IF k = Len(t) THEN NULL ELSE t[k + 1]
    <2>1. k \in 1..(Len(s) - j + 1)
        BY <1>3, <1>9
    <2>2. PICK l \in 1..Len(s) : l = j + k - 1 /\ t[k] = s[l]
        BY <1>1, <1>2, <2>1
    <2>3. next[s[l]] = IF l = Len(s) THEN NULL ELSE s[l + 1]
        BY <1>1, <2>2 DEF LinkedFrom
    <2>4. l = Len(s) <=> k = Len(t)
        BY <1>1, <1>2, <2>1, <2>2
    <2>5. k # Len(t) => t[k + 1] = s[l + 1]
        <3>1. k # Len(t) => k + 1 \in 1..(Len(s) - j + 1) /\ j + (k + 1) - 1 = l + 1
            BY <1>1, <1>2, <2>1, <2>2
        <3> QED
            BY SMTT(30), <1>2, <3>1
    <2> QED
        BY <2>2, <2>3, <2>4, <2>5
<1>10. LinkedFrom(t, next, s[j])
    BY <1>2, <1>3, <1>7, <1>8, <1>9 DEF LinkedFrom
<1> QED
    BY <1>6, <1>10 DEF t

-----------------------------------------------------------------------------
(* The list of uploads.                                                    *)
Cell == [peer : Peers, prev : Pointer, next : Pointer]

(* The uploads are those at the addresses of s, linked both ways, of       *)
(* different peers, and the walk going on has those from sender on to see. *)
UploadsAt(s) ==
    /\ LinkedFrom(s, [a \in Addresses |-> cell[a].next], upload)
    /\ live = {s[k] : k \in DOMAIN s}
    /\ \A k \in DOMAIN s : cell[s[k]].prev = IF k = 1 THEN NULL ELSE s[k - 1]
    /\ \A j, k \in DOMAIN s : cell[s[j]].peer = cell[s[k]].peer => j = k
    /\ IF sender = NULL THEN due = {}
       ELSE \E j \in DOMAIN s : /\ sender = s[j]
                                /\ due = {cell[s[k]].peer : k \in j..Len(s)}

UploadsInv == cell \in [Addresses -> Cell] /\ \E s \in Seq(Addresses) : UploadsAt(s)

(* What UploadsAt says of s as a sequence.                                 *)
LEMMA UploadsAre ==
    ASSUME HeapAssumption, UploadsInv, NEW s, UploadsAt(s)
    PROVE  /\ s \in Seq(Addresses) /\ Len(s) \in Nat /\ DOMAIN s = 1..Len(s)
           /\ s \in [1..Len(s) -> Addresses]
           /\ s = <<>> <=> Len(s) = 0
           /\ \A k \in 1..Len(s) : s[k] \in Addresses /\ s[k] # NULL
           /\ \A j, k \in 1..Len(s) : s[j] = s[k] => j = k
           /\ \A k \in 1..Len(s) : cell[s[k]].next = IF k = Len(s) THEN NULL ELSE s[k + 1]
           /\ upload = IF s = <<>> THEN NULL ELSE s[1]
<1>1. LinkedFrom(s, [a \in Addresses |-> cell[a].next], upload)
    BY DEF UploadsAt
<1>2. /\ s \in Seq(Addresses) /\ Len(s) \in Nat /\ DOMAIN s = 1..Len(s)
      /\ s \in [1..Len(s) -> Addresses]
      /\ s = <<>> <=> Len(s) = 0
      /\ \A k \in 1..Len(s) : s[k] \in Addresses /\ s[k] # NULL
    BY <1>1, LenProperties, ElementOfSeq, EmptySeq DEF LinkedFrom, HeapAssumption
<1> QED
    BY <1>1, <1>2 DEF LinkedFrom

(* The peers that a walk from a cell of the list comes to.                 *)
LEMMA PeersAhead ==
    ASSUME HeapAssumption, UploadsInv, NEW s, UploadsAt(s)
    PROVE  /\ Uploads!From(upload) = s
           /\ Uploads!PeersFrom(upload) = {cell[s[k]].peer : k \in DOMAIN s}
           /\ \A j \in DOMAIN s : Uploads!PeersFrom(s[j]) = {cell[s[k]].peer : k \in j..Len(s)}
<1> DEFINE next == [a \in Addresses |-> cell[a].next]
<1>1. LinkedFrom(s, next, upload)
    BY DEF UploadsAt
<1>2. ASSUME NEW t, NEW p, LinkedFrom(t, next, p)
      PROVE  Uploads!From(p) = t
    <2> DEFINE n == Uploads!Cardinality(Addresses)
               at == Followed(next, p, n)
               S == {j \in 0..(n - 1) : at[j] # NULL}
    <2>1. Uploads!From(p) = [k \in 1..Uploads!Cardinality(S) |-> at[k - 1]]
        BY DEF Uploads!From, Uploads!Chain, Followed
    <2>2. n = Cardinality(Addresses) /\ Uploads!Cardinality(S) = Cardinality(S)
        BY DEF Uploads!Cardinality, Cardinality
    <2> HIDE DEF n, next
    <2>3. t = [k \in 1..Cardinality(S) |-> at[k - 1]]
        BY <1>2, <2>2, ChainIs
    <2> HIDE DEF S, at
    <2> QED
        BY <2>1, <2>2, <2>3
<1>3. Uploads!From(upload) = s
    BY <1>1, <1>2
<1>4. ASSUME NEW j \in DOMAIN s
      PROVE  Uploads!PeersFrom(s[j]) = {cell[s[k]].peer : k \in j..Len(s)}
    <2> DEFINE t == SubSeq(s, j, Len(s))
    <2>1. LinkedFrom(t, next, s[j]) /\ {t[k] : k \in DOMAIN t} = {s[k] : k \in j..Len(s)}
        BY <1>1, RestLinked
    <2>2. Uploads!From(s[j]) = t
        BY <1>2, <2>1
    <2> HIDE DEF t
    <2>3. Uploads!PeersFrom(s[j]) = {cell[t[k]].peer : k \in DOMAIN t}
        BY <2>2 DEF Uploads!PeersFrom
    <2>4. {cell[t[k]].peer : k \in DOMAIN t} = {cell[s[k]].peer : k \in j..Len(s)}
        <3>1. {cell[t[k]].peer : k \in DOMAIN t} = {cell[a].peer : a \in {t[k] : k \in DOMAIN t}}
            OBVIOUS
        <3>2. {cell[s[k]].peer : k \in j..Len(s)} = {cell[a].peer : a \in {s[k] : k \in j..Len(s)}}
            OBVIOUS
        <3> QED
            BY <2>1, <3>1, <3>2
    <2> QED
        BY <2>3, <2>4
<1> QED
    BY <1>3, <1>4 DEF Uploads!PeersFrom

-----------------------------------------------------------------------------
(* add_sender_list puts the new sender before the others.                  *)
LEMMA AddKeeps ==
    ASSUME HeapAssumption, UploadsInv, NEW q \in Peers, Uploads!AddSenderList(q)
    PROVE  UploadsInv'
<1>1. PICK s : UploadsAt(s)
    BY DEF UploadsInv
<1> DEFINE n == Len(s)
<1>2. /\ s \in Seq(Addresses) /\ n \in Nat /\ DOMAIN s = 1..n
      /\ s = <<>> <=> n = 0
      /\ \A k \in 1..n : s[k] \in Addresses /\ s[k] # NULL
      /\ \A j, k \in 1..n : s[j] = s[k] => j = k
      /\ \A k \in 1..n : cell[s[k]].next = IF k = n THEN NULL ELSE s[k + 1]
      /\ upload = IF s = <<>> THEN NULL ELSE s[1]
    BY <1>1, UploadsAre
<1>3. /\ live = {s[k] : k \in 1..n}
      /\ \A k \in 1..n : cell[s[k]].prev = IF k = 1 THEN NULL ELSE s[k - 1]
      /\ \A j, k \in 1..n : cell[s[j]].peer = cell[s[k]].peer => j = k
      /\ sender = NULL => due = {}
    BY <1>1, <1>2 DEF UploadsAt
<1>4. sender = NULL /\ q \notin {cell[s[k]].peer : k \in 1..n} /\ sender' = NULL /\ due' = due
    BY <1>1, <1>2, PeersAhead DEF Uploads!AddSenderList, Uploads!Found
<1>5. PICK a \in Addresses \ live :
          /\ live' = live \cup {a}
          /\ upload' = a
          /\ cell' = [b \in Addresses |->
                        IF b = a THEN [peer |-> q, prev |-> NULL, next |-> upload]
                        ELSE IF b = upload THEN [cell[b] EXCEPT !.prev = a]
                        ELSE cell[b]]
    BY DEF Uploads!AddSenderList
<1>6. cell \in [Addresses -> Cell] /\ upload \in Pointer
    <2> HIDE DEF n
    <2>1. n = 0 \/ 1 \in 1..n
        BY <1>2
    <2>2. upload \in Pointer
        BY <1>2, <2>1 DEF Pointer
    <2> QED
        BY <2>2 DEF UploadsInv
<1>7. cell' \in [Addresses -> Cell]
    BY <1>5, <1>6 DEF Cell, Pointer
<1>8. /\ cell'[a] = [peer |-> q, prev |-> NULL, next |-> upload]
      /\ \A b \in Addresses \ {a} :
            /\ cell'[b].peer = cell[b].peer /\ cell'[b].next = cell[b].next
            /\ cell'[b].prev = IF b = upload THEN a ELSE cell[b].prev
    BY <1>5, <1>6 DEF Cell
<1> HIDE DEF n
<1> DEFINE t == [k \in 1..(n + 1) |-> IF k = 1 THEN a ELSE s[k - 1]]
<1>9. /\ t \in Seq(Addresses) /\ Len(t) = n + 1
      /\ \A k \in 1..(n + 1) : t[k] = IF k = 1 THEN a ELSE s[k - 1]
    <2>1. n + 1 \in Nat
        BY <1>2
    <2>2. \A k \in 1..(n + 1) : k # 1 => k - 1 \in 1..n
        BY <1>2
    <2>3. t \in [1..(n + 1) -> Addresses]
        BY <1>2, <1>5, <2>2
    <2>4. \A k \in 1..(n + 1) : t[k] = IF k = 1 THEN a ELSE s[k - 1]
        OBVIOUS
    <2> HIDE DEF t
    <2> QED
        BY <2>1, <2>3, <2>4, ListedSeq
<1> HIDE DEF t
<1>10. DOMAIN t = 1..(n + 1) /\ t # <<>> /\ t[1] = a
    BY <1>2, <1>9, LenProperties, EmptySeq
<1>11. \A k \in 1..(n + 1) : k # 1 => /\ k - 1 \in 1..n /\ t[k] = s[k - 1]
                                      /\ t[k] \in Addresses \ {a}
    BY <1>2, <1>3, <1>5, <1>9
<1>12. \A j, k \in 1..(n + 1) : t[j] = t[k] => j = k
    BY <1>2, <1>10, <1>11
<1>13. \A k \in 1..(n + 1) : cell'[t[k]].next = IF k = n + 1 THEN NULL ELSE t[k + 1]
    <2>1. ASSUME NEW k \in 1..(n + 1), k # 1
          PROVE  cell'[t[k]].next = IF k = n + 1 THEN NULL ELSE t[k + 1]
        <3>1. cell'[t[k]].next = IF k - 1 = n THEN NULL ELSE s[(k - 1) + 1]
            <4>1. PICK l \in 1..n : l = k - 1 /\ t[k] = s[l] /\ t[k] \in Addresses \ {a}
                BY <1>11, <2>1
            <4>2. cell'[t[k]].next = cell[s[l]].next
                BY <1>8, <4>1
            <4> QED
                BY <1>2, <4>1, <4>2
        <3>2. k # n + 1 => k + 1 \in 1..(n + 1) /\ t[k + 1] = s[(k - 1) + 1]
            BY <1>2, <1>9, <2>1
        <3> QED
            BY <1>2, <2>1, <3>1, <3>2
    <2>2. cell'[t[1]].next = IF 1 = n + 1 THEN NULL ELSE t[1 + 1]
        BY <1>2, <1>8, <1>9, <1>10
    <2> QED
        BY <2>1, <2>2
<1>14. \A k \in 1..(n + 1) : cell'[t[k]].prev = IF k = 1 THEN NULL ELSE t[k - 1]
    <2>1. ASSUME NEW k \in 1..(n + 1), k # 1
          PROVE  cell'[t[k]].prev = t[k - 1]
        <3>1. cell'[t[k]].prev = IF s[k - 1] = upload THEN a ELSE cell[s[k - 1]].prev
            BY <1>8, <1>11, <2>1
        <3>2. s[k - 1] = upload <=> k - 1 = 1
            BY <1>2, <1>11, <2>1
        <3>3. CASE k = 2
            BY <1>10, <3>1, <3>2, <3>3
        <3>4. CASE k # 2
            <4>1. k - 1 \in 1..n /\ k - 1 # 1 /\ (k - 1) - 1 \in 1..n
                BY <1>2, <2>1, <3>4
            <4>2. cell'[t[k]].prev = s[(k - 1) - 1]
                BY <1>3, <3>1, <3>2, <4>1
            <4>3. k - 1 \in 1..(n + 1)
                BY <1>2, <4>1
            <4> QED
                BY <1>11, <4>1, <4>2, <4>3
        <3> QED
            BY <3>3, <3>4
    <2>2. cell'[t[1]].prev = NULL
        BY <1>8, <1>10
    <2> QED
        BY <2>1, <2>2
<1>15. \A j, k \in 1..(n + 1) : cell'[t[j]].peer = cell'[t[k]].peer => j = k
    <2>1. cell'[t[1]].peer = q
        BY <1>8, <1>10
    <2>2. \A k \in 1..(n + 1) : k # 1 => cell'[t[k]].peer = cell[s[k - 1]].peer
        BY <1>8, <1>11
    <2>3. \A k \in 1..(n + 1) : k # 1 => cell'[t[k]].peer # q
        BY <1>4, <1>11, <2>2
    <2>4. ASSUME NEW j \in 1..(n + 1), NEW k \in 1..(n + 1), j # 1, k # 1,
                 cell'[t[j]].peer = cell'[t[k]].peer
          PROVE  j = k
        <3>1. j - 1 = k - 1
            BY <1>3, <1>11, <2>2, <2>4
        <3> QED
            BY <1>2, <3>1
    <2> QED
        BY <2>1, <2>3, <2>4
<1>16. live' = {t[k] : k \in 1..(n + 1)}
    <2>1. \A k \in 1..n : k + 1 \in 1..(n + 1) /\ t[k + 1] = s[k]
        BY <1>2, <1>9
    <2>2. 1 \in 1..(n + 1)
        BY <1>2
    <2>3. \A x \in live' : x \in {t[k] : k \in 1..(n + 1)}
        BY <1>3, <1>5, <1>10, <2>1, <2>2
    <2>4. \A k \in 1..(n + 1) : t[k] \in live'
        BY <1>3, <1>5, <1>10, <1>11
    <2> QED
        BY <2>3, <2>4
<1>17. LinkedFrom(t, [b \in Addresses |-> cell'[b].next], upload')
    <2>1. \A k \in 1..(n + 1) : t[k] \in Addresses
        BY <1>5, <1>10, <1>11
    <2> QED
        BY <1>5, <1>9, <1>10, <1>12, <1>13, <2>1 DEF LinkedFrom
<1>18. UploadsAt(t)'
    BY <1>3, <1>4, <1>10, <1>14, <1>15, <1>16, <1>17 DEF UploadsAt
<1> QED
    BY <1>7, <1>9, <1>18 DEF UploadsInv

(* peer_cc starts at the head, with every upload before it.                *)
LEMMA StartKeeps ==
    ASSUME HeapAssumption, UploadsInv, Uploads!CcStart
    PROVE  UploadsInv'
<1>1. PICK s : UploadsAt(s)
    BY DEF UploadsInv
<1>2. /\ s \in Seq(Addresses) /\ Len(s) \in Nat /\ DOMAIN s = 1..Len(s)
      /\ s = <<>> <=> Len(s) = 0
      /\ upload = IF s = <<>> THEN NULL ELSE s[1]
    BY <1>1, UploadsAre
<1>3. /\ upload # NULL /\ sender' = upload /\ due' = Uploads!PeersFrom(upload)
      /\ upload' = upload /\ cell' = cell /\ live' = live
    BY DEF Uploads!CcStart
<1>4. due' = {cell[s[k]].peer : k \in 1..Len(s)}
    BY <1>1, <1>2, <1>3, PeersAhead
<1>5. 1 \in DOMAIN s /\ sender' = s[1] /\ sender' # NULL
    BY <1>2, <1>3
<1>6. UploadsAt(s)'
    BY <1>1, <1>3, <1>4, <1>5 DEF UploadsAt
<1> QED
    BY <1>2, <1>3, <1>6 DEF UploadsInv

(* The sender that the walk is at, and what is due after it.               *)
LEMMA WalkAt ==
    ASSUME HeapAssumption, UploadsInv, NEW s, UploadsAt(s), sender # NULL
    PROVE  \E j \in 1..Len(s) :
              /\ sender = s[j]
              /\ due \ {cell[sender].peer} = {cell[s[k]].peer : k \in (j + 1)..Len(s)}
<1>1. /\ Len(s) \in Nat /\ DOMAIN s = 1..Len(s)
      /\ \A j, k \in 1..Len(s) : cell[s[j]].peer = cell[s[k]].peer => j = k
    BY UploadsAre DEF UploadsAt
<1>2. PICK j \in 1..Len(s) : sender = s[j] /\ due = {cell[s[k]].peer : k \in j..Len(s)}
    BY <1>1 DEF UploadsAt
<1>3. \A k \in (j + 1)..Len(s) : k \in j..Len(s) /\ k \in 1..Len(s) /\ k # j
    BY <1>1
<1>4. \A k \in j..Len(s) : k = j \/ k \in (j + 1)..Len(s)
    BY <1>1
<1>5. due \ {cell[s[j]].peer} = {cell[s[k]].peer : k \in (j + 1)..Len(s)}
    BY <1>1, <1>2, <1>3, <1>4
<1> QED
    BY <1>2, <1>5

(* A sender that stays: on to the one after it.                            *)
LEMMA StepKeeps ==
    ASSUME HeapAssumption, UploadsInv, Uploads!CcStep
    PROVE  UploadsInv'
<1>1. PICK s : UploadsAt(s)
    BY DEF UploadsInv
<1> DEFINE n == Len(s)
<1>2. /\ s \in Seq(Addresses) /\ n \in Nat /\ DOMAIN s = 1..n
      /\ \A k \in 1..n : s[k] # NULL
      /\ \A k \in 1..n : cell[s[k]].next = IF k = n THEN NULL ELSE s[k + 1]
    BY <1>1, UploadsAre
<1>3. /\ sender # NULL /\ sender' = cell[sender].next /\ due' = due \ {cell[sender].peer}
      /\ upload' = upload /\ cell' = cell /\ live' = live
    BY DEF Uploads!CcStep
<1>4. PICK j \in 1..n : /\ sender = s[j]
                        /\ due' = {cell[s[k]].peer : k \in (j + 1)..n}
    BY <1>1, <1>3, WalkAt
<1> HIDE DEF n
<1>5. sender' = IF j = n THEN NULL ELSE s[j + 1]
    BY <1>2, <1>3, <1>4
<1>6. j = n => due' = {}
    BY <1>2, <1>4
<1>7. j # n => j + 1 \in DOMAIN s /\ s[j + 1] # NULL
    BY <1>2, <1>4
<1>8. UploadsAt(s)'
    <2>1. IF sender' = NULL THEN due' = {}
          ELSE \E i \in DOMAIN s : /\ sender' = s[i]
                                   /\ due' = {cell'[s[k]].peer : k \in i..Len(s)}
        <3>1. CASE j = n
            BY <1>5, <1>6, <3>1
        <3>2. CASE j # n
            <4>1. sender' = s[j + 1] /\ due' = {cell'[s[k]].peer : k \in (j + 1)..Len(s)}
                BY <1>3, <1>4, <1>5, <3>2 DEF n
            <4> QED
                BY <1>7, <3>2, <4>1
        <3> QED
            BY <3>1, <3>2
    <2> QED
        BY <1>1, <1>3, <2>1 DEF UploadsAt
<1> QED
    BY <1>2, <1>3, <1>8 DEF UploadsInv

(* What del_sender_list writes of the cells that stay.                     *)
LEMMA UnlinkedIs ==
    ASSUME HeapAssumption, cell \in [Addresses -> Cell], NEW c \in Addresses,
           cell' = Uploads!Unlinked(c)
    PROVE  /\ cell' \in [Addresses -> Cell]
           /\ \A b \in Addresses :
                 /\ cell'[b].peer = cell[b].peer
                 /\ cell'[b].next = IF b = cell[c].prev THEN cell[c].next ELSE cell[b].next
                 /\ b # cell[c].prev =>
                       cell'[b].prev = IF b = cell[c].next THEN cell[c].prev ELSE cell[b].prev
                 /\ b = cell[c].prev => cell'[b].prev = cell[b].prev
<1>1. cell[c].next \in Pointer /\ cell[c].prev \in Pointer
    BY DEF Cell
<1>2. cell' = [b \in Addresses |->
        IF b = cell[c].prev THEN [cell[b] EXCEPT !.next = cell[c].next]
        ELSE IF b = cell[c].next THEN [cell[b] EXCEPT !.prev = cell[c].prev]
        ELSE cell[b]]
    BY DEF Uploads!Unlinked
<1> QED
    BY <1>1, <1>2 DEF Cell

(* del_sender_list takes one cell out, and the walk goes on after it.      *)
LEMMA DeleteKeeps ==
    ASSUME HeapAssumption, UploadsInv, Uploads!CcDelete
    PROVE  UploadsInv'
<1>1. PICK s : UploadsAt(s)
    BY DEF UploadsInv
<1> DEFINE n == Len(s)
<1>2. /\ s \in Seq(Addresses) /\ n \in Nat /\ DOMAIN s = 1..n
      /\ \A k \in 1..n : s[k] \in Addresses /\ s[k] # NULL
      /\ \A j, k \in 1..n : s[j] = s[k] => j = k
      /\ \A k \in 1..n : cell[s[k]].next = IF k = n THEN NULL ELSE s[k + 1]
      /\ n # 0 => upload = s[1]
    BY <1>1, UploadsAre
<1>3. /\ live = {s[k] : k \in 1..n}
      /\ \A k \in 1..n : cell[s[k]].prev = IF k = 1 THEN NULL ELSE s[k - 1]
      /\ \A j, k \in 1..n : cell[s[j]].peer = cell[s[k]].peer => j = k
    BY <1>1, <1>2 DEF UploadsAt
<1>4. /\ sender # NULL
      /\ cell' = Uploads!Unlinked(sender)
      /\ upload' = IF cell[sender].prev = NULL THEN cell[sender].next ELSE upload
      /\ live' = live \ {sender}
      /\ sender' = cell[sender].next
      /\ due' = due \ {cell[sender].peer}
    BY DEF Uploads!CcDelete
<1>5. PICK j \in 1..n : /\ sender = s[j]
                        /\ due' = {cell[s[k]].peer : k \in (j + 1)..n}
    BY <1>1, <1>4, WalkAt
<1> HIDE DEF n
<1>6. /\ cell[sender].prev = IF j = 1 THEN NULL ELSE s[j - 1]
      /\ cell[sender].next = IF j = n THEN NULL ELSE s[j + 1]
    BY <1>2, <1>3, <1>5
<1>7. /\ cell' \in [Addresses -> Cell]
      /\ \A b \in Addresses :
            /\ cell'[b].peer = cell[b].peer
            /\ cell'[b].next = IF b = cell[sender].prev THEN cell[sender].next ELSE cell[b].next
            /\ b # cell[sender].prev =>
                  cell'[b].prev = IF b = cell[sender].next THEN cell[sender].prev
                                  ELSE cell[b].prev
            /\ b = cell[sender].prev => cell'[b].prev = cell[b].prev
    BY <1>2, <1>4, <1>5, UnlinkedIs DEF UploadsInv
<1> DEFINE Old(k) == IF k < j THEN k ELSE k + 1
           t == [k \in 1..(n - 1) |-> s[Old(k)]]
<1>8. \A k \in 1..(n - 1) : Old(k) \in 1..n /\ Old(k) # j
    BY <1>2
<1>9. \A i \in 1..n : i # j => \E k \in 1..(n - 1) : Old(k) = i
    <2>1. ASSUME NEW i \in 1..n, i < j PROVE i \in 1..(n - 1) /\ Old(i) = i
        BY <1>2, <2>1
    <2>2. ASSUME NEW i \in 1..n, i > j PROVE i - 1 \in 1..(n - 1) /\ Old(i - 1) = i
        BY <1>2, <2>2
    <2>3. \A i \in 1..n : i # j => i < j \/ i > j
        BY <1>2
    <2> HIDE DEF Old
    <2> QED
        BY <2>1, <2>2, <2>3
<1>10. \A k, l \in 1..(n - 1) : Old(k) = Old(l) => k = l
    BY <1>2
<1>11. n - 1 \in Nat
    BY <1>2
<1>12. /\ t \in Seq(Addresses) /\ Len(t) = n - 1 /\ DOMAIN t = 1..(n - 1)
       /\ \A k \in 1..(n - 1) : t[k] = s[Old(k)]
    <2>1. t \in [1..(n - 1) -> Addresses] /\ DOMAIN t = 1..(n - 1)
        <3> HIDE DEF Old
        <3> QED
            BY <1>2, <1>8
    <2>2. \A k \in 1..(n - 1) : t[k] = s[Old(k)]
        OBVIOUS
    <2> HIDE DEF t, Old
    <2> QED
        BY <1>11, <2>1, <2>2, ListedSeq
<1>13. t = <<>> <=> n = 1
    <2> HIDE DEF t
    <2> QED
        BY <1>2, <1>11, <1>12, EmptySeq
<1> HIDE DEF t
<1>14. \A k, l \in 1..(n - 1) : t[k] = t[l] => k = l
    <2> HIDE DEF Old
    <2> QED
        BY <1>2, <1>8, <1>10, <1>12
<1>15. live' = {t[k] : k \in 1..(n - 1)}
    <2> HIDE DEF Old
    <2>1. \A k \in 1..(n - 1) : t[k] \in live'
        BY <1>2, <1>3, <1>4, <1>5, <1>8, <1>12
    <2>2. ASSUME NEW x \in live' PROVE x \in {t[k] : k \in 1..(n - 1)}
        <3>1. PICK i \in 1..n : x = s[i] /\ i # j
            BY <1>3, <1>4, <1>5
        <3> QED
            BY <1>9, <1>12, <3>1
    <2> QED
        BY <2>1, <2>2
<1>16. \A k, l \in 1..(n - 1) : cell'[t[k]].peer = cell'[t[l]].peer => k = l
    <2> HIDE DEF Old
    <2>1. \A k \in 1..(n - 1) : cell'[t[k]].peer = cell[s[Old(k)]].peer
        BY <1>2, <1>7, <1>8, <1>12
    <2> QED
        BY <1>3, <1>8, <1>10, <2>1
<1>17. ASSUME NEW k \in 1..(n - 1)
       PROVE  cell'[t[k]].next = IF k = n - 1 THEN NULL ELSE t[k + 1]
    <2>1. t[k] = s[Old(k)] /\ Old(k) \in 1..n /\ Old(k) # j /\ s[Old(k)] \in Addresses
        <3> HIDE DEF Old
        <3> QED
            BY <1>2, <1>8, <1>12
    <2>2. cell'[t[k]].next = IF s[Old(k)] = cell[sender].prev THEN cell[sender].next
                             ELSE cell[s[Old(k)]].next
        BY <1>7, <2>1
    <2>3. k # n - 1 => t[k + 1] = s[Old(k + 1)]
        <3>1. k # n - 1 => k + 1 \in 1..(n - 1)
            BY <1>2
        <3> HIDE DEF Old
        <3> QED
            BY <1>12, <3>1
    <2>4. CASE Old(k) = j - 1
        <3>1. j - 1 \in 1..n /\ j # 1 /\ k = j - 1 /\ (k # n - 1 => Old(k + 1) = j + 1)
            BY <1>2, <2>1, <2>4
        <3>2. cell'[t[k]].next = cell[sender].next
            BY <1>6, <2>2, <2>4, <3>1
        <3>3. j = n <=> k = n - 1
            BY <1>2, <3>1
        <3> HIDE DEF Old
        <3> QED
            BY <1>6, <2>3, <3>1, <3>2, <3>3
    <2>5. CASE Old(k) # j - 1
        <3>1. s[Old(k)] # cell[sender].prev
            <4>1. j # 1 => j - 1 \in 1..n
                BY <1>2
            <4> HIDE DEF Old
            <4> QED
                BY <1>2, <1>6, <2>1, <2>5, <4>1
        <3>2. cell'[t[k]].next = IF Old(k) = n THEN NULL ELSE s[Old(k) + 1]
            <4> HIDE DEF Old
            <4> QED
                BY <1>2, <2>1, <2>2, <3>1
        <3>3. (Old(k) = n <=> k = n - 1) /\ (k # n - 1 => Old(k + 1) = Old(k) + 1)
            BY <1>2, <2>1, <2>5
        <3> HIDE DEF Old
        <3> QED
            BY <2>3, <3>2, <3>3
    <2> QED
        BY <2>4, <2>5
<1>18. ASSUME NEW k \in 1..(n - 1)
       PROVE  cell'[t[k]].prev = IF k = 1 THEN NULL ELSE t[k - 1]
    <2>1. t[k] = s[Old(k)] /\ Old(k) \in 1..n /\ Old(k) # j /\ s[Old(k)] \in Addresses
        <3> HIDE DEF Old
        <3> QED
            BY <1>2, <1>8, <1>12
    <2>2. k # 1 => t[k - 1] = s[Old(k - 1)]
        <3>1. k # 1 => k - 1 \in 1..(n - 1)
            BY <1>2
        <3> HIDE DEF Old
        <3> QED
            BY <1>12, <3>1
    <2>3. CASE Old(k) = j + 1
        <3>1. j + 1 \in 1..n /\ j # n /\ k = j /\ (k # 1 => Old(k - 1) = j - 1)
            BY <1>2, <2>1, <2>3
        <3>2. s[j + 1] # cell[sender].prev
            <4>1. j # 1 => j - 1 \in 1..n /\ j - 1 # j + 1
                BY <1>2
            <4> QED
                BY <1>2, <1>6, <3>1, <4>1
        <3>3. cell'[t[k]].prev = cell[sender].prev
            <4> HIDE DEF Old
            <4> QED
                BY <1>6, <1>7, <2>1, <2>3, <3>1, <3>2
        <3> HIDE DEF Old
        <3> QED
            BY <1>6, <2>2, <3>1, <3>3
    <2>4. CASE Old(k) # j + 1
        <3>1. s[Old(k)] # cell[sender].next
            <4>1. j # n => j + 1 \in 1..n
                BY <1>2
            <4> HIDE DEF Old
            <4> QED
                BY <1>2, <1>6, <2>1, <2>4, <4>1
        <3>2. cell'[t[k]].prev = cell[s[Old(k)]].prev
            <4> HIDE DEF Old
            <4> QED
                BY <1>7, <2>1, <3>1
        <3>3. cell'[t[k]].prev = IF Old(k) = 1 THEN NULL ELSE s[Old(k) - 1]
            <4> HIDE DEF Old
            <4> QED
                BY <1>3, <2>1, <3>2
        <3>4. (Old(k) = 1 <=> k = 1) /\ (k # 1 => Old(k - 1) = Old(k) - 1)
            BY <1>2, <2>1, <2>4
        <3> HIDE DEF Old
        <3> QED
            BY <2>2, <3>3, <3>4
    <2> QED
        BY <2>3, <2>4
<1>19. upload' = IF t = <<>> THEN NULL ELSE t[1]
    <2>1. upload = s[1] /\ (j = 1 <=> cell[sender].prev = NULL)
        <3>1. n # 0 /\ (j # 1 => j - 1 \in 1..n)
            BY <1>2
        <3> QED
            BY <1>2, <1>6, <3>1
    <2>2. CASE j = 1
        <3>1. n # 1 => 1 \in 1..(n - 1) /\ Old(1) = 2
            BY <1>2, <2>2
        <3> HIDE DEF Old
        <3> QED
            BY <1>4, <1>6, <1>12, <1>13, <2>1, <2>2, <3>1
    <2>3. CASE j # 1
        <3>1. n # 1 /\ 1 \in 1..(n - 1) /\ Old(1) = 1
            BY <1>2, <2>3
        <3> HIDE DEF Old
        <3> QED
            BY <1>4, <1>12, <1>13, <2>1, <2>3, <3>1
    <2> QED
        BY <2>2, <2>3
<1>20. IF sender' = NULL THEN due' = {}
       ELSE \E i \in 1..(n - 1) : /\ sender' = t[i]
                                  /\ due' = {cell'[t[k]].peer : k \in i..(n - 1)}
    <2>1. CASE j = n
        <3>1. (j + 1)..n = {}
            BY <1>2, <2>1
        <3> HIDE DEF Old
        <3> QED
            BY <1>4, <1>5, <1>6, <2>1, <3>1
    <2>2. CASE j # n
        <3>1. j \in 1..(n - 1) /\ j + 1 \in 1..n /\ Old(j) = j + 1
            BY <1>2, <2>2
        <3>2. \A k \in j..(n - 1) : k \in 1..(n - 1) /\ Old(k) = k + 1 /\ k + 1 \in (j + 1)..n
            BY <1>2
        <3>3. \A i \in (j + 1)..n : i - 1 \in j..(n - 1) /\ Old(i - 1) = i
            BY <1>2
        <3> HIDE DEF Old
        <3>4. \A k \in j..(n - 1) : cell'[t[k]].peer = cell[s[k + 1]].peer
            BY <1>2, <1>7, <1>8, <1>12, <3>2
        <3>5. \A i \in (j + 1)..n : cell'[t[i - 1]].peer = cell[s[i]].peer
            BY <1>2, <1>7, <1>8, <1>12, <3>2, <3>3
        <3>6. {cell[s[i]].peer : i \in (j + 1)..n} = {cell'[t[k]].peer : k \in j..(n - 1)}
            BY <3>2, <3>3, <3>4, <3>5
        <3>7. sender' = t[j] /\ sender' # NULL
            BY <1>2, <1>4, <1>6, <1>12, <2>2, <3>1
        <3> QED
            BY <1>5, <3>1, <3>6, <3>7
    <2> QED
        BY <2>1, <2>2
<1> HIDE DEF Old
<1>21. LinkedFrom(t, [b \in Addresses |-> cell'[b].next], upload')
    <2>1. \A k \in 1..(n - 1) : t[k] \in Addresses
        BY <1>2, <1>8, <1>12
    <2> QED
        BY <1>12, <1>14, <1>17, <1>19, <2>1 DEF LinkedFrom
<1>22. UploadsAt(t)'
    BY <1>12, <1>15, <1>16, <1>18, <1>20, <1>21 DEF UploadsAt
<1> QED
    BY <1>7, <1>12, <1>22 DEF UploadsInv

(* As many values as there are places, when no two are the same.           *)
LEMMA AsManyAs ==
    ASSUME NEW n \in Nat, NEW f, \A j, k \in 1..n : f[j] = f[k] => j = k
    PROVE  Cardinality({f[k] : k \in 1..n}) = n
<1> DEFINE T == {f[k] : k \in 1..n}
           g == [k \in 1..n |-> f[k]]
<1>1. g \in Bijection(1..n, T)
    BY DEF Bijection, Injection, Surjection, IsInjective
<1>2. IsFiniteSet(1..n) /\ Cardinality(1..n) = n
    BY FS_Interval
<1> HIDE DEF g, T
<1>3. Cardinality(T) = n
    BY <1>1, <1>2, FS_Bijection DEF ExistsBijection
<1> QED
    BY <1>3 DEF T

(* What the code keeps says that the pointers are sound.                   *)
LEMMA SoundPointers ==
    ASSUME HeapAssumption, UploadsInv
    PROVE  Uploads!TypeOK /\ Uploads!PassMissesNone
<1>1. PICK s : UploadsAt(s)
    BY DEF UploadsInv
<1> DEFINE n == Len(s)
<1>2. /\ s \in Seq(Addresses) /\ n \in Nat /\ DOMAIN s = 1..n
      /\ s = <<>> <=> n = 0
      /\ \A k \in 1..n : s[k] \in Addresses /\ s[k] # NULL
      /\ \A j, k \in 1..n : s[j] = s[k] => j = k
      /\ \A k \in 1..n : cell[s[k]].next = IF k = n THEN NULL ELSE s[k + 1]
      /\ upload = IF s = <<>> THEN NULL ELSE s[1]
    BY <1>1, UploadsAre
<1>3. /\ live = {s[k] : k \in 1..n}
      /\ \A k \in 1..n : cell[s[k]].prev = IF k = 1 THEN NULL ELSE s[k - 1]
      /\ \A j, k \in 1..n : cell[s[j]].peer = cell[s[k]].peer => j = k
      /\ IF sender = NULL THEN due = {}
         ELSE \E j \in 1..n : /\ sender = s[j]
                              /\ due = {cell[s[k]].peer : k \in j..n}
    BY <1>1, <1>2 DEF UploadsAt
<1>4. /\ Uploads!From(upload) = s
      /\ Uploads!PeersFrom(upload) = {cell[s[k]].peer : k \in 1..n}
      /\ \A j \in 1..n : Uploads!PeersFrom(s[j]) = {cell[s[k]].peer : k \in j..n}
    <2>1. /\ Uploads!From(upload) = s
          /\ Uploads!PeersFrom(upload) = {cell[s[k]].peer : k \in DOMAIN s}
          /\ \A j \in DOMAIN s : Uploads!PeersFrom(s[j]) = {cell[s[k]].peer : k \in j..Len(s)}
        BY <1>1, PeersAhead
    <2> QED
        BY <1>2, <2>1
<1> HIDE DEF n
<1>5. Cardinality(live) = n
    BY <1>2, <1>3, AsManyAs
<1>6. Cardinality({cell[s[k]].peer : k \in 1..n}) = n
    <2> DEFINE f == [k \in 1..n |-> cell[s[k]].peer]
    <2>1. \A j, k \in 1..n : f[j] = f[k] => j = k
        BY <1>3
    <2>2. {f[k] : k \in 1..n} = {cell[s[k]].peer : k \in 1..n}
        OBVIOUS
    <2> HIDE DEF f
    <2>3. n \in Nat
        BY <1>2
    <2>4. Cardinality({f[k] : k \in 1..n}) = n
        BY <2>1, <2>3, AsManyAs
    <2> QED
        BY <2>2, <2>4
<1>7. /\ Uploads!Cardinality(live) = n
      /\ Uploads!Cardinality(Uploads!PeersFrom(upload)) = n
    <2>1. \A S : Uploads!Cardinality(S) = Cardinality(S)
        BY DEF Uploads!Cardinality, Cardinality
    <2> QED
        BY <1>4, <1>5, <1>6, <2>1
<1>8. upload # NULL => cell[upload].prev = NULL
    <2>1. n # 0 => 1 \in 1..n
        BY <1>2
    <2> QED
        BY <1>2, <1>3, <2>1
<1>9. ASSUME NEW a \in live, cell[a].next # NULL
      PROVE  cell[cell[a].next].prev = a
    <2>1. PICK k \in 1..n : a = s[k]
        BY <1>3, <1>9
    <2>2. k # n /\ cell[a].next = s[k + 1]
        BY <1>2, <1>9, <2>1
    <2>3. k + 1 \in 1..n /\ k + 1 # 1 /\ (k + 1) - 1 = k
        BY <1>2, <2>2
    <2> QED
        BY <1>3, <2>1, <2>2, <2>3
<1>10. sender \in live \cup {NULL}
    BY <1>3
<1>11. cell \in [Addresses -> [peer : Peers, prev : Uploads!Pointer, next : Uploads!Pointer]]
    BY DEF UploadsInv, Cell, Pointer, Uploads!Pointer
<1>12. {Uploads!From(upload)[k] : k \in DOMAIN Uploads!From(upload)} = live
    BY <1>2, <1>3, <1>4
<1>13. Len(Uploads!From(upload)) = n
    BY <1>4 DEF n
<1>14. Uploads!TypeOK
    BY <1>7, <1>8, <1>9, <1>10, <1>11, <1>12, <1>13 DEF Uploads!TypeOK
<1>15. Uploads!PassMissesNone
    <2>1. CASE sender = NULL
        BY <1>3, <2>1 DEF Uploads!PassMissesNone
    <2>2. CASE sender # NULL
        BY <1>3, <1>4, <2>2 DEF Uploads!PassMissesNone
    <2> QED
        BY <2>1, <2>2
<1> QED
    BY <1>14, <1>15

(* No upload to begin with.                                                *)
LEMMA UploadsStart ==
    ASSUME Uploads!Init, Peers # {}
    PROVE  UploadsInv
<1>1. /\ upload = NULL /\ live = {} /\ sender = NULL /\ due = {}
      /\ cell \in [Addresses -> [peer : {CHOOSE q \in Peers : TRUE},
                                 prev : {NULL}, next : {NULL}]]
    BY DEF Uploads!Init
<1>2. cell \in [Addresses -> Cell]
    BY <1>1 DEF Cell, Pointer
<1>3. <<>> \in Seq(Addresses) /\ DOMAIN <<>> = {}
    OBVIOUS
<1>4. UploadsAt(<<>>)
    BY <1>1, <1>3 DEF UploadsAt, LinkedFrom
<1> QED
    BY <1>2, <1>3, <1>4 DEF UploadsInv

(* Every step of peer_cc and of the handlers that add a sender keeps it.   *)
LEMMA UploadsStep ==
    ASSUME HeapAssumption, UploadsInv, [Uploads!Next]_(Uploads!svars)
    PROVE  UploadsInv'
<1>1. CASE UNCHANGED Uploads!svars
    <2>1. upload' = upload /\ cell' = cell /\ live' = live /\ sender' = sender /\ due' = due
        BY <1>1 DEF Uploads!svars
    <2>2. PICK s \in Seq(Addresses) : UploadsAt(s)
        BY DEF UploadsInv
    <2>3. UploadsAt(s)'
        BY <2>1, <2>2 DEF UploadsAt
    <2> QED
        BY <2>1, <2>2, <2>3 DEF UploadsInv
<1>2. CASE \E q \in Peers : Uploads!AddSenderList(q)
    BY <1>2, AddKeeps
<1>3. CASE Uploads!CcStart
    BY <1>3, StartKeeps
<1>4. CASE Uploads!CcDelete
    BY <1>4, DeleteKeeps
<1>5. CASE Uploads!CcStep
    BY <1>5, StepKeeps
<1> QED
    BY <1>1, <1>2, <1>3, <1>4, <1>5 DEF Uploads!Next

(* What SenderList assumes of its constants is what is used here.          *)
LEMMA SenderListAssumed ==
    Uploads!SenderListAssumption => HeapAssumption /\ Peers # {}
BY DEF Uploads!SenderListAssumption, Uploads!LinkedListAssumption, Uploads!IsFiniteSet,
       IsFiniteSet, HeapAssumption

(* The list of uploads in the heap is sound for any heap and any number of *)
(* peers: prev undoes next, what is reachable is what is allocated, and no *)
(* peer has two senders.                                                   *)
THEOREM UploadsSound == Uploads!Spec => []Uploads!TypeOK
<1> SUFFICES ASSUME HeapAssumption, Peers # {} PROVE Uploads!Spec => []Uploads!TypeOK
    BY PartsAssumption, SenderListAssumed
<1>1. Uploads!Init => UploadsInv
    BY UploadsStart
<1>2. UploadsInv /\ [Uploads!Next]_(Uploads!svars) => UploadsInv'
    BY UploadsStep
<1>3. UploadsInv => Uploads!TypeOK
    BY SoundPointers
<1> QED
    BY <1>1, <1>2, <1>3, PTL DEF Uploads!Spec

(* A pass of peer_cc comes to every upload that was there when it began,   *)
(* though it frees cells as it goes: what it has still to see is what is   *)
(* linked from where it stands.                                            *)
THEOREM NoUploadMissed == Uploads!Spec => []PassMissesNone
<1> SUFFICES ASSUME HeapAssumption, Peers # {} PROVE Uploads!Spec => []Uploads!PassMissesNone
    BY PartsAssumption, SenderListAssumed DEF PassMissesNone
<1>1. Uploads!Init => UploadsInv
    BY UploadsStart
<1>2. UploadsInv /\ [Uploads!Next]_(Uploads!svars) => UploadsInv'
    BY UploadsStep
<1>3. UploadsInv => Uploads!PassMissesNone
    BY SoundPointers
<1> QED
    BY <1>1, <1>2, <1>3, PTL DEF Uploads!Spec

-----------------------------------------------------------------------------
(* The output queue.                                                       *)

(* The last cell of a list, NULL when it is empty: what tail is for.       *)
LastOf(s) == IF s = <<>> THEN NULL ELSE s[Len(s)]

(* packet_push on the links alone: a cell that is not on the list goes to  *)
(* its end.                                                                *)
LEMMA PushLinked ==
    ASSUME HeapAssumption, NEW s, NEW next \in [Addresses -> Pointer], NEW hd,
           LinkedFrom(s, next, hd),
           NEW p \in Addresses, p \notin {s[k] : k \in DOMAIN s}, next[p] = NULL,
           NEW next2, next2 = IF s = <<>> THEN next ELSE [next EXCEPT ![LastOf(s)] = p]
    PROVE  /\ LinkedFrom(Append(s, p), next2, IF s = <<>> THEN p ELSE hd)
           /\ LastOf(Append(s, p)) = p
<1> DEFINE n == Len(s)
           t == Append(s, p)
<1>1. /\ s \in Seq(Addresses) /\ n \in Nat /\ DOMAIN s = 1..n
      /\ s = <<>> <=> n = 0
      /\ \A k \in 1..n : s[k] \in Addresses
      /\ \A j, k \in 1..n : s[j] = s[k] => j = k
      /\ \A k \in 1..n : next[s[k]] = IF k = n THEN NULL ELSE s[k + 1]
      /\ hd = IF s = <<>> THEN NULL ELSE s[1]
    BY LenProperties, ElementOfSeq, EmptySeq DEF LinkedFrom
<1>2. /\ t \in Seq(Addresses) /\ Len(t) = n + 1 /\ t[n + 1] = p
      /\ \A k \in 1..n : t[k] = s[k]
    <2>1. s \in Seq(Addresses)
        BY <1>1
    <2> HIDE DEF n
    <2>2. /\ t \in Seq(Addresses) /\ Len(t) = Len(s) + 1 /\ t[Len(s) + 1] = p
          /\ \A k \in 1..Len(s) : t[k] = s[k]
        BY <2>1, AppendProperties
    <2> HIDE DEF t
    <2> QED
        BY <2>2 DEF n
<1> HIDE DEF t
<1>3. DOMAIN t = 1..(n + 1)
    BY <1>2, LenProperties
<1>4. LastOf(s) = IF n = 0 THEN NULL ELSE s[n]
    BY <1>1 DEF LastOf
<1> HIDE DEF n
<1>5. t # <<>> /\ LastOf(t) = p
    <2>1. t # <<>>
        BY <1>1, <1>2, EmptySeq
    <2> QED
        BY <1>2, <2>1 DEF LastOf
<1>6. \A k \in 1..(n + 1) : k = n + 1 \/ k \in 1..n
    BY <1>1
<1>7. \A k \in 1..n : s[k] # p
    BY <1>1
<1>8. \A j, k \in 1..(n + 1) : t[j] = t[k] => j = k
    BY <1>1, <1>2, <1>6, <1>7
<1>9. \A k \in 1..(n + 1) : next2[t[k]] = IF k = n + 1 THEN NULL ELSE t[k + 1]
    <2>1. CASE n = 0
        BY <1>1, <1>2, <2>1
    <2>2. CASE n # 0
        <3>1. n \in 1..n /\ s[n] \in Addresses /\ s[n] # p
            BY <1>1, <1>7, <2>2
        <3>2. next2[p] = NULL /\ next2[s[n]] = p
              /\ \A k \in 1..n : k # n => next2[s[k]] = next[s[k]]
            BY <1>1, <1>4, <2>2, <3>1
        <3>3. \A k \in 1..n : k # n => k + 1 \in 1..n
            BY <1>1
        <3>4. ASSUME NEW k \in 1..n PROVE next2[t[k]] = t[k + 1]
            <4>1. CASE k = n
                BY <1>2, <3>2, <4>1
            <4>2. CASE k # n
                BY <1>1, <1>2, <3>2, <3>3, <4>2
            <4> QED
                BY <4>1, <4>2
        <3>5. \A k \in 1..n : k # n + 1
            BY <1>1
        <3> QED
            BY <1>2, <1>6, <3>2, <3>4, <3>5
    <2> QED
        BY <2>1, <2>2
<1>10. t[1] = IF s = <<>> THEN p ELSE hd
    <2>1. n = 0 \/ 1 \in 1..n
        BY <1>1
    <2> QED
        BY <1>1, <1>2, <2>1
<1>11. LinkedFrom(t, next2, IF s = <<>> THEN p ELSE hd)
    BY <1>2, <1>3, <1>5, <1>8, <1>9, <1>10 DEF LinkedFrom
<1> QED
    BY <1>5, <1>11 DEF t

(* packet_pop on the links alone: the first cell is gone from the list.    *)
LEMMA PopLinked ==
    ASSUME HeapAssumption, NEW s, NEW next \in [Addresses -> Pointer], NEW hd,
           LinkedFrom(s, next, hd), hd # NULL,
           NEW next2, next2 = [next EXCEPT ![hd] = NULL]
    PROVE  /\ s # <<>> /\ hd = Head(s) /\ hd \in Addresses
           /\ LinkedFrom(Tail(s), next2, next[hd])
           /\ next2 \in [Addresses -> Pointer] /\ next2[hd] = NULL
           /\ hd \notin {Tail(s)[k] : k \in DOMAIN Tail(s)}
           /\ {Tail(s)[k] : k \in DOMAIN Tail(s)} \subseteq {s[k] : k \in DOMAIN s}
           /\ LastOf(Tail(s)) = IF hd = LastOf(s) THEN NULL ELSE LastOf(s)
           /\ Len(s) \in Nat /\ DOMAIN s = 1..Len(s)
           /\ DOMAIN Tail(s) = 1..(Len(s) - 1)
           /\ \A k \in 1..(Len(s) - 1) : Tail(s)[k] = s[k + 1]
<1> DEFINE n == Len(s)
           t == Tail(s)
<1>1. /\ s \in Seq(Addresses) /\ n \in Nat /\ DOMAIN s = 1..n
      /\ s = <<>> <=> n = 0
      /\ \A k \in 1..n : s[k] \in Addresses
      /\ \A j, k \in 1..n : s[j] = s[k] => j = k
      /\ \A k \in 1..n : next[s[k]] = IF k = n THEN NULL ELSE s[k + 1]
      /\ s # <<>> /\ hd = s[1]
    BY LenProperties, ElementOfSeq, EmptySeq DEF LinkedFrom
<1>2. /\ hd = Head(s)
      /\ t \in Seq(Addresses) /\ Len(t) = n - 1
      /\ \A k \in 1..(n - 1) : t[k] = s[k + 1]
    <2>1. s \in Seq(Addresses) /\ s # <<>> /\ hd = s[1]
        BY <1>1
    <2> HIDE DEF n
    <2>2. /\ t \in Seq(Addresses) /\ Len(t) = Len(s) - 1
          /\ \A k \in 1..Len(t) : t[k] = s[k + 1]
        BY <2>1, HeadTailProperties
    <2>3. hd = Head(s)
        BY <2>1
    <2> HIDE DEF t
    <2> QED
        BY <2>2, <2>3 DEF n
<1> HIDE DEF t
<1>3. DOMAIN t = 1..(n - 1) /\ (t = <<>> <=> n = 1)
    <2>1. DOMAIN t = 1..(n - 1)
        BY <1>2, LenProperties
    <2>2. t = <<>> => Len(t) = 0
        BY EmptySeq
    <2>3. t # <<>> => Len(t) # 0
        BY <1>2, EmptySeq
    <2> HIDE DEF n
    <2> QED
        BY <1>1, <1>2, <2>1, <2>2, <2>3
<1>4. LastOf(s) = s[n]
    BY <1>1 DEF LastOf
<1>5. LastOf(t) = IF n = 1 THEN NULL ELSE t[n - 1]
    BY <1>2, <1>3 DEF LastOf
<1>6. n = Len(s)
    OBVIOUS
<1> HIDE DEF n
<1>7. 1 \in 1..n /\ n \in 1..n /\ n - 1 \in Nat
    BY <1>1
<1>8. \A k \in 1..(n - 1) : k + 1 \in 1..n /\ k + 1 # 1
    BY <1>1
<1>9. next2 \in [Addresses -> Pointer] /\ hd \in Addresses /\ next2[hd] = NULL
    BY <1>1, <1>7 DEF Pointer
<1>10. \A k \in 1..(n - 1) : t[k] \in Addresses /\ t[k] # hd /\ next2[t[k]] = next[s[k + 1]]
    BY <1>1, <1>2, <1>7, <1>8
<1>11. \A j, k \in 1..(n - 1) : t[j] = t[k] => j = k
    <2>1. ASSUME NEW j \in 1..(n - 1), NEW k \in 1..(n - 1), t[j] = t[k] PROVE j = k
        <3>1. j + 1 = k + 1
            BY <1>1, <1>2, <1>8, <2>1
        <3> QED
            BY <1>1, <3>1
    <2> QED
        BY <2>1
<1>12. ASSUME NEW k \in 1..(n - 1)
       PROVE  next2[t[k]] = IF k = n - 1 THEN NULL ELSE t[k + 1]
    <2>1. next2[t[k]] = IF k + 1 = n THEN NULL ELSE s[(k + 1) + 1]
        BY <1>1, <1>8, <1>10
    <2>2. k # n - 1 => k + 1 \in 1..(n - 1)
        BY <1>1
    <2>3. k + 1 = n <=> k = n - 1
        BY <1>1
    <2> QED
        BY <1>2, <2>1, <2>2, <2>3
<1>13. next[hd] = IF t = <<>> THEN NULL ELSE t[1]
    <2>1. next[hd] = IF 1 = n THEN NULL ELSE s[1 + 1]
        BY <1>1, <1>7
    <2>2. n # 1 => 1 \in 1..(n - 1)
        BY <1>1, <1>7
    <2> QED
        BY <1>2, <1>3, <2>1, <2>2
<1>14. LinkedFrom(t, next2, next[hd])
    BY <1>2, <1>3, <1>11, <1>12, <1>13 DEF LinkedFrom
<1>15. LastOf(t) = IF hd = LastOf(s) THEN NULL ELSE LastOf(s)
    <2>1. hd = LastOf(s) <=> n = 1
        BY <1>1, <1>4, <1>7
    <2>2. n # 1 => n - 1 \in 1..(n - 1) /\ (n - 1) + 1 = n
        BY <1>1, <1>7
    <2> QED
        BY <1>2, <1>4, <1>5, <2>1, <2>2
<1>16. /\ {t[k] : k \in DOMAIN t} \subseteq {s[k] : k \in DOMAIN s}
       /\ hd \notin {t[k] : k \in DOMAIN t}
    <2>1. ASSUME NEW k \in DOMAIN t PROVE t[k] \in {s[l] : l \in DOMAIN s} /\ t[k] # hd
        <3>1. k \in 1..(n - 1)
            BY <1>3
        <3>2. k + 1 \in DOMAIN s
            BY <1>1, <1>8, <3>1
        <3> QED
            BY <1>2, <1>10, <3>1, <3>2
    <2> QED
        BY <2>1
<1> QED
    BY <1>1, <1>2, <1>3, <1>6, <1>9, <1>14, <1>15, <1>16 DEF t

Packet == [num : 0..MaxNew, left : 0..Size, next : Pointer]

Links(h) == [p \in Addresses |-> h[p].next]

(* What the other modules see of a packet in the heap, and of a list.      *)
Rest(e) == [num |-> e.num, left |-> e.left]

View(s, h) == [k \in DOMAIN s |-> Rest(h[s[k]])]

(* The packets queued are those at the addresses of s, all of them         *)
(* allocated.                                                              *)
QueueAt(s) ==
    /\ LinkedFrom(s, Links(heap), head)
    /\ tail = LastOf(s)
    /\ {s[k] : k \in DOMAIN s} \subseteq used

QueueInv ==
    /\ heap \in [Addresses -> Packet]
    /\ used \subseteq Addresses /\ new \in 0..MaxNew
    /\ \E s \in Seq(Addresses) : QueueAt(s)

(* A list stays the same list when only links off it are written.          *)
LEMMA LinkedSame ==
    ASSUME NEW s, NEW next, NEW next2, NEW p, LinkedFrom(s, next, p),
           \A k \in DOMAIN s : next2[s[k]] = next[s[k]]
    PROVE  LinkedFrom(s, next2, p)
BY DEF LinkedFrom

(* g is the heap h with the link at a set to v.                            *)
Written(g, h, a, v) ==
    /\ g \in [Addresses -> Packet]
    /\ Links(g) = [Links(h) EXCEPT ![a] = v]
    /\ \A b \in Addresses : Rest(g[b]) = Rest(h[b])

(* Writing a link changes that link and nothing of the packets.            *)
LEMMA LinkWritten ==
    ASSUME NEW h \in [Addresses -> Packet], NEW a \in Addresses, NEW v \in Pointer,
           NEW g, g = [h EXCEPT ![a].next = v]
    PROVE  Written(g, h, a, v)
<1>1. \A b \in Addresses : /\ g[b].num = h[b].num /\ g[b].left = h[b].left
                           /\ g[b].next = IF b = a THEN v ELSE h[b].next
    BY DEF Packet
<1>2. g \in [Addresses -> Packet]
    BY DEF Packet
<1>3. Links(g) = [Links(h) EXCEPT ![a] = v]
    BY <1>1 DEF Links
<1>4. \A b \in Addresses : Rest(g[b]) = Rest(h[b])
    BY <1>1 DEF Rest
<1> QED
    BY <1>2, <1>3, <1>4 DEF Written

(* The links of a heap of packets are pointers.                            *)
LEMMA LinksType ==
    ASSUME NEW h \in [Addresses -> Packet]
    PROVE  Links(h) \in [Addresses -> Pointer] /\ \A b \in Addresses : Links(h)[b] = h[b].next
BY DEF Links, Packet

(* packet_push, on a heap h where p is off the list.                       *)
LEMMA PushDone ==
    ASSUME HeapAssumption, NEW h \in [Addresses -> Packet], NEW s, NEW hd, NEW tl,
           LinkedFrom(s, Links(h), hd), tl = LastOf(s),
           NEW p \in Addresses, p \notin {s[k] : k \in DOMAIN s}, h[p].next = NULL,
           Queue!PacketPush(p, h, hd, tl)
    PROVE  /\ heap' \in [Addresses -> Packet]
           /\ LinkedFrom(Append(s, p), Links(heap'), head')
           /\ tail' = LastOf(Append(s, p))
           /\ \A b \in Addresses : Rest(heap'[b]) = Rest(h[b])
<1>1. Links(h) \in [Addresses -> Pointer] /\ Links(h)[p] = NULL
    BY LinksType
<1>2. /\ s \in Seq(Addresses)
      /\ s = <<>> => hd = NULL /\ tl = NULL
      /\ s # <<>> => hd # NULL /\ tl \in Addresses
    <2>1. s \in Seq(Addresses) /\ hd = IF s = <<>> THEN NULL ELSE s[1]
        BY DEF LinkedFrom
    <2>2. s # <<>> => 1 \in 1..Len(s) /\ Len(s) \in 1..Len(s)
        BY <2>1, EmptySeq
    <2>3. s # <<>> => s[1] \in Addresses /\ s[Len(s)] \in Addresses
        BY <2>1, <2>2, ElementOfSeq
    <2> QED
        BY <2>1, <2>3 DEF LastOf, HeapAssumption
<1>3. CASE s = <<>>
    <2>1. head' = p /\ tail' = p /\ heap' = h
        BY <1>2, <1>3 DEF Queue!PacketPush
    <2>2. LinkedFrom(Append(s, p), Links(h), p) /\ LastOf(Append(s, p)) = p
        <3> DEFINE next == Links(h)
        <3>1. LinkedFrom(s, next, hd) /\ next \in [Addresses -> Pointer] /\ next[p] = NULL
            BY <1>1
        <3> HIDE DEF next
        <3>2. /\ LinkedFrom(Append(s, p), next, IF s = <<>> THEN p ELSE hd)
              /\ LastOf(Append(s, p)) = p
            BY <1>3, <3>1, PushLinked
        <3> QED
            BY <1>3, <3>2 DEF next
    <2> QED
        BY <2>1, <2>2
<1>4. CASE s # <<>>
    <2>1. heap' = [h EXCEPT ![tl].next = p] /\ tail' = p /\ head' = hd
        BY <1>2, <1>4 DEF Queue!PacketPush
    <2>2. p \in Pointer
        BY DEF Pointer
    <2>3. /\ heap' \in [Addresses -> Packet]
          /\ Links(heap') = [Links(h) EXCEPT ![tl] = p]
          /\ \A b \in Addresses : Rest(heap'[b]) = Rest(h[b])
        <3>1. tl \in Addresses
            BY <1>2, <1>4
        <3>2. Written(heap', h, tl, p)
            BY <2>1, <2>2, <3>1, LinkWritten, Zenon
        <3> QED
            BY <3>2 DEF Written
    <2>4. LinkedFrom(Append(s, p), Links(heap'), hd) /\ LastOf(Append(s, p)) = p
        <3> DEFINE next == Links(h)
                   next2 == Links(heap')
        <3>1. LinkedFrom(s, next, hd) /\ next \in [Addresses -> Pointer] /\ next[p] = NULL
            BY <1>1
        <3>2. next2 = [next EXCEPT ![LastOf(s)] = p]
            BY <2>3
        <3> HIDE DEF next, next2
        <3>3. /\ LinkedFrom(Append(s, p), next2, IF s = <<>> THEN p ELSE hd)
              /\ LastOf(Append(s, p)) = p
            BY <1>4, <3>1, <3>2, PushLinked
        <3> QED
            BY <1>4, <3>3 DEF next2
    <2> QED
        BY <2>1, <2>3, <2>4
<1> QED
    BY <1>3, <1>4

(* packet_pop: the first is off the list and linked to nothing.            *)
LEMMA PopDone ==
    ASSUME HeapAssumption, QueueInv, NEW s, QueueAt(s), head # NULL
    PROVE  LET h == Queue!Popped.heap
           IN  /\ s \in Seq(Addresses) /\ s # <<>> /\ head = Head(s) /\ head \in Addresses
               /\ head \in used
               /\ h \in [Addresses -> Packet] /\ h[head].next = NULL
               /\ LinkedFrom(Tail(s), Links(h), Queue!Popped.head)
               /\ Queue!Popped.tail = LastOf(Tail(s))
               /\ head \notin {Tail(s)[k] : k \in DOMAIN Tail(s)}
               /\ {Tail(s)[k] : k \in DOMAIN Tail(s)} \subseteq used
               /\ \A b \in Addresses : Rest(h[b]) = Rest(heap[b])
<1> DEFINE next == Links(heap)
           h == [heap EXCEPT ![head].next = NULL]
           next2 == Links(h)
<1>1. /\ heap \in [Addresses -> Packet] /\ LinkedFrom(s, next, head)
      /\ tail = LastOf(s) /\ {s[k] : k \in DOMAIN s} \subseteq used
    BY DEF QueueInv, QueueAt
<1>2. next \in [Addresses -> Pointer] /\ NULL \in Pointer
    BY <1>1, LinksType DEF Pointer
<1>3. s \in Seq(Addresses) /\ s # <<>> /\ head \in {s[k] : k \in DOMAIN s} /\ head \in Addresses
    <2>1. s \in Seq(Addresses) /\ s # <<>> /\ head = s[1]
        BY <1>1 DEF LinkedFrom
    <2>2. 1 \in 1..Len(s) /\ DOMAIN s = 1..Len(s)
        BY <2>1, EmptySeq, LenProperties
    <2> QED
        BY <2>1, <2>2, ElementOfSeq
<1>4. /\ h \in [Addresses -> Packet] /\ next2 = [next EXCEPT ![head] = NULL]
      /\ \A b \in Addresses : Rest(h[b]) = Rest(heap[b])
    <2> HIDE DEF h
    <2>1. h = [heap EXCEPT ![head].next = NULL]
        BY DEF h
    <2> QED
        <3>1. heap \in [Addresses -> Packet] /\ head \in Addresses /\ NULL \in Pointer
            BY <1>1, <1>2, <1>3
        <3>2. Written(h, heap, head, NULL)
            BY <2>1, <3>1, LinkWritten, Zenon
        <3> QED
            BY <3>2 DEF Written
<1>5. /\ Queue!Popped.heap = h
      /\ Queue!Popped.head = heap[head].next
      /\ Queue!Popped.tail = IF head = tail THEN NULL ELSE tail
    BY DEF Queue!Popped
<1>6. heap[head].next = next[head] /\ h[head].next = next2[head]
    <2> HIDE DEF h
    <2> QED
        BY <1>1, <1>3, <1>4, LinksType
<1> HIDE DEF next, next2, h
<1>7. /\ head = Head(s)
      /\ LinkedFrom(Tail(s), next2, next[head])
      /\ next2[head] = NULL
      /\ head \notin {Tail(s)[k] : k \in DOMAIN Tail(s)}
      /\ {Tail(s)[k] : k \in DOMAIN Tail(s)} \subseteq {s[k] : k \in DOMAIN s}
      /\ LastOf(Tail(s)) = IF head = LastOf(s) THEN NULL ELSE LastOf(s)
    <2>1. LinkedFrom(s, next, head) /\ next \in [Addresses -> Pointer]
        BY <1>1, <1>2
    <2>2. next2 = [next EXCEPT ![head] = NULL]
        BY <1>4
    <2> QED
        BY ZenonT(30), <2>1, <2>2, PopLinked
<1>8. LinkedFrom(Tail(s), Links(h), Queue!Popped.head)
    BY <1>5, <1>6, <1>7 DEF next2
<1> QED
    BY <1>1, <1>3, <1>4, <1>5, <1>6, <1>7, <1>8

(* A packet pushed is the last of what is seen.                            *)
LEMMA ViewPushed ==
    ASSUME NEW s \in Seq(Addresses), NEW p \in Addresses, NEW g, NEW h,
           \A k \in DOMAIN s : Rest(g[s[k]]) = Rest(h[s[k]])
    PROVE  View(Append(s, p), g) = Append(View(s, h), Rest(g[p]))
<1> DEFINE n == Len(s)
           t == Append(s, p)
           R == {Rest(h[s[k]]) : k \in 1..n} \cup {Rest(g[p])}
           v == View(s, h)
           w == Append(v, Rest(g[p]))
<1>1. n \in Nat /\ DOMAIN s = 1..n
    BY LenProperties
<1>2. /\ t \in Seq(Addresses) /\ Len(t) = n + 1 /\ t[n + 1] = p
      /\ \A k \in 1..n : t[k] = s[k]
    BY AppendProperties
<1> HIDE DEF t, n
<1>3. DOMAIN t = 1..(n + 1)
    BY <1>2, LenProperties
<1>4. v \in Seq(R) /\ Len(v) = n /\ \A k \in 1..n : v[k] = Rest(h[s[k]])
    <2>1. v \in [1..n -> R] /\ \A k \in 1..n : v[k] = Rest(h[s[k]])
        BY <1>1 DEF View
    <2> HIDE DEF v, R
    <2> QED
        BY <1>1, <2>1, ListedSeq
<1>5. Rest(g[p]) \in R
    OBVIOUS
<1> HIDE DEF R, v
<1>6. /\ w \in Seq(R) /\ Len(w) = n + 1 /\ w[n + 1] = Rest(g[p])
      /\ \A k \in 1..n : w[k] = v[k]
    <2>1. /\ w \in Seq(R) /\ Len(w) = Len(v) + 1 /\ w[Len(v) + 1] = Rest(g[p])
          /\ \A k \in 1..Len(v) : w[k] = v[k]
        BY <1>4, <1>5, AppendProperties
    <2> HIDE DEF w
    <2> QED
        BY <1>4, <2>1
<1> HIDE DEF w
<1>7. DOMAIN w = 1..(n + 1) /\ w = [k \in 1..(n + 1) |-> w[k]]
    <2>1. w \in [1..Len(w) -> R]
        BY <1>6, LenProperties
    <2> QED
        BY <1>6, <2>1
<1>8. \A k \in 1..(n + 1) : w[k] = Rest(g[t[k]])
    <2>1. \A k \in 1..(n + 1) : k = n + 1 \/ k \in 1..n
        BY <1>1
    <2> QED
        BY SMTT(30), <1>1, <1>2, <1>4, <1>6, <2>1
<1>9. View(t, g) = w
    BY <1>3, <1>7, <1>8 DEF View
<1> QED
    BY <1>9 DEF t, w, v

(* A packet popped was the first of what is seen.                          *)
LEMMA ViewPopped ==
    ASSUME NEW s \in Seq(Addresses), s # <<>>, NEW g, NEW h,
           \A b \in Addresses : Rest(g[b]) = Rest(h[b])
    PROVE  /\ View(s, h) # <<>> /\ Head(View(s, h)) = Rest(h[Head(s)])
           /\ View(Tail(s), g) = Tail(View(s, h))
<1> DEFINE n == Len(s)
           t == Tail(s)
           R == {Rest(h[s[k]]) : k \in 1..n}
           v == View(s, h)
           w == Tail(v)
<1>1. n \in Nat /\ DOMAIN s = 1..n /\ n # 0 /\ \A k \in 1..n : s[k] \in Addresses
    BY LenProperties, EmptySeq, ElementOfSeq
<1>2. t \in Seq(Addresses) /\ Len(t) = n - 1 /\ \A k \in 1..Len(t) : t[k] = s[k + 1]
    BY HeadTailProperties
<1>3. Head(s) = s[1]
    OBVIOUS
<1> HIDE DEF t, n
<1>4. DOMAIN t = 1..(n - 1)
    BY <1>2, LenProperties
<1>5. v \in Seq(R) /\ Len(v) = n /\ \A k \in 1..n : v[k] = Rest(h[s[k]])
    <2>1. v \in [1..n -> R] /\ \A k \in 1..n : v[k] = Rest(h[s[k]])
        BY <1>1 DEF View
    <2> HIDE DEF v, R
    <2> QED
        BY <1>1, <2>1, ListedSeq
<1> HIDE DEF R, v
<1>6. v # <<>>
    BY <1>1, <1>5, EmptySeq
<1>7. w \in Seq(R) /\ Len(w) = n - 1 /\ \A k \in 1..(n - 1) : w[k] = v[k + 1]
    <2>1. w \in Seq(R) /\ Len(w) = Len(v) - 1 /\ \A k \in 1..Len(w) : w[k] = v[k + 1]
        BY <1>5, <1>6, HeadTailProperties
    <2> HIDE DEF w
    <2> QED
        BY <1>5, <2>1
<1>8. Head(v) = v[1]
    BY <1>5, <1>6
<1> HIDE DEF w
<1>9. DOMAIN w = 1..(n - 1) /\ w = [k \in 1..(n - 1) |-> w[k]]
    <2>1. w \in [1..Len(w) -> R]
        BY <1>7, LenProperties
    <2> QED
        BY <1>7, <2>1
<1>10. \A k \in 1..(n - 1) : w[k] = Rest(g[t[k]])
    <2>1. \A k \in 1..(n - 1) : k + 1 \in 1..n
        BY <1>1
    <2> QED
        BY SMTT(30), <1>1, <1>2, <1>5, <1>7, <2>1
<1>11. View(t, g) = w
    BY <1>4, <1>9, <1>10 DEF View
<1>12. Head(v) = Rest(h[Head(s)])
    <2>1. 1 \in 1..n
        BY <1>1
    <2> QED
        BY <1>3, <1>5, <1>8, <2>1
<1> QED
    BY <1>6, <1>11, <1>12 DEF v, w, t

(* What the queue's walk comes to is the list.                             *)
LEMMA QueueChainIs ==
    ASSUME HeapAssumption, NEW s, NEW next, NEW p, LinkedFrom(s, next, p)
    PROVE  Queue!Chain(next, p) = s
<1> DEFINE n == Queue!Cardinality(Addresses)
           at == Followed(next, p, n)
           S == {j \in 0..(n - 1) : at[j] # NULL}
<1>1. Queue!Chain(next, p) = [k \in 1..Queue!Cardinality(S) |-> at[k - 1]]
    BY DEF Queue!Chain, Followed
<1>2. n = Cardinality(Addresses) /\ Queue!Cardinality(S) = Cardinality(S)
    BY DEF Queue!Cardinality, Cardinality
<1> HIDE DEF n
<1>3. s = [k \in 1..Cardinality(S) |-> at[k - 1]]
    BY <1>2, ChainIs
<1> HIDE DEF S, at
<1> QED
    BY <1>1, <1>2, <1>3

(* The queue as the other modules see it, before a step and after it.      *)
LEMMA FifoIs ==
    ASSUME HeapAssumption, NEW s
    PROVE  /\ LinkedFrom(s, Links(heap), head) => Queue!Listed = s /\ Queue!Fifo = View(s, heap)
           /\ LinkedFrom(s, Links(heap'), head') => Queue!Fifo' = View(s, heap')
<1>1. ASSUME LinkedFrom(s, Links(heap), head)
      PROVE  Queue!Listed = s /\ Queue!Fifo = View(s, heap)
    <2>1. Queue!Listed = Queue!Chain(Links(heap), head)
        BY DEF Queue!Listed, Links
    <2>2. Queue!Listed = s
        BY <1>1, <2>1, QueueChainIs
    <2> QED
        BY <2>2 DEF Queue!Fifo, View, Rest
<1>2. ASSUME LinkedFrom(s, Links(heap'), head')
      PROVE  Queue!Fifo' = View(s, heap')
    <2>1. Queue!Listed' = Queue!Chain(Links(heap'), head')
        BY DEF Queue!Listed, Links
    <2>2. Queue!Listed' = s
        BY <1>2, <2>1, QueueChainIs
    <2> QED
        BY <2>2 DEF Queue!Fifo, View, Rest
<1> QED
    BY <1>1, <1>2

(* A cell added to a list of them.                                         *)
LEMMA OnlyAdded ==
    ASSUME NEW s \in Seq(Addresses), NEW p \in Addresses, NEW U,
           {s[k] : k \in DOMAIN s} \subseteq U
    PROVE  /\ Append(s, p) \in Seq(Addresses)
           /\ {Append(s, p)[k] : k \in DOMAIN Append(s, p)} \subseteq U \cup {p}
<1> DEFINE n == Len(s)
           t == Append(s, p)
<1>1. n \in Nat /\ DOMAIN s = 1..n
    BY LenProperties
<1>2. /\ t \in Seq(Addresses) /\ Len(t) = n + 1 /\ t[n + 1] = p
      /\ \A k \in 1..n : t[k] = s[k]
    BY AppendProperties
<1> HIDE DEF t, n
<1>3. DOMAIN t = 1..(n + 1)
    BY <1>2, LenProperties
<1>4. \A k \in 1..(n + 1) : k = n + 1 \/ k \in 1..n
    BY <1>1
<1>5. {t[k] : k \in DOMAIN t} \subseteq U \cup {p}
    BY <1>1, <1>2, <1>3, <1>4
<1> QED
    BY <1>2, <1>5 DEF t

BoundAssumption == Size \in Nat \ {0} /\ MaxNew \in Nat

(* What OutputQueue assumes of its constants is what is used here.         *)
LEMMA OutputQueueAssumed ==
    Queue!OutputQueueAssumption => HeapAssumption /\ BoundAssumption
BY DEF Queue!OutputQueueAssumption, Queue!LinkedListAssumption, Queue!IsFiniteSet, IsFiniteSet,
       HeapAssumption, BoundAssumption

(* packet_new queues a packet at an address that is not on the list.       *)
LEMMA NewMaps ==
    ASSUME HeapAssumption, BoundAssumption, QueueInv, Queue!PacketNew
    PROVE  /\ QueueInv' /\ Queue!P!Queue
           /\ \E p \in Addresses \ used :
                 /\ used' = used \cup {p}
                 /\ Rest(heap'[p]) = [num |-> new + 1, left |-> Size]
                 /\ \A a \in Addresses \ {p} : Rest(heap'[a]) = Rest(heap[a])
<1>1. PICK s : s \in Seq(Addresses) /\ QueueAt(s)
    BY DEF QueueInv
<1>2. /\ heap \in [Addresses -> Packet] /\ used \subseteq Addresses /\ new \in 0..MaxNew
      /\ LinkedFrom(s, Links(heap), head) /\ tail = LastOf(s)
      /\ {s[k] : k \in DOMAIN s} \subseteq used
    BY <1>1 DEF QueueInv, QueueAt
<1>3. new < MaxNew /\ new' = new + 1 /\ out' = out
    BY DEF Queue!PacketNew
<1> DEFINE e == [num |-> new + 1, left |-> Size, next |-> NULL]
<1>4. PICK p \in Addresses \ used :
          /\ used' = used \cup {p}
          /\ Queue!PacketPush(p, [heap EXCEPT ![p] = e], head, tail)
    BY DEF Queue!PacketNew
<1>5. e \in Packet /\ e.next = NULL /\ Rest(e) = [num |-> new + 1, left |-> Size]
    <2>1. new + 1 \in 0..MaxNew /\ Size \in 0..Size /\ NULL \in Pointer
        BY <1>2, <1>3 DEF BoundAssumption, Pointer
    <2>2. e \in Packet
        BY <2>1, Zenon DEF Packet
    <2> QED
        BY <2>2 DEF Rest
<1> HIDE DEF e
<1> DEFINE h == [heap EXCEPT ![p] = e]
<1>6. /\ h \in [Addresses -> Packet] /\ h[p] = e
      /\ \A b \in Addresses : b # p => h[b] = heap[b]
    BY <1>2, <1>5
<1> HIDE DEF h
<1>7. \A k \in DOMAIN s : s[k] \in Addresses /\ s[k] # p /\ s[k] \in used
    BY <1>2, <1>4
<1>8. LinkedFrom(s, Links(h), head)
    <2>1. \A k \in DOMAIN s : Links(h)[s[k]] = Links(heap)[s[k]]
        BY <1>2, <1>6, <1>7, LinksType
    <2> QED
        BY <1>2, <2>1, LinkedSame
<1>9. /\ heap' \in [Addresses -> Packet]
      /\ LinkedFrom(Append(s, p), Links(heap'), head')
      /\ tail' = LastOf(Append(s, p))
      /\ \A b \in Addresses : Rest(heap'[b]) = Rest(h[b])
    <2>1. p \in Addresses /\ p \notin {s[k] : k \in DOMAIN s} /\ h[p].next = NULL
        BY <1>5, <1>6, <1>7
    <2>2. Queue!PacketPush(p, h, head, tail)
        BY <1>4 DEF h
    <2> QED
        BY <1>2, <1>6, <1>8, <2>1, <2>2, PushDone
<1>10. Append(s, p) \in Seq(Addresses)
       /\ {Append(s, p)[k] : k \in DOMAIN Append(s, p)} \subseteq used \cup {p}
    BY <1>1, <1>2, <1>4, OnlyAdded
<1>11. QueueInv'
    <2>1. QueueAt(Append(s, p))'
        BY <1>4, <1>9, <1>10 DEF QueueAt
    <2>2. used' \subseteq Addresses /\ new' \in 0..MaxNew
        BY <1>2, <1>3, <1>4 DEF BoundAssumption
    <2> QED
        BY <1>9, <1>10, <2>1, <2>2 DEF QueueInv
<1>12. Queue!Fifo' = Append(Queue!Fifo, [num |-> new + 1, left |-> Size])
    <2>1. Queue!Fifo = View(s, heap) /\ Queue!Fifo' = View(Append(s, p), heap')
        BY <1>2, <1>9, FifoIs
    <2>2. \A k \in DOMAIN s : Rest(heap'[s[k]]) = Rest(heap[s[k]])
        BY <1>6, <1>7, <1>9
    <2>3. View(Append(s, p), heap') = Append(View(s, heap), Rest(heap'[p]))
        BY <1>1, <1>4, <2>2, ViewPushed
    <2>4. Rest(heap'[p]) = [num |-> new + 1, left |-> Size]
        BY <1>4, <1>5, <1>6, <1>9
    <2> QED
        BY <2>1, <2>3, <2>4
<1>13. /\ Rest(heap'[p]) = [num |-> new + 1, left |-> Size]
       /\ \A a \in Addresses \ {p} : Rest(heap'[a]) = Rest(heap[a])
    BY <1>4, <1>5, <1>6, <1>9
<1>14. Queue!P!Queue
    BY <1>3, <1>12 DEF Queue!P!Queue
<1> QED
    BY <1>4, <1>11, <1>13, <1>14

(* What SendFailed and SentAll leave: the queue without its first packet.  *)
LEMMA PopKeeps ==
    ASSUME HeapAssumption, BoundAssumption, QueueInv, head # NULL,
           head' = Queue!Popped.head, tail' = Queue!Popped.tail, heap' = Queue!Popped.heap,
           used' = used \/ used' = used \ {head}, new' = new
    PROVE  /\ QueueInv'
           /\ Queue!Fifo # <<>> /\ Queue!Fifo' = Tail(Queue!Fifo)
           /\ Head(Queue!Fifo) = Rest(heap[head])
           /\ head \in used /\ \A a \in Addresses : Rest(heap'[a]) = Rest(heap[a])
<1>1. PICK s : s \in Seq(Addresses) /\ QueueAt(s)
    BY DEF QueueInv
<1> DEFINE t == Tail(s)
<1>2. /\ s # <<>> /\ head = Head(s) /\ head \in used
      /\ heap' \in [Addresses -> Packet]
      /\ LinkedFrom(t, Links(heap'), head') /\ tail' = LastOf(t)
      /\ head \notin {t[k] : k \in DOMAIN t} /\ {t[k] : k \in DOMAIN t} \subseteq used
      /\ \A b \in Addresses : Rest(heap'[b]) = Rest(heap[b])
    BY <1>1, PopDone
<1>3. used \subseteq Addresses /\ new \in 0..MaxNew /\ LinkedFrom(s, Links(heap), head)
    BY <1>1 DEF QueueInv, QueueAt
<1>4. View(s, heap) # <<>> /\ Head(View(s, heap)) = Rest(heap[Head(s)])
      /\ View(t, heap') = Tail(View(s, heap))
    BY <1>1, <1>2, ViewPopped
<1>5. Queue!Fifo = View(s, heap) /\ Queue!Fifo' = View(t, heap')
    BY <1>2, <1>3, FifoIs
<1>6. t \in Seq(Addresses)
    BY <1>2 DEF LinkedFrom
<1> HIDE DEF t
<1>7. {t[k] : k \in DOMAIN t} \subseteq used' /\ used' \subseteq Addresses
    BY <1>2, <1>3
<1>8. QueueAt(t)'
    BY <1>2, <1>7 DEF QueueAt
<1>9. QueueInv'
    BY <1>2, <1>3, <1>6, <1>7, <1>8 DEF QueueInv
<1> QED
    BY <1>2, <1>4, <1>5, <1>9

(* sendto took all of the first packet.                                    *)
LEMMA AllMaps ==
    ASSUME HeapAssumption, BoundAssumption, QueueInv, Queue!SentAll
    PROVE  QueueInv' /\ Queue!P!SendAll
<1>1. /\ head # NULL /\ out' = Append(out, <<heap[head].num, heap[head].left>>)
      /\ used' = used \ {head} /\ new' = new
      /\ head' = Queue!Popped.head /\ tail' = Queue!Popped.tail /\ heap' = Queue!Popped.heap
    BY DEF Queue!SentAll
<1>2. /\ QueueInv' /\ Queue!Fifo # <<>> /\ Queue!Fifo' = Tail(Queue!Fifo)
      /\ Head(Queue!Fifo) = Rest(heap[head])
    BY <1>1, PopKeeps
<1>3. Rest(heap[head]).num = heap[head].num /\ Rest(heap[head]).left = heap[head].left
    BY DEF Rest
<1> QED
    BY <1>1, <1>2, <1>3 DEF Queue!P!SendAll

(* sendto failed: the first packet is dropped, and never freed.            *)
LEMMA FailMaps ==
    ASSUME HeapAssumption, BoundAssumption, QueueInv, Queue!SendFailed
    PROVE  QueueInv' /\ Queue!P!Fail
<1>1. /\ head # NULL /\ out' = out /\ used' = used /\ new' = new
      /\ head' = Queue!Popped.head /\ tail' = Queue!Popped.tail /\ heap' = Queue!Popped.heap
    BY DEF Queue!SendFailed
<1>2. QueueInv' /\ Queue!Fifo # <<>> /\ Queue!Fifo' = Tail(Queue!Fifo)
    BY <1>1, PopKeeps
<1> QED
    BY <1>1, <1>2 DEF Queue!P!Fail

(* sendto took b bytes of the first packet: its rest goes to the end, in   *)
(* the same cell, and its turn comes after the packets behind it.          *)
LEMMA SomeMaps ==
    ASSUME HeapAssumption, BoundAssumption, QueueInv, Queue!SentSome
    PROVE  /\ QueueInv' /\ Queue!P!SendSome
           /\ head \in used
           /\ \E b \in 1..(heap[head].left - 1) :
                 /\ out' = Append(out, <<heap[head].num, b>>)
                 /\ Rest(heap'[head]) = [num |-> heap[head].num, left |-> heap[head].left - b]
                 /\ \A a \in Addresses \ {head} : Rest(heap'[a]) = Rest(heap[a])
<1>1. PICK s : s \in Seq(Addresses) /\ QueueAt(s)
    BY DEF QueueInv
<1>2. PICK b \in 1..(heap[head].left - 1) :
          /\ out' = Append(out, <<heap[head].num, b>>)
          /\ Queue!PacketPush(head, [Queue!Popped.heap EXCEPT ![head].left = @ - b],
                              Queue!Popped.head, Queue!Popped.tail)
    BY DEF Queue!SentSome
<1>3. head # NULL /\ used' = used /\ new' = new
    BY DEF Queue!SentSome
<1> DEFINE t == Tail(s)
           g == Queue!Popped.heap
           h == [g EXCEPT ![head].left = @ - b]
<1>4. /\ s # <<>> /\ head = Head(s) /\ head \in Addresses /\ head \in used
      /\ g \in [Addresses -> Packet] /\ g[head].next = NULL
      /\ LinkedFrom(t, Links(g), Queue!Popped.head) /\ Queue!Popped.tail = LastOf(t)
      /\ head \notin {t[k] : k \in DOMAIN t} /\ {t[k] : k \in DOMAIN t} \subseteq used
      /\ \A a \in Addresses : Rest(g[a]) = Rest(heap[a])
    BY <1>1, <1>3, PopDone
<1>5. /\ heap \in [Addresses -> Packet] /\ used \subseteq Addresses /\ new \in 0..MaxNew
      /\ LinkedFrom(s, Links(heap), head)
    BY <1>1 DEF QueueInv, QueueAt
<1> HIDE DEF g
<1>6. heap[head].left - b \in 0..Size /\ g[head].left = heap[head].left
      /\ g[head].num = heap[head].num
    <2>1. heap[head].left \in 0..Size
        BY <1>4, <1>5 DEF Packet
    <2>2. Rest(g[head]) = Rest(heap[head])
        BY <1>4
    <2>3. g[head].left = heap[head].left /\ g[head].num = heap[head].num
        BY <2>2, Zenon DEF Rest
    <2>4. b \in Nat /\ 1 <= b /\ b <= heap[head].left - 1
        BY <1>2, <2>1 DEF BoundAssumption
    <2> QED
        BY <2>1, <2>3, <2>4 DEF BoundAssumption
<1>7. /\ h \in [Addresses -> Packet] /\ Links(h) = Links(g) /\ h[head].next = NULL
      /\ Rest(h[head]) = [num |-> heap[head].num, left |-> heap[head].left - b]
      /\ \A a \in Addresses : a # head => Rest(h[a]) = Rest(heap[a])
    <2>1. /\ \A a \in Addresses : /\ h[a].num = g[a].num /\ h[a].next = g[a].next
                                  /\ h[a].left = IF a = head THEN heap[head].left - b
                                                 ELSE g[a].left
          /\ h \in [Addresses -> Packet]
        BY <1>4, <1>6 DEF Packet
    <2> HIDE DEF h
    <2>2. Links(h) = Links(g)
        BY <2>1 DEF Links
    <2>3. Rest(h[head]) = [num |-> heap[head].num, left |-> heap[head].left - b]
        BY <1>4, <1>6, <2>1 DEF Rest
    <2>4. ASSUME NEW a \in Addresses, a # head PROVE Rest(h[a]) = Rest(heap[a])
        <3>1. Rest(h[a]) = Rest(g[a])
            BY <2>1, <2>4 DEF Rest
        <3> QED
            BY <1>4, <3>1
    <2> QED
        BY <1>4, <2>1, <2>2, <2>3, <2>4
<1>8. Queue!PacketPush(head, h, Queue!Popped.head, Queue!Popped.tail)
    BY <1>2 DEF g
<1> HIDE DEF h
<1>9. /\ heap' \in [Addresses -> Packet]
      /\ LinkedFrom(Append(t, head), Links(heap'), head')
      /\ tail' = LastOf(Append(t, head))
      /\ \A a \in Addresses : Rest(heap'[a]) = Rest(h[a])
    BY ZenonT(30), <1>4, <1>7, <1>8, PushDone
<1>10. t \in Seq(Addresses)
    BY <1>4 DEF LinkedFrom
<1>11. View(s, heap) # <<>> /\ Head(View(s, heap)) = Rest(heap[head])
       /\ View(t, heap) = Tail(View(s, heap))
    BY <1>1, <1>4, ViewPopped
<1> HIDE DEF t
<1>12. \A k \in DOMAIN t : t[k] \in Addresses /\ t[k] # head
    BY <1>4, <1>5
<1>13. View(Append(t, head), heap') = Append(View(t, heap), Rest(heap'[head]))
    <2>1. \A k \in DOMAIN t : Rest(heap'[t[k]]) = Rest(heap[t[k]])
        BY <1>7, <1>9, <1>12
    <2> QED
        BY <1>4, <1>10, <2>1, ViewPushed
<1>14. Queue!Fifo = View(s, heap) /\ Queue!Fifo' = View(Append(t, head), heap')
    BY <1>5, <1>9, FifoIs
<1>15. Append(t, head) \in Seq(Addresses)
       /\ {Append(t, head)[k] : k \in DOMAIN Append(t, head)} \subseteq used \cup {head}
    BY <1>4, <1>10, OnlyAdded
<1>16. QueueInv'
    <2>1. PICK u : u = Append(t, head)
        OBVIOUS
    <2>2. u \in Seq(Addresses) /\ {u[k] : k \in DOMAIN u} \subseteq used'
        BY <1>3, <1>4, <1>15, <2>1
    <2>3. QueueAt(u)'
        BY <1>9, <2>1, <2>2 DEF QueueAt
    <2> QED
        BY <1>3, <1>5, <1>9, <2>2, <2>3 DEF QueueInv
<1>17. /\ Queue!Fifo # <<>> /\ Head(Queue!Fifo) = Rest(heap[head])
       /\ Queue!Fifo' = Append(Tail(Queue!Fifo),
                               [num |-> heap[head].num, left |-> heap[head].left - b])
    <2>1. Rest(heap'[head]) = [num |-> heap[head].num, left |-> heap[head].left - b]
        BY <1>4, <1>7, <1>9
    <2> QED
        BY <1>11, <1>13, <1>14, <2>1
<1>18. /\ Rest(heap[head]).num = heap[head].num /\ Rest(heap[head]).left = heap[head].left
       /\ [Rest(heap[head]) EXCEPT !.left = @ - b]
             = [num |-> heap[head].num, left |-> heap[head].left - b]
    BY DEF Rest
<1>19. Queue!P!SendSome
    BY <1>2, <1>3, <1>17, <1>18 DEF Queue!P!SendSome
<1>20. /\ Rest(heap'[head]) = [num |-> heap[head].num, left |-> heap[head].left - b]
       /\ \A a \in Addresses \ {head} : Rest(heap'[a]) = Rest(heap[a])
    BY <1>4, <1>7, <1>9
<1> QED
    BY <1>2, <1>4, <1>16, <1>19, <1>20

(* Nothing queued to begin with.                                           *)
LEMMA QueueStart ==
    ASSUME HeapAssumption, BoundAssumption, Queue!Init
    PROVE  QueueInv /\ Queue!P!Init
<1>1. /\ head = NULL /\ tail = NULL /\ used = {} /\ new = 0 /\ out = <<>>
      /\ heap = [p \in Addresses |-> [num |-> 0, left |-> 0, next |-> NULL]]
    BY DEF Queue!Init, Queue!Blank
<1>2. heap \in [Addresses -> Packet]
    <2>1. 0 \in 0..MaxNew /\ 0 \in 0..Size /\ NULL \in Pointer
        BY DEF BoundAssumption, Pointer
    <2>2. [num |-> 0, left |-> 0, next |-> NULL] \in Packet
        BY <2>1, Zenon DEF Packet
    <2> QED
        BY <1>1, <2>2
<1>3. <<>> \in Seq(Addresses) /\ DOMAIN <<>> = {}
    OBVIOUS
<1>4. LinkedFrom(<<>>, Links(heap), head) /\ QueueAt(<<>>)
    BY <1>1, <1>3 DEF QueueAt, LinkedFrom, LastOf
<1>5. Queue!Fifo = <<>>
    <2>1. Queue!Fifo = View(<<>>, heap)
        BY <1>4, FifoIs
    <2>2. View(<<>>, heap) = <<>>
        BY <1>3 DEF View
    <2> QED
        BY <2>1, <2>2
<1>6. 0 \in 0..MaxNew
    BY DEF BoundAssumption
<1> QED
    BY <1>1, <1>2, <1>3, <1>4, <1>5, <1>6 DEF QueueInv, Queue!P!Init

(* What is kept says that the pointers are sound.                          *)
LEMMA QueueTypes ==
    ASSUME HeapAssumption, QueueInv
    PROVE  Queue!TypeOK
<1>1. PICK s : s \in Seq(Addresses) /\ QueueAt(s)
    BY DEF QueueInv
<1>2. /\ heap \in [Addresses -> Packet] /\ used \subseteq Addresses /\ new \in 0..MaxNew
      /\ LinkedFrom(s, Links(heap), head) /\ tail = LastOf(s)
      /\ {s[k] : k \in DOMAIN s} \subseteq used
    BY <1>1 DEF QueueInv, QueueAt
<1>3. Queue!Listed = s
    BY <1>2, FifoIs
<1>4. /\ \A j, k \in DOMAIN s : s[j] = s[k] => j = k
      /\ head = IF s = <<>> THEN NULL ELSE s[1]
      /\ \A k \in DOMAIN s : Links(heap)[s[k]] = IF k = Len(s) THEN NULL ELSE s[k + 1]
    BY <1>2 DEF LinkedFrom
<1>5. s # <<>> => /\ 1 \in DOMAIN s /\ Len(s) \in DOMAIN s
                  /\ s[1] \in Addresses /\ s[Len(s)] \in Addresses
    <2>1. s # <<>> => 1 \in 1..Len(s) /\ Len(s) \in 1..Len(s)
        BY <1>1, EmptySeq
    <2> QED
        BY <1>1, <2>1, LenProperties, ElementOfSeq
<1>6. IF head = NULL THEN tail = NULL ELSE tail = s[Len(s)] /\ heap[tail].next = NULL
    <2>1. CASE s = <<>>
        BY <1>2, <1>4, <2>1 DEF LastOf
    <2>2. CASE s # <<>>
        <3>1. head # NULL /\ tail = s[Len(s)] /\ tail \in Addresses
            BY <1>2, <1>4, <1>5, <2>2 DEF LastOf, HeapAssumption
        <3>2. Links(heap)[tail] = NULL
            BY <1>4, <1>5, <2>2, <3>1
        <3>3. heap[tail].next = NULL
            BY <3>1, <3>2 DEF Links
        <3> QED
            BY <3>1, <3>3
    <2> QED
        BY <2>1, <2>2
<1>7. heap \in [Addresses -> Queue!Entry]
    BY <1>2 DEF Queue!Entry, Packet, Queue!Pointer, Pointer
<1> QED
    BY <1>2, <1>3, <1>4, <1>6, <1>7 DEF Queue!TypeOK

(* A step of the linked list is one of the queue, or nothing to it.        *)
LEMMA QueueStep ==
    ASSUME HeapAssumption, BoundAssumption, QueueInv, [Queue!Next]_(Queue!qvars)
    PROVE  QueueInv' /\ [Queue!P!Next]_(Queue!P!fvars)
<1>1. CASE UNCHANGED Queue!qvars
    <2>1. /\ head' = head /\ tail' = tail /\ heap' = heap /\ used' = used
          /\ new' = new /\ out' = out
        BY <1>1 DEF Queue!qvars
    <2>2. PICK s \in Seq(Addresses) : QueueAt(s)
        BY DEF QueueInv
    <2>3. LinkedFrom(s, Links(heap), head) /\ LinkedFrom(s, Links(heap'), head')
        BY <2>1, <2>2 DEF QueueAt
    <2>4. Queue!Fifo' = Queue!Fifo
        BY <2>1, <2>3, FifoIs
    <2>5. QueueAt(s)'
        BY <2>1, <2>2 DEF QueueAt
    <2> QED
        BY <2>1, <2>4, <2>5 DEF QueueInv, Queue!P!fvars
<1>2. CASE Queue!PacketNew
    BY <1>2, NewMaps DEF Queue!P!Next
<1>3. CASE Queue!SendFailed
    BY <1>3, FailMaps DEF Queue!P!Next
<1>4. CASE Queue!SentSome
    BY <1>4, SomeMaps DEF Queue!P!Next
<1>5. CASE Queue!SentAll
    BY <1>5, AllMaps DEF Queue!P!Next
<1> QED
    BY <1>1, <1>2, <1>3, <1>4, <1>5 DEF Queue!Next, Queue!PeerPacketOps

(* The pointers of the output queue are sound for any heap: no packet on   *)
(* the list is freed or on it twice, and the list ends at tail.            *)
THEOREM QueueSound == Queue!Spec => []Queue!TypeOK
<1> SUFFICES ASSUME HeapAssumption, BoundAssumption PROVE Queue!Spec => []Queue!TypeOK
    BY PartsAssumption, OutputQueueAssumed
<1>1. Queue!Init => QueueInv
    BY QueueStart
<1>2. QueueInv /\ [Queue!Next]_(Queue!qvars) => QueueInv'
    BY QueueStep
<1>3. QueueInv => Queue!TypeOK
    BY QueueTypes
<1> QED
    BY <1>1, <1>2, <1>3, PTL DEF Queue!Spec

(* The linked list of queue.c is a queue, whatever addresses malloc gives  *)
(* out again: packets leave in the order in which they came, and none is   *)
(* lost, overtaken or sent twice by a wrong link.                          *)
THEOREM QueueIsFifo == Queue!Spec => ImplementsFifo
<1> SUFFICES ASSUME HeapAssumption, BoundAssumption PROVE Queue!Spec => Queue!ImplementsFifo
    BY PartsAssumption, OutputQueueAssumed DEF ImplementsFifo
<1>1. Queue!Init => QueueInv /\ Queue!P!Init
    BY QueueStart
<1>2. QueueInv /\ [Queue!Next]_(Queue!qvars) => QueueInv' /\ [Queue!P!Next]_(Queue!P!fvars)
    BY QueueStep
<1> QED
    BY <1>1, <1>2, PTL DEF Queue!Spec, Queue!ImplementsFifo, Queue!P!Spec

-----------------------------------------------------------------------------
(* The bytes of the packets.                                               *)

(* f sums up, send by send, the bytes of the n-th packet in o.             *)
Totals(f, o, n) ==
    f = [k \in 0..Len(o) |->
            IF k = 0 THEN 0 ELSE f[k - 1] + (IF o[k][1] = n THEN o[k][2] ELSE 0)]

SentIs(o, n, x) == \E f \in [0..Len(o) -> Nat] : Totals(f, o, n) /\ x = f[Len(o)]

(* Nothing was sent to begin with.                                         *)
LEMMA NoneSent ==
    ASSUME NEW n
    PROVE  SentIs(<<>>, n, 0)
<1> DEFINE f == [k \in 0..0 |-> 0]
<1>1. Len(<<>>) = 0
    OBVIOUS
<1>2. f \in [0..Len(<<>>) -> Nat] /\ f[Len(<<>>)] = 0
    BY <1>1
<1>3. \A k \in 0..0 : k = 0
    OBVIOUS
<1>4. Totals(f, <<>>, n)
    BY <1>1, <1>3 DEF Totals
<1> HIDE DEF f
<1> QED
    BY <1>2, <1>4 DEF SentIs

(* One more send adds its bytes to those of its packet.                    *)
LEMMA SentMore ==
    ASSUME NEW n, NEW o \in Seq(Nat \X Nat), NEW x, SentIs(o, n, x),
           NEW a \in Nat, NEW b \in Nat
    PROVE  SentIs(Append(o, <<a, b>>), n, x + (IF a = n THEN b ELSE 0))
<1> DEFINE L == Len(o)
           e == <<a, b>>
           t == Append(o, e)
           more == IF a = n THEN b ELSE 0
<1>1. L \in Nat /\ e \in Nat \X Nat /\ e[1] = a /\ e[2] = b
    BY LenProperties
<1> HIDE DEF e
<1>2. /\ Len(t) = L + 1 /\ t[L + 1] = e
      /\ \A k \in 1..L : t[k] = o[k]
    BY <1>1, AppendProperties
<1>3. PICK f \in [0..L -> Nat] : Totals(f, o, n) /\ x = f[L]
    BY DEF SentIs
<1>4. \A k \in 0..L :
        f[k] = IF k = 0 THEN 0 ELSE f[k - 1] + (IF o[k][1] = n THEN o[k][2] ELSE 0)
    BY <1>3 DEF Totals
<1> HIDE DEF t, L
<1>5. L \in 0..L /\ f[L] \in Nat /\ more \in Nat
    BY <1>1, <1>3
<1> HIDE DEF more
<1> DEFINE g == [k \in 0..(L + 1) |-> IF k = L + 1 THEN f[L] + more ELSE f[k]]
<1>6. \A k \in 0..(L + 1) : k = L + 1 \/ k \in 0..L
    BY <1>1
<1>7. g \in [0..(L + 1) -> Nat] /\ g[L + 1] = f[L] + more
    BY <1>1, <1>3, <1>5, <1>6
<1>8. \A k \in 0..L : g[k] = f[k]
    BY <1>1
<1>9. ASSUME NEW k \in 0..(L + 1)
      PROVE  g[k] = IF k = 0 THEN 0 ELSE g[k - 1] + (IF t[k][1] = n THEN t[k][2] ELSE 0)
    <2> HIDE DEF g
    <2>1. CASE k = L + 1
        <3>1. k # 0 /\ k - 1 = L
            BY <1>1, <2>1
        <3>2. (IF t[k][1] = n THEN t[k][2] ELSE 0) = more
            BY <1>1, <1>2, <2>1 DEF more
        <3>3. g[k] = f[L] + more /\ g[k - 1] = f[L]
            BY <1>5, <1>7, <1>8, <2>1, <3>1
        <3> QED
            BY <3>1, <3>2, <3>3
    <2>2. CASE k = 0
        BY <1>1, <1>4, <1>8, <2>2
    <2>3. CASE k # 0 /\ k # L + 1
        <3>1. k \in 1..L /\ k \in 0..L /\ k - 1 \in 0..L
            BY <1>1, <2>3
        <3>2. g[k] = f[k] /\ g[k - 1] = f[k - 1] /\ t[k] = o[k]
            BY <1>2, <1>8, <3>1
        <3>3. f[k] = f[k - 1] + (IF o[k][1] = n THEN o[k][2] ELSE 0)
            BY <1>4, <2>3, <3>1
        <3> QED
            BY <2>3, <3>2, <3>3
    <2> QED
        BY <2>1, <2>2, <2>3
<1>10. Totals(g, t, n)
    <2> DEFINE Step(k) == IF k = 0 THEN 0 ELSE g[k - 1] + (IF t[k][1] = n THEN t[k][2] ELSE 0)
    <2>1. \A k \in 0..(L + 1) : g[k] = Step(k)
        BY <1>9
    <2>2. g = [k \in 0..(L + 1) |-> g[k]]
        BY <1>7
    <2> HIDE DEF Step, g
    <2>3. g = [k \in 0..(L + 1) |-> Step(k)]
        BY <2>1, <2>2
    <2> QED
        BY <1>2, <2>3 DEF Totals, Step
<1>11. SentIs(t, n, f[L] + more)
    <2> HIDE DEF g
    <2> QED
        BY <1>2, <1>7, <1>10 DEF SentIs
<1> QED
    BY <1>3, <1>11 DEF t, e, more, L

(* The recursion of Sent comes to that sum.                                *)
LEMMA SentIsSum ==
    ASSUME NEW n, NEW x, out \in Seq(Nat \X Nat), SentIs(out, n, x)
    PROVE  Queue!Sent(n) = x
<1> DEFINE L == Len(out)
           g == CHOOSE f : Totals(f, out, n)
<1>1. L \in Nat
    BY LenProperties
<1>2. PICK f \in [0..L -> Nat] : Totals(f, out, n) /\ x = f[L]
    BY DEF SentIs
<1>3. Totals(g, out, n)
    BY <1>2
<1>4. Queue!Sent(n) = g[L]
    BY DEF Queue!Sent, Totals
<1> HIDE DEF g, L
<1> DEFINE more(k) == IF out[k][1] = n THEN out[k][2] ELSE 0
<1>5. /\ \A k \in 0..L : f[k] = IF k = 0 THEN 0 ELSE f[k - 1] + more(k)
      /\ \A k \in 0..L : g[k] = IF k = 0 THEN 0 ELSE g[k - 1] + more(k)
    BY <1>2, <1>3 DEF Totals, L
<1> HIDE DEF more
<1>6. \A k \in 0..L : g[k] = f[k]
    <2> DEFINE S == {k \in 0..L : g[k] # f[k]}
    <2>1. SUFFICES ASSUME S # {} PROVE FALSE
        OBVIOUS
    <2>2. S \in SUBSET Nat
        OBVIOUS
    <2> DEFINE m == Min(S)
    <2>3. m \in S /\ \A k \in S : m <= k
        <3> HIDE DEF S
        <3> QED
            BY <2>1, <2>2, LeastIsOne
    <2> HIDE DEF m
    <2>4. m \in 0..L /\ g[m] # f[m]
        BY <2>3
    <2>5. m # 0 => m - 1 \in 0..L /\ m - 1 \notin S
        <3>1. m \in Nat /\ (m # 0 => m - 1 \in 0..L) /\ ~(m <= m - 1)
            BY <1>1, <2>4
        <3> HIDE DEF S
        <3> QED
            BY <2>3, <3>1
    <2>6. m # 0 => g[m - 1] = f[m - 1]
        BY <2>5
    <2> QED
        BY <1>5, <2>4, <2>6
<1> QED
    BY <1>1, <1>2, <1>4, <1>6

(* The n-th packet has x bytes in the heap.                                *)
HeldIs(n, x) ==
    \/ x = 0 /\ \A p \in used : heap[p].num # n
    \/ \E p \in used : heap[p].num = n /\ x = heap[p].left

(* The packets allocated are of different numbers, all given out, and what *)
(* was sent of each makes up with what is left of it the whole packet.     *)
BytesInv ==
    /\ out \in Seq(Nat \X Nat)
    /\ \A p \in used : heap[p].num \in 1..new
    /\ \A p, q \in used : heap[p].num = heap[q].num => p = q
    /\ \A n \in Nat : n \notin 1..new => SentIs(out, n, 0)
    /\ \A n \in 1..new : \E x, y \in Nat : SentIs(out, n, x) /\ HeldIs(n, y) /\ x + y = Size

(* The sums of the model are those of the invariant.                       *)
LEMMA BytesMeant ==
    ASSUME BytesInv, BoundAssumption
    PROVE  Queue!BytesAccounted
<1>1. ASSUME NEW n \in 1..new
      PROVE  Queue!Sent(n) + Queue!Held(n) = Size
    <2>1. PICK x \in Nat, y \in Nat : SentIs(out, n, x) /\ HeldIs(n, y) /\ x + y = Size
        BY DEF BytesInv
    <2>2. Queue!Sent(n) = x
        BY <2>1, SentIsSum DEF BytesInv
    <2>3. Queue!Held(n) = y
        <3>1. CASE \A p \in used : heap[p].num # n
            BY <2>1, <3>1 DEF HeldIs, Queue!Held
        <3>2. CASE \E p \in used : heap[p].num = n
            <4>1. PICK p \in used : heap[p].num = n /\ y = heap[p].left
                BY <2>1, <3>2 DEF HeldIs
            <4> DEFINE q == CHOOSE r \in used : heap[r].num = n
            <4>2. q \in used /\ heap[q].num = n
                BY <4>1
            <4>3. Queue!Held(n) = heap[q].left
                BY <4>1 DEF Queue!Held
            <4> HIDE DEF q
            <4>4. q = p
                BY <4>1, <4>2 DEF BytesInv
            <4> QED
                BY <4>1, <4>3, <4>4
        <3> QED
            BY <3>1, <3>2
    <2> QED
        BY <2>1, <2>2, <2>3
<1> QED
    BY <1>1 DEF BytesInv, Queue!BytesAccounted

(* A step that frees, or drops, and sends nothing of any other packet.     *)
LEMMA BytesLeft ==
    ASSUME BytesInv, BoundAssumption, new' = new, new \in Nat, used \subseteq Addresses,
           head \in used, used' = used \/ used' = used \ {head},
           \A a \in Addresses : heap'[a].num = heap[a].num,
           \A a \in Addresses : a # head => heap'[a].left = heap[a].left,
           NEW b \in Nat, heap[head].left \in Nat, b <= heap[head].left,
           used' = used => heap'[head].left = heap[head].left - b,
           used' # used => heap[head].left = b,
           out' = Append(out, <<heap[head].num, b>>) \/ (out' = out /\ b = 0)
    PROVE  BytesInv'
<1> DEFINE m == heap[head].num
<1>1. /\ out \in Seq(Nat \X Nat)
      /\ \A p \in used : heap[p].num \in 1..new
      /\ \A p, q \in used : heap[p].num = heap[q].num => p = q
      /\ \A n \in Nat : n \notin 1..new => SentIs(out, n, 0)
      /\ \A n \in 1..new : \E x, y \in Nat : SentIs(out, n, x) /\ HeldIs(n, y) /\ x + y = Size
    BY DEF BytesInv
<1>2. m \in 1..new /\ m \in Nat
    BY <1>1
<1>3. used' \subseteq used /\ \A p \in used' : p \in Addresses
    OBVIOUS
<1>4. out' \in Seq(Nat \X Nat)
    <2>1. <<m, b>> \in Nat \X Nat
        BY <1>2
    <2> HIDE DEF m
    <2>2. Append(out, <<m, b>>) \in Seq(Nat \X Nat)
        BY <1>1, <2>1, AppendProperties
    <2> QED
        BY <1>1, <2>2 DEF m
<1>5. \A n, x : SentIs(out, n, x) /\ x \in Nat => SentIs(out', n, x + (IF m = n THEN b ELSE 0))
    <2> SUFFICES ASSUME NEW n, NEW x \in Nat, SentIs(out, n, x)
                 PROVE  SentIs(out', n, x + (IF m = n THEN b ELSE 0))
        OBVIOUS
    <2> HIDE DEF m
    <2>1. CASE out' = Append(out, <<heap[head].num, b>>)
        BY <1>1, <1>2, <2>1, SentMore DEF m
    <2>2. CASE out' = out /\ b = 0
        <3>1. x + (IF m = n THEN b ELSE 0) = x
            BY <2>2
        <3> QED
            BY <2>2, <3>1
    <2> QED
        BY <2>1, <2>2
<1>6. ASSUME NEW n \in Nat, n \notin 1..new' PROVE SentIs(out', n, 0)
    <2>1. SentIs(out, n, 0) /\ m # n
        BY <1>1, <1>2, <1>6
    <2>2. SentIs(out', n, 0 + (IF m = n THEN b ELSE 0))
        BY <1>5, <2>1
    <2>3. 0 + (IF m = n THEN b ELSE 0) = 0
        BY <2>1
    <2> QED
        BY <2>2, <2>3
<1>7. ASSUME NEW n \in 1..new'
      PROVE  \E x, y \in Nat : SentIs(out', n, x) /\ HeldIs(n, y)' /\ x + y = Size
    <2>1. PICK x \in Nat, y \in Nat : SentIs(out, n, x) /\ HeldIs(n, y) /\ x + y = Size
        BY <1>1, <1>7
    <2>2. CASE n # m
        <3>1. SentIs(out', n, x)
            <4>1. SentIs(out', n, x + (IF m = n THEN b ELSE 0))
                BY <1>5, <2>1
            <4>2. x + (IF m = n THEN b ELSE 0) = x
                BY <2>2
            <4> QED
                BY <4>1, <4>2
        <3>2. HeldIs(n, y)'
            <4>1. CASE \A p \in used : heap[p].num # n
                BY <1>3, <2>1, <4>1 DEF HeldIs
            <4>2. CASE \E p \in used : heap[p].num = n
                <5>1. PICK p \in used : heap[p].num = n /\ y = heap[p].left
                    BY <2>1, <4>2 DEF HeldIs
                <5>2. p # head /\ p \in used' /\ p \in Addresses
                    BY <2>2, <5>1
                <5> QED
                    BY <5>1, <5>2 DEF HeldIs
            <4> QED
                BY <4>1, <4>2
        <3> QED
            BY <2>1, <3>1, <3>2
    <2>3. CASE n = m
        <3>1. y = heap[head].left
            BY <1>1, <2>1, <2>3 DEF HeldIs
        <3>2. SentIs(out', n, x + b)
            <4>1. SentIs(out', n, x + (IF m = n THEN b ELSE 0))
                BY <1>5, <2>1
            <4>2. (IF m = n THEN b ELSE 0) = b
                BY <2>3
            <4> QED
                BY <4>1, <4>2
        <3>3. x + b \in Nat /\ y - b \in Nat /\ (x + b) + (y - b) = Size
            <4>1. b \in Nat /\ b <= y
                BY <3>1
            <4> QED
                BY ONLY <2>1, <4>1
        <3>4. HeldIs(n, y - b)'
            <4>1. CASE used' = used
                <5>1. heap'[head].num = n /\ heap'[head].left = y - b /\ head \in used'
                    BY <1>3, <2>3, <3>1, <4>1
                <5> QED
                    BY <5>1 DEF HeldIs
            <4>2. CASE used' # used
                <5>1. y - b = 0 /\ used' = used \ {head}
                    BY <3>1, <4>2
                <5>2. \A p \in used' : heap'[p].num # n
                    BY <1>1, <1>3, <2>3, <5>1
                <5> QED
                    BY <5>1, <5>2 DEF HeldIs
            <4> QED
                BY <4>1, <4>2
        <3> QED
            BY <3>2, <3>3, <3>4
    <2> QED
        BY <2>2, <2>3
<1>8. /\ \A p \in used' : heap'[p].num \in 1..new'
      /\ \A p, q \in used' : heap'[p].num = heap'[q].num => p = q
    BY <1>1, <1>3
<1> QED
    BY <1>4, <1>6, <1>7, <1>8 DEF BytesInv

(* What is seen of a packet is its number and its length.                  *)
LEMMA RestIs ==
    ASSUME NEW e, NEW m, NEW l
    PROVE  /\ Rest(e) = [num |-> m, left |-> l] => e.num = m /\ e.left = l
           /\ \A f : Rest(e) = Rest(f) => e.num = f.num /\ e.left = f.left
<1>1. ASSUME NEW a, NEW b, NEW c, NEW d, [num |-> a, left |-> b] = [num |-> c, left |-> d]
      PROVE  a = c /\ b = d
    <2>1. [num |-> a, left |-> b].num = a /\ [num |-> a, left |-> b].left = b
        OBVIOUS
    <2>2. [num |-> c, left |-> d].num = c /\ [num |-> c, left |-> d].left = d
        OBVIOUS
    <2> QED
        BY <1>1, <2>1, <2>2
<1> QED
    BY <1>1 DEF Rest

(* A packet queued is all in the heap, and it alone has its number.        *)
LEMMA BytesNew ==
    ASSUME HeapAssumption, BoundAssumption, QueueInv, BytesInv, Queue!PacketNew
    PROVE  BytesInv'
<1>1. PICK p \in Addresses \ used :
          /\ used' = used \cup {p}
          /\ Rest(heap'[p]) = [num |-> new + 1, left |-> Size]
          /\ \A a \in Addresses \ {p} : Rest(heap'[a]) = Rest(heap[a])
    BY NewMaps
<1>2. /\ used \subseteq Addresses /\ new \in Nat /\ Size \in Nat
      /\ new' = new + 1 /\ out' = out
    BY DEF QueueInv, Queue!PacketNew, BoundAssumption
<1>3. /\ heap'[p].num = new + 1 /\ heap'[p].left = Size
      /\ \A a \in used : a # p /\ heap'[a].num = heap[a].num /\ heap'[a].left = heap[a].left
    BY <1>1, <1>2, RestIs
<1>4. /\ out \in Seq(Nat \X Nat)
      /\ \A a \in used : heap[a].num \in 1..new
      /\ \A a, b \in used : heap[a].num = heap[b].num => a = b
      /\ \A n \in Nat : n \notin 1..new => SentIs(out, n, 0)
      /\ \A n \in 1..new : \E x, y \in Nat : SentIs(out, n, x) /\ HeldIs(n, y) /\ x + y = Size
    BY DEF BytesInv
<1>5. \A a \in used : heap[a].num # new + 1
    BY <1>2, <1>4
<1>6. /\ \A a \in used' : heap'[a].num \in 1..new'
      /\ \A a, b \in used' : heap'[a].num = heap'[b].num => a = b
    BY SMTT(30), <1>1, <1>2, <1>3, <1>4, <1>5
<1>7. \A n \in Nat : n \notin 1..new' => SentIs(out', n, 0)
    <2>1. \A n \in Nat : n \notin 1..(new + 1) => n \notin 1..new
        BY <1>2
    <2> QED
        BY <1>2, <1>4, <2>1
<1>8. ASSUME NEW n \in 1..new'
      PROVE  \E x, y \in Nat : SentIs(out', n, x) /\ HeldIs(n, y)' /\ x + y = Size
    <2>1. CASE n = new + 1
        <3>1. n \in Nat /\ n \notin 1..new
            BY <1>2, <2>1
        <3>2. SentIs(out', n, 0)
            BY <1>2, <1>4, <3>1
        <3>3. HeldIs(n, Size)'
            <4>1. p \in used'
                BY <1>1
            <4> QED
                BY <1>3, <2>1, <4>1 DEF HeldIs
        <3>4. 0 + Size = Size
            BY <1>2
        <3> QED
            BY <1>2, <3>2, <3>3, <3>4
    <2>2. CASE n # new + 1
        <3>1. n \in 1..new
            BY <1>2, <2>2
        <3>2. PICK x \in Nat, y \in Nat : SentIs(out, n, x) /\ HeldIs(n, y) /\ x + y = Size
            BY <1>4, <3>1
        <3>3. HeldIs(n, y)'
            <4>1. CASE y = 0 /\ \A a \in used : heap[a].num # n
                BY <1>1, <1>3, <2>2, <4>1 DEF HeldIs
            <4>2. CASE \E a \in used : heap[a].num = n /\ y = heap[a].left
                BY <1>1, <1>3, <4>2 DEF HeldIs
            <4> QED
                BY <3>2, <4>1, <4>2 DEF HeldIs
        <3> QED
            BY <1>2, <3>2, <3>3
    <2> QED
        BY <2>1, <2>2
<1> QED
    BY <1>2, <1>4, <1>6, <1>7, <1>8 DEF BytesInv

(* Every step keeps the account of the bytes.                              *)
LEMMA BytesStep ==
    ASSUME HeapAssumption, BoundAssumption, QueueInv, BytesInv, [Queue!Next]_(Queue!qvars)
    PROVE  BytesInv'
<1>1. /\ used \subseteq Addresses /\ new \in Nat
      /\ \A a \in Addresses : heap[a].left \in Nat
    BY DEF QueueInv, Packet, BoundAssumption
<1>2. CASE UNCHANGED Queue!qvars
    <2>1. heap' = heap /\ used' = used /\ new' = new /\ out' = out
        BY <1>2 DEF Queue!qvars
    <2> QED
        BY <2>1 DEF BytesInv, HeldIs
<1>3. CASE Queue!PacketNew
    BY <1>3, BytesNew
<1>4. CASE Queue!SendFailed
    <2>1. /\ head # NULL /\ out' = out /\ used' = used /\ new' = new
          /\ head' = Queue!Popped.head /\ tail' = Queue!Popped.tail /\ heap' = Queue!Popped.heap
        BY <1>4 DEF Queue!SendFailed
    <2>2. head \in used /\ \A a \in Addresses : Rest(heap'[a]) = Rest(heap[a])
        BY <2>1, PopKeeps
    <2>3. \A a \in Addresses : heap'[a].num = heap[a].num /\ heap'[a].left = heap[a].left
        BY <2>2, RestIs
    <2>4. heap[head].left \in Nat /\ heap'[head].left = heap[head].left - 0
          /\ 0 \in Nat /\ 0 <= heap[head].left
        BY <1>1, <2>2, <2>3
    <2> QED
        BY <1>1, <2>1, <2>2, <2>3, <2>4, BytesLeft
<1>5. CASE Queue!SentSome
    <2>1. used' = used /\ new' = new
        BY <1>5 DEF Queue!SentSome
    <2>2. head \in used
        BY <1>5, SomeMaps
    <2>3. PICK b \in 1..(heap[head].left - 1) :
             /\ out' = Append(out, <<heap[head].num, b>>)
             /\ Rest(heap'[head]) = [num |-> heap[head].num, left |-> heap[head].left - b]
             /\ \A a \in Addresses \ {head} : Rest(heap'[a]) = Rest(heap[a])
        BY <1>5, SomeMaps
    <2>4. /\ heap'[head].num = heap[head].num /\ heap'[head].left = heap[head].left - b
          /\ \A a \in Addresses : a # head =>
                heap'[a].num = heap[a].num /\ heap'[a].left = heap[a].left
        BY <2>3, RestIs
    <2>5. heap[head].left \in Nat /\ b \in Nat /\ b <= heap[head].left
        BY <1>1, <2>2, <2>3
    <2>6. \A a \in Addresses : heap'[a].num = heap[a].num
        BY <2>4
    <2> QED
        BY <1>1, <2>1, <2>2, <2>3, <2>4, <2>5, <2>6, BytesLeft
<1>6. CASE Queue!SentAll
    <2>1. /\ head # NULL /\ out' = Append(out, <<heap[head].num, heap[head].left>>)
          /\ used' = used \ {head} /\ new' = new
          /\ head' = Queue!Popped.head /\ tail' = Queue!Popped.tail /\ heap' = Queue!Popped.heap
        BY <1>6 DEF Queue!SentAll
    <2>2. head \in used /\ \A a \in Addresses : Rest(heap'[a]) = Rest(heap[a])
        BY <2>1, PopKeeps
    <2>3. \A a \in Addresses : heap'[a].num = heap[a].num /\ heap'[a].left = heap[a].left
        BY <2>2, RestIs
    <2>4. heap[head].left \in Nat /\ heap[head].left <= heap[head].left /\ used' # used
        BY <1>1, <2>1, <2>2
    <2> QED
        BY <1>1, <2>1, <2>2, <2>3, <2>4, BytesLeft
<1> QED
    BY <1>2, <1>3, <1>4, <1>5, <1>6 DEF Queue!Next, Queue!PeerPacketOps

(* Every byte of a packet is sent once or still in the heap, for any       *)
(* length of the packets and any heap: a partly sent packet that goes to   *)
(* the end of the queue takes just its rest with it.                       *)
THEOREM NoByteTwice == Queue!Spec => []BytesAccounted
<1> SUFFICES ASSUME HeapAssumption, BoundAssumption PROVE Queue!Spec => []Queue!BytesAccounted
    BY PartsAssumption, OutputQueueAssumed DEF BytesAccounted
<1>1. Queue!Init => QueueInv /\ BytesInv
    <2> SUFFICES ASSUME Queue!Init PROVE QueueInv /\ BytesInv
        OBVIOUS
    <2>1. QueueInv
        BY QueueStart
    <2>2. used = {} /\ new = 0 /\ out = <<>>
        BY DEF Queue!Init
    <2>3. <<>> \in Seq(Nat \X Nat) /\ 1..0 = {}
        OBVIOUS
    <2>4. BytesInv
        BY <2>2, <2>3, NoneSent DEF BytesInv
    <2> QED
        BY <2>1, <2>4
<1>2. QueueInv /\ BytesInv /\ [Queue!Next]_(Queue!qvars) => (QueueInv /\ BytesInv)'
    BY QueueStep, BytesStep
<1>3. BytesInv => Queue!BytesAccounted
    BY BytesMeant
<1> QED
    BY <1>1, <1>2, <1>3, PTL DEF Queue!Spec
=============================================================================
