------------------------------ MODULE LeastNumber ------------------------------
(***************************************************************************)
(* Min of FiniteSetsExt is one of the numbers it is the least of.  Without *)
(* induction: the sets 0..k, for k one of the numbers, are finite, so that *)
(* one of them has no other inside.  What follows from it stands for       *)
(* induction where this project needs it: over sets of numbers, and for    *)
(* what is computed step by step.                                          *)
(***************************************************************************)
EXTENDS Naturals, FiniteSetsExt, FiniteSetTheorems, TLAPS

(* What has_chunk finds first, and how long a router waits (Min of a       *)
(* nonempty set of numbers), is in the set.                                *)
LEMMA LeastIsOne ==
    ASSUME NEW S \in SUBSET Nat, S # {}
    PROVE  Min(S) \in S /\ \A x \in S : Min(S) <= x
<1> DEFINE T == {0..k : k \in S}
<1>1. T \subseteq FiniteSubsetsOf(Nat) /\ T # {}
    <2>1. \A k \in S : IsFiniteSet(0..k) /\ 0..k \subseteq Nat
        BY FS_Interval
    <2> QED
        BY <2>1 DEF FiniteSubsetsOf
<1>2. PICK x \in T : \A y \in T : <<y, x>> \notin StrictSubsetOrdering(Nat)
    <2> HIDE DEF T
    <2> QED
        BY <1>1, FS_StrictSubsetOrderingWellFounded, WFMin
<1>3. PICK k \in S : x = 0..k
    BY <1>2
<1>4. ASSUME NEW j \in S PROVE k <= j
    <2>1. ~(j < k)
        <3>1. SUFFICES ASSUME j < k PROVE FALSE
            OBVIOUS
        <3>2. 0..j \subseteq 0..k /\ k \notin 0..j /\ k \in 0..k
            BY <3>1
        <3>3. 0..j \in SUBSET Nat /\ 0..k \in SUBSET Nat /\ 0..j # 0..k
            BY <3>2
        <3>4. <<0..j, 0..k>> \in StrictSubsetOrdering(Nat)
            BY <3>2, <3>3 DEF StrictSubsetOrdering
        <3> QED
            BY <1>2, <1>3, <3>4
    <2> QED
        BY <2>1
<1> QED
    BY <1>4 DEF Min

(* A set of numbers that holds 0 and, with a number, the next holds all.   *)
LEMMA AllNumbers ==
    ASSUME NEW S \in SUBSET Nat, 0 \in S, \A k \in S : k + 1 \in S
    PROVE  S = Nat
<1> SUFFICES ASSUME Nat \ S # {} PROVE FALSE
    OBVIOUS
<1> DEFINE k == Min(Nat \ S)
<1>1. k \in Nat \ S /\ \A x \in Nat \ S : k <= x
    <2>1. Nat \ S \in SUBSET Nat
        OBVIOUS
    <2> QED
        BY <2>1, LeastIsOne
<1> HIDE DEF k
<1>2. k - 1 \in Nat /\ (k - 1) + 1 = k /\ ~(k <= k - 1)
    BY <1>1
<1>3. k - 1 \in S
    BY <1>1, <1>2
<1> QED
    BY <1>1, <1>2, <1>3

(* g holds the results of n steps from x0, all of them in S.               *)
Stepwise(g, S, x0, step, n) ==
    /\ g \in [0..n -> S]
    /\ g = [j \in 0..n |-> IF j = 0 THEN x0 ELSE step[g[j - 1]]]

(* As far as it stays in S, f goes by the same steps.                      *)
GoesStepwise(f, S, x0, step, n) ==
    /\ f[0] = x0
    /\ \A j \in 1..n : f[j - 1] \in S => f[j] = step[f[j - 1]]

(* What is computed step by step from x0 and stays in S can be computed    *)
(* for any number of steps.                                                *)
LEMMA StepwiseExists ==
    ASSUME NEW S, NEW x0 \in S, NEW step \in [S -> S], NEW n \in Nat
    PROVE  \E g : Stepwise(g, S, x0, step, n)
<1> DEFINE Taken(g, k) == Stepwise(g, S, x0, step, k)
           Bad == {k \in Nat : ~\E g : Taken(g, k)}
<1> USE DEF Stepwise
<1>1. \E g : Taken(g, 0)
    <2>1. Taken([j \in 0..0 |-> x0], 0)
        <3>1. 0..0 = {0}
            OBVIOUS
        <3> QED
            BY <3>1
    <2> QED
        BY <2>1
<1>2. ASSUME NEW k \in Nat, NEW g, Taken(g, k)
      PROVE  \E h : Taken(h, k + 1)
    <2> DEFINE h == [j \in 0..(k + 1) |-> IF j <= k THEN g[j] ELSE step[g[k]]]
    <2>1. g[k] \in S
        BY <1>2
    <2>2. h \in [0..(k + 1) -> S]
        BY <1>2, <2>1
    <2>3. ASSUME NEW j \in 0..(k + 1)
          PROVE  h[j] = IF j = 0 THEN x0 ELSE step[h[j - 1]]
        <3>1. CASE j = 0
            BY <1>2, <3>1
        <3>2. CASE j # 0 /\ j <= k
            <4>1. j \in 0..k /\ j - 1 \in 0..k /\ j - 1 \in 0..(k + 1)
                BY <3>2
            <4>2. h[j] = g[j] /\ h[j - 1] = g[j - 1]
                BY <4>1
            <4>3. g[j] = step[g[j - 1]]
                BY <1>2, <3>2, <4>1
            <4> QED
                BY <3>2, <4>2, <4>3
        <3>3. CASE j = k + 1
            <4>1. j - 1 = k /\ k \in 0..(k + 1) /\ ~(j <= k)
                BY <3>3
            <4> QED
                BY <3>3, <4>1
        <3> QED
            BY <3>1, <3>2, <3>3
    <2>4. Taken(h, k + 1)
        <3> HIDE DEF h
        <3>1. h = [j \in 0..(k + 1) |-> h[j]]
            BY <2>2
        <3> QED
            BY <2>2, <2>3, <3>1
    <2> QED
        BY <2>4
<1> HIDE DEF Taken, Stepwise
<1>3. Bad = {}
    <2>1. SUFFICES ASSUME Bad # {} PROVE FALSE
        OBVIOUS
    <2> DEFINE k == Min(Bad)
    <2>2. k \in Bad /\ \A x \in Bad : k <= x
        BY <2>1, LeastIsOne
    <2> HIDE DEF k
    <2>3. k # 0
        BY <1>1, <2>2
    <2>4. k - 1 \in Nat /\ (k - 1) + 1 = k /\ ~(k <= k - 1)
        BY <2>2, <2>3
    <2>5. PICK g : Taken(g, k - 1)
        BY <2>2, <2>4
    <2> QED
        BY <1>2, <2>2, <2>4, <2>5
<1> QED
    BY <1>3 DEF Taken

(* Two such computations from the same beginning agree as far as both go.  *)
LEMMA StepwiseAgree ==
    ASSUME NEW S, NEW x0 \in S, NEW step \in [S -> S], NEW n \in Nat,
           NEW f, NEW g, GoesStepwise(f, S, x0, step, n), GoesStepwise(g, S, x0, step, n)
    PROVE  \A j \in 0..n : f[j] = g[j] /\ f[j] \in S
<1> DEFINE Bad == {j \in 0..n : ~(f[j] = g[j] /\ f[j] \in S)}
<1>1. SUFFICES ASSUME Bad # {} PROVE FALSE
    OBVIOUS
<1> DEFINE k == Min(Bad)
<1>2. k \in Bad /\ \A x \in Bad : k <= x
    <2>1. Bad \in SUBSET Nat
        OBVIOUS
    <2> HIDE DEF Bad
    <2> QED
        BY <1>1, <2>1, LeastIsOne
<1> HIDE DEF k
<1>3. k # 0
    BY <1>2 DEF GoesStepwise
<1>4. k \in 1..n /\ k - 1 \in 0..n /\ ~(k <= k - 1)
    BY <1>2, <1>3
<1>5. f[k - 1] = g[k - 1] /\ f[k - 1] \in S
    BY <1>2, <1>4
<1>6. f[k] = step[f[k - 1]] /\ g[k] = step[g[k - 1]]
    BY <1>4, <1>5 DEF GoesStepwise
<1> QED
    BY <1>2, <1>5, <1>6
=============================================================================
