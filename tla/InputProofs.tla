----------------------------- MODULE InputProofs -----------------------------
(***************************************************************************)
(* What a peer reads, for any sizes: the lines of the user, and the hashes *)
(* of a flood and its answer; and then all the parts of MCParts side by    *)
(* side.                                                                   *)
(*                                                                         *)
(* Every line is handled whole, although the buffer is searched with       *)
(* strchr and never terminated.  What is kept is how the lines not handled *)
(* yet lie in the buffer, stated with counts only: a character of the text *)
(* belongs to the line that the newlines before it tell, and there are as  *)
(* many of each line as have been typed.                                   *)
(***************************************************************************)
EXTENDS PartsProofs, ChunkFilesProofs

NL == Input!NewLine

(* The places of x among the first n cells of b, and their number.         *)
At(b, n, x) == {i \in 0..(n - 1) : b[i] = x}
Count(b, n, x) == Cardinality(At(b, n, x))

(* The first c cells of b hold the lines after the first h of those whose  *)
(* lengths are t.                                                          *)
Lay(b, c, t, h) ==
    /\ \A i \in 0..(c - 1) :
          b[i] # Input!NUL /\ (b[i] # NL => b[i] = h + 1 + Count(b, i, NL))
    /\ Count(b, c, NL) = Len(t) - 1 - h
    /\ \A l \in (h + 1)..Len(t) : t[l] = Count(b, c, l)

(* No newline is left behind the text.                                     *)
Behind(b, c) == \A i \in c..USERBUF_SIZE : b[i] # NL

HandledWhole == \A l \in DOMAIN handled : handled[l] = [j \in 1..typed[l] |-> l]

(* The moves do not leave a newline behind since two lines that are both   *)
(* ended, with what follows, fill no more than half of the buffer.         *)
InputInv ==
    /\ Input!TypeOK
    /\ typed \in Seq(Nat) /\ handled \in Seq(Seq(Int))
    /\ Len(handled) < Len(typed)
    /\ Lay(buf, cur, typed, Len(handled))
    /\ Behind(buf, cur)
    /\ Len(typed) - Len(handled) > 2 => 2 * cur <= USERBUF_SIZE
    /\ typing # "lines" => Len(handled) = Len(typed) - 1
    /\ HandledWhole

Sized == USERBUF_SIZE \in Nat \ {0} /\ MaxLines \in Nat

-----------------------------------------------------------------------------
(* Counting.                                                               *)

(* There is a number of places.                                            *)
LEMMA CountType ==
    ASSUME NEW b, NEW n \in Int, NEW x
    PROVE  IsFiniteSet(At(b, n, x)) /\ Count(b, n, x) \in Nat
<1>1. IsFiniteSet(0..(n - 1))
    BY FS_Interval
<1>2. IsFiniteSet(At(b, n, x))
    BY <1>1, FS_Subset DEF At
<1> QED
    BY <1>2, FS_CardinalityType DEF Count

(* The number is zero when there is no place.                              *)
LEMMA CountNone ==
    ASSUME NEW b, NEW n \in Int, NEW x
    PROVE  Count(b, n, x) = 0 <=> \A i \in 0..(n - 1) : b[i] # x
<1>1. Count(b, n, x) = 0 <=> At(b, n, x) = {}
    BY CountType, FS_EmptySet DEF Count
<1> QED
    BY <1>1 DEF At

(* As many numbers after moving all of them by d.                          *)
LEMMA Shifted ==
    ASSUME NEW S \in SUBSET Int, IsFiniteSet(S), NEW d \in Int
    PROVE  Cardinality({x + d : x \in S}) = Cardinality(S)
<1> DEFINE T == {x + d : x \in S}
           f == [x \in S |-> x + d]
<1>1. f \in [S -> T]
    OBVIOUS
<1>2. \A x, y \in S : f[x] = f[y] => x = y
    OBVIOUS
<1>3. \A y \in T : \E x \in S : f[x] = y
    OBVIOUS
<1>4. f \in Bijection(S, T)
    <2> HIDE DEF f, T
    <2> QED
        BY <1>1, <1>2, <1>3 DEF Bijection, Injection, Surjection, IsInjective
<1> HIDE DEF f, T
<1>5. Cardinality(T) = Cardinality(S)
    BY <1>4, FS_Bijection DEF ExistsBijection
<1> QED
    BY <1>5 DEF T

(* The places of x from the d-th.                                          *)
From(b, n, x, d) == {z \in At(b, n, x) : z >= d}

(* The first n cells of b2 are those of b from the d-th.                   *)
CameFrom(b, b2, n, d) == \A i \in 0..(n - 1) : b2[i] = b[i + d]

(* What is counted of x is what was there, from cell d, before the cells   *)
(* were moved by d.                                                        *)
LEMMA CountMoved ==
    ASSUME NEW b, NEW b2, NEW n \in Nat, NEW d \in Nat, NEW x, CameFrom(b, b2, n, d)
    PROVE  Count(b2, n, x) = Cardinality(From(b, n + d, x, d))
<1> DEFINE T == {z \in At(b, n + d, x) : z >= d}
<1>1. T = {y + d : y \in At(b2, n, x)}
    <2>1. ASSUME NEW z \in T PROVE z - d \in At(b2, n, x) /\ z = (z - d) + d
        <3>1. z \in 0..(n + d - 1) /\ b[z] = x /\ z >= d
            BY DEF At
        <3>2. z - d \in 0..(n - 1) /\ z = (z - d) + d
            BY <3>1
        <3>3. b2[z - d] = x
            BY <3>1, <3>2 DEF CameFrom
        <3> QED
            BY <3>2, <3>3 DEF At
    <2>2. ASSUME NEW y \in At(b2, n, x) PROVE y + d \in T
        <3>1. y \in 0..(n - 1) /\ b2[y] = x
            BY DEF At
        <3>2. y + d \in 0..(n + d - 1) /\ y + d >= d
            BY <3>1
        <3> QED
            BY <3>1, <3>2 DEF At, CameFrom
    <2> HIDE DEF T
    <2> QED
        BY <2>1, <2>2
<1>2. IsFiniteSet(At(b2, n, x)) /\ At(b2, n, x) \in SUBSET Int
    <2>1. At(b2, n, x) \in SUBSET Int
        BY DEF At
    <2> QED
        BY <2>1, CountType
<1>3. d \in Int
    OBVIOUS
<1>4. Cardinality({y + d : y \in At(b2, n, x)}) = Cardinality(At(b2, n, x))
    BY <1>2, <1>3, Shifted
<1> HIDE DEF T
<1>5. Cardinality(T) = Count(b2, n, x)
    BY <1>1, <1>4 DEF Count
<1> QED
    BY <1>5 DEF T, From

(* The same for a move behind the r-th cell.                               *)
LEMMA CountBehind ==
    ASSUME NEW b, NEW b2, NEW n, NEW r, NEW x, n \in Nat /\ r + 1 \in Nat,
           CameFrom(b, b2, n, r + 1)
    PROVE  Count(b2, n, x) = Cardinality(From(b, n + (r + 1), x, r + 1))
BY CountMoved

(* A smaller number is still no more than half.                            *)
LEMMA HalfOf ==
    ASSUME NEW m \in Nat, NEW n \in Nat, NEW s \in Nat, m <= n, 2 * n <= s
    PROVE  2 * m <= s
OBVIOUS

(* Newline is no line and no NUL.                                          *)
LEMMA NewLineIs ==
    ASSUME Sized
    PROVE  /\ NL \in Nat /\ NL # Input!NUL /\ Input!NUL = 0
           /\ \A l \in 0..MaxLines : l # NL /\ l < NL
BY DEF NL, Input!NewLine, Input!NUL, Sized

(* With one line begun all of the text is of that line, and cur counts it. *)
LEMMA OneLine ==
    ASSUME Sized, NEW b, NEW c \in Nat, NEW t \in Seq(Nat), t # <<>>,
           Lay(b, c, t, Len(t) - 1)
    PROVE  /\ \A i \in 0..(c - 1) : b[i] = Len(t) /\ b[i] # NL
           /\ t[Len(t)] = c
<1>1. Len(t) \in Nat \ {0}
    BY EmptySeq, LenProperties
<1>2. Count(b, c, NL) = 0
    BY <1>1 DEF Lay
<1>3. \A i \in 0..(c - 1) : b[i] # NL
    BY <1>2, CountNone
<1>4. ASSUME NEW i \in 0..(c - 1) PROVE b[i] = Len(t)
    <2>1. \A j \in 0..(i - 1) : b[j] # NL
        BY <1>3
    <2>2. Count(b, i, NL) = 0
        BY <2>1, CountNone
    <2>3. b[i] = (Len(t) - 1) + 1 + Count(b, i, NL)
        BY <1>3 DEF Lay
    <2> QED
        BY <1>1, <2>2, <2>3
<1>5. At(b, c, Len(t)) = 0..(c - 1)
    BY <1>4 DEF At
<1>6. Cardinality(0..(c - 1)) = c
    BY FS_Interval
<1>7. t[Len(t)] = Count(b, c, Len(t))
    BY <1>1 DEF Lay
<1> QED
    BY <1>3, <1>4, <1>5, <1>6, <1>7 DEF Count

-----------------------------------------------------------------------------
(* Reading.                                                                *)

(* b2 and t2 are buffer and lengths when the k characters chr, with the    *)
(* newlines among them at ends, have been read behind c cells of b.        *)
Appended(b, c, t, k, ends, chr, b2, t2) ==
    /\ ends \in SUBSET (1..k) /\ Len(t) + Cardinality(ends) <= MaxLines
    /\ \A j \in 1..k : chr[j] = IF j \in ends THEN NL
                                 ELSE Len(t) + Cardinality({e \in ends : e < j})
    /\ \A i \in 0..(c - 1) : b2[i] = b[i]
    /\ \A j \in 1..k : b2[c + j - 1] = chr[j]
    /\ Len(t2) = Len(t) + Cardinality(ends)
    /\ \A l \in 1..Len(t2) :
          t2[l] = (IF l \in DOMAIN t THEN t[l] ELSE 0)
                    + Cardinality({j \in 1..k : chr[j] = l})

(* What read appends to a buffer without a whole line lies as it should.   *)
LEMMA ReadLays ==
    ASSUME Sized, NEW b, NEW c \in Nat, NEW t \in Seq(Nat), t # <<>>,
           Lay(b, c, t, Len(t) - 1),
           NEW k \in Nat, NEW ends, NEW chr, NEW b2, NEW t2,
           Appended(b, c, t, k, ends, chr, b2, t2)
    PROVE  Lay(b2, c + k, t2, Len(t) - 1)
<1> DEFINE Ended(j) == {e \in ends : e < j}
           OfLine(l) == {j \in 1..k : chr[j] = l}
<1>1. Len(t) \in Nat \ {0} /\ DOMAIN t = 1..Len(t)
    BY EmptySeq, LenProperties
<1>0. ends \in SUBSET (1..k)
    BY DEF Appended
<1>2. IsFiniteSet(1..k) /\ IsFiniteSet(ends) /\ Cardinality(ends) \in Nat
    <2>1. IsFiniteSet(1..k)
        BY FS_Interval
    <2>2. IsFiniteSet(ends)
        BY <1>0, <2>1, FS_Subset
    <2> QED
        BY <2>1, <2>2, FS_CardinalityType
<1>3. ASSUME NEW j \in Int
      PROVE  /\ IsFiniteSet(Ended(j)) /\ Cardinality(Ended(j)) \in Nat
             /\ Cardinality(Ended(j)) <= Cardinality(ends)
    <2>1. Ended(j) \in SUBSET ends
        OBVIOUS
    <2> HIDE DEF Ended
    <2>2. IsFiniteSet(Ended(j)) /\ Cardinality(Ended(j)) <= Cardinality(ends)
        BY <1>2, <2>1, FS_Subset
    <2> QED
        BY <2>2, FS_CardinalityType
<1>4. \A j \in 1..k : /\ j \in ends => chr[j] = NL
                      /\ j \notin ends => chr[j] = Len(t) + Cardinality(Ended(j))
    BY DEF Appended
<1>13. /\ \A i \in 0..(c - 1) : b2[i] = b[i]
       /\ \A j \in 1..k : b2[c + j - 1] = chr[j]
       /\ Len(t2) = Len(t) + Cardinality(ends) /\ Len(t) + Cardinality(ends) <= MaxLines
    BY DEF Appended
<1>14. \A l \in 1..Len(t2) :
          t2[l] = (IF l \in DOMAIN t THEN t[l] ELSE 0) + Cardinality(OfLine(l))
    BY DEF Appended
<1> HIDE DEF Ended
<1>5. \A j \in 1..k : (chr[j] = NL <=> j \in ends) /\ chr[j] # Input!NUL
    <2> SUFFICES ASSUME NEW j \in 1..k, j \notin ends
                 PROVE  chr[j] # NL /\ chr[j] # Input!NUL
        BY <1>4, NewLineIs
    <2>1. chr[j] = Len(t) + Cardinality(Ended(j))
        BY <1>4
    <2>2. Cardinality(Ended(j)) \in Nat /\ Cardinality(Ended(j)) <= Cardinality(ends)
        BY <1>3
    <2>3. chr[j] \in 1..MaxLines
        BY SMTT(30), <1>1, <1>2, <1>13, <2>1, <2>2 DEF Sized
    <2> QED
        BY <2>3, NewLineIs
<1>6. \A i \in 0..(c - 1) : b[i] = Len(t) /\ b[i] # NL /\ b2[i] = b[i]
    BY <1>13, OneLine
<1>7. \A i \in c..(c + k - 1) : i - c + 1 \in 1..k /\ b2[i] = chr[i - c + 1]
    <2> TAKE i \in c..(c + k - 1)
    <2>1. i - c + 1 \in 1..k /\ c + (i - c + 1) - 1 = i
        OBVIOUS
    <2> QED
        BY <1>13, <2>1
(* The newlines before a place.                                            *)
<1>8. ASSUME NEW i \in Nat, i <= c PROVE Count(b2, i, NL) = 0
    <2>1. \A j \in 0..(i - 1) : b2[j] # NL
        BY <1>6, <1>8
    <2> QED
        BY <2>1, CountNone
<1>9. ASSUME NEW i \in c..(c + k) PROVE Count(b2, i, NL) = Cardinality(Ended(i - c + 1))
    <2>1. At(b2, i, NL) = {x + (c - 1) : x \in Ended(i - c + 1)}
        <3>1. ASSUME NEW y \in At(b2, i, NL)
              PROVE  y - (c - 1) \in Ended(i - c + 1) /\ y = (y - (c - 1)) + (c - 1)
            <4>1. y \in 0..(i - 1) /\ b2[y] = NL
                BY DEF At
            <4>5. y \in 0..(c - 1) => b2[y] # NL
                BY <1>6
            <4>2. y \in c..(c + k - 1)
                <5>1. y \notin 0..(c - 1)
                    BY <4>1, <4>5
                <5>2. y \in 0..(i - 1)
                    BY <4>1
                <5> QED
                    BY <5>1, <5>2
            <4>3. y - c + 1 \in ends
                BY <1>5, <1>7, <4>1, <4>2
            <4> QED
                BY <4>1, <4>2, <4>3 DEF Ended
        <3>2. ASSUME NEW x \in Ended(i - c + 1) PROVE x + (c - 1) \in At(b2, i, NL)
            <4>1. x \in ends /\ x \in 1..k /\ x < i - c + 1
                BY <1>0 DEF Ended
            <4>2. b2[c + x - 1] = NL
                BY <1>4, <1>13, <4>1
            <4>3. x + (c - 1) = c + x - 1 /\ c + x - 1 \in 0..(i - 1)
                BY <4>1
            <4> QED
                BY <4>2, <4>3 DEF At
        <3> QED
            BY <3>1, <3>2
    <2>6. \A j : Ended(j) \in SUBSET ends
        BY DEF Ended
    <2>7. ends \in SUBSET Int
        BY <1>0
    <2>2. Ended(i - c + 1) \in SUBSET Int
        BY <2>6, <2>7
    <2>3. i - c + 1 \in Int /\ c - 1 \in Int
        OBVIOUS
    <2>4. IsFiniteSet(Ended(i - c + 1))
        BY <1>3, <2>3
    <2>5. Cardinality({x + (c - 1) : x \in Ended(i - c + 1)}) = Cardinality(Ended(i - c + 1))
        BY <2>2, <2>3, <2>4, Shifted
    <2> QED
        BY <2>1, <2>5 DEF Count
<1>10. ASSUME NEW i \in 0..(c + k - 1)
       PROVE  b2[i] # Input!NUL /\ (b2[i] # NL => b2[i] = (Len(t) - 1) + 1 + Count(b2, i, NL))
    <2>1. CASE i < c
        <3>1. b2[i] = Len(t) /\ Count(b2, i, NL) = 0
            BY <1>6, <1>8, <2>1
        <3>2. b2[i] # Input!NUL
            BY <1>1, <3>1, NewLineIs
        <3> QED
            BY <1>1, <3>1, <3>2
    <2>2. CASE i >= c
        <3>1. i \in c..(c + k - 1) /\ i \in c..(c + k) /\ i - c + 1 \in 1..k
            BY <2>2
        <3>2. b2[i] = chr[i - c + 1] /\ Count(b2, i, NL) = Cardinality(Ended(i - c + 1))
            BY <1>7, <1>9, <3>1
        <3>3. chr[i - c + 1] # Input!NUL
            BY <1>5, <3>1
        <3>4. chr[i - c + 1] # NL => chr[i - c + 1] = Len(t) + Cardinality(Ended(i - c + 1))
            BY <1>4, <1>5, <3>1
        <3>5. Cardinality(Ended(i - c + 1)) \in Nat
            <4>1. i - c + 1 \in Int
                OBVIOUS
            <4> QED
                BY <1>3, <4>1
        <3> QED
            BY <1>1, <3>2, <3>3, <3>4, <3>5
    <2> QED
        BY <2>1, <2>2
<1>11. Count(b2, c + k, NL) = Len(t2) - 1 - (Len(t) - 1)
    <2>1. Count(b2, c + k, NL) = Cardinality(Ended((c + k) - c + 1))
        BY <1>9
    <2>5. \A e \in 1..k : e < (c + k) - c + 1
        OBVIOUS
    <2>2. \A e \in ends : e < (c + k) - c + 1
        BY <1>0, <2>5
    <2>4. \A j : (\A e \in ends : e < j) => Ended(j) = ends
        BY DEF Ended
    <2>3. Ended((c + k) - c + 1) = ends
        BY <2>2, <2>4
    <2> QED
        BY <1>1, <1>2, <1>13, <2>1, <2>3
(* The lengths.                                                            *)
<1>12. ASSUME NEW l \in ((Len(t) - 1) + 1)..Len(t2) PROVE t2[l] = Count(b2, c + k, l)
    <2>1. l \in Nat /\ l >= Len(t) /\ l \in 1..Len(t2) /\ l # NL
        <3>1. l \in Nat /\ l >= Len(t) /\ l \in 1..Len(t2) /\ l \in 0..MaxLines
            BY <1>1, <1>2, <1>13 DEF Sized
        <3> QED
            BY <3>1, NewLineIs
    <2> DEFINE old == IF l \in DOMAIN t THEN t[l] ELSE 0
    <2>2. Count(b, c, l) = old /\ old \in Nat
        <3>1. CASE l = Len(t)
            <4>1. l \in DOMAIN t /\ l \in ((Len(t) - 1) + 1)..Len(t)
                BY <1>1, <3>1
            <4>2. t[l] = Count(b, c, l)
                BY <4>1 DEF Lay
            <4> QED
                BY <4>1, <4>2, CountType
        <3>2. CASE l # Len(t)
            <4>1. \A i \in 0..(c - 1) : b[i] # l
                BY <1>6, <3>2
            <4>2. l > Len(t)
                <5>1. l \in Nat /\ l >= Len(t)
                    BY <2>1
                <5>2. \A m, n \in Nat : m >= n /\ m # n => m > n
                    OBVIOUS
                <5> QED
                    BY <1>1, <3>2, <5>1, <5>2
            <4>3. l \notin DOMAIN t
                BY <1>1, <4>2
            <4> QED
                BY <4>1, <4>3, CountNone
        <3> QED
            BY <3>1, <3>2
    <2> HIDE DEF old
    <2>3. OfLine(l) \in SUBSET Int /\ IsFiniteSet(OfLine(l)) /\ Cardinality(OfLine(l)) \in Nat
        <3>1. OfLine(l) \in SUBSET (1..k) /\ OfLine(l) \in SUBSET Int
            OBVIOUS
        <3> HIDE DEF OfLine
        <3> QED
            BY <1>2, <3>1, FS_Subset, FS_CardinalityType
    <2> DEFINE added == {x + (c - 1) : x \in OfLine(l)}
    <2>4. At(b2, c + k, l) = At(b, c, l) \cup added /\ At(b, c, l) \cap added = {}
        <3>1. ASSUME NEW i \in At(b2, c + k, l) PROVE i \in At(b, c, l) \/ i \in added
            <4>1. i \in 0..(c + k - 1) /\ b2[i] = l
                BY DEF At
            <4>2. CASE i < c
                BY <1>6, <4>1, <4>2 DEF At
            <4>3. CASE i >= c
                <5>1. i - c + 1 \in 1..k /\ chr[i - c + 1] = l
                    BY <1>7, <4>1, <4>3
                <5>2. i = (i - c + 1) + (c - 1)
                    BY <4>1
                <5> QED
                    BY <5>1, <5>2
            <4> QED
                BY <4>1, <4>2, <4>3
        <3>2. ASSUME NEW i \in At(b, c, l) PROVE i \in At(b2, c + k, l) /\ i < c
            BY <1>6 DEF At
        <3>3. ASSUME NEW i \in added PROVE i \in At(b2, c + k, l) /\ i >= c
            <4>1. PICK x \in OfLine(l) : i = x + (c - 1)
                OBVIOUS
            <4>2. x \in 1..k /\ chr[x] = l
                OBVIOUS
            <4>3. i = c + x - 1 /\ i \in c..(c + k - 1) /\ i \in 0..((c + k) - 1)
                BY <4>1, <4>2
            <4>4. b2[i] = l
                BY <1>13, <4>2, <4>3
            <4> QED
                BY <4>3, <4>4 DEF At
        <3> HIDE DEF added
        <3>4. At(b, c, l) \cap added = {}
            <4> SUFFICES ASSUME NEW i \in At(b, c, l), i \in added PROVE FALSE
                OBVIOUS
            <4>1. i \in Int
                BY DEF At
            <4> QED
                BY <3>2, <3>3, <4>1
        <3> QED
            BY <3>1, <3>2, <3>3, <3>4
    <2>5. Cardinality(added) = Cardinality(OfLine(l))
        <3>1. c - 1 \in Int
            OBVIOUS
        <3> HIDE DEF OfLine
        <3> QED
            BY <2>3, <3>1, Shifted
    <2>6. IsFiniteSet(added)
        <3>1. added \subseteq At(b2, c + k, l)
            BY <2>4
        <3> HIDE DEF added
        <3> QED
            BY <3>1, CountType, FS_Subset
    <2> HIDE DEF added
    <2>7. Count(b2, c + k, l) = Cardinality(At(b, c, l)) + Cardinality(added) - Cardinality({})
        BY <2>4, <2>6, CountType, FS_Union DEF Count
    <2>8. Count(b2, c + k, l) = old + Cardinality(OfLine(l))
        BY <2>2, <2>3, <2>5, <2>7, FS_EmptySet DEF Count
    <2>9. t2[l] = old + Cardinality(OfLine(l))
        BY <1>14, <2>1 DEF old
    <2> QED
        BY <2>8, <2>9
<1> QED
    BY <1>10, <1>11, <1>12 DEF Lay

-----------------------------------------------------------------------------
(* Handling a line.                                                        *)

(* strchr finds the first newline of the text, which is in the text, ended *)
(* by no NUL: it ends the first line not handled.                          *)
LEMMA FoundIs ==
    ASSUME Sized, NEW b, NEW c \in 0..USERBUF_SIZE, NEW t, NEW h, Lay(b, c, t, h), Behind(b, c)
    PROVE  Input!Found(b) = At(b, c, NL)
<1>1. ASSUME NEW i \in Input!Found(b) PROVE i \in At(b, c, NL)
    <2>1. i \in 0..USERBUF_SIZE /\ b[i] = NL
        BY DEF Input!Found, Input!Cells, NL
    <2>2. i \notin c..USERBUF_SIZE
        BY <2>1 DEF Behind
    <2>3. USERBUF_SIZE \in Nat
        BY DEF Sized
    <2>4. i \in 0..(c - 1)
        BY <2>1, <2>2, <2>3
    <2> QED
        BY <2>1, <2>4 DEF At
<1>2. ASSUME NEW i \in At(b, c, NL) PROVE i \in Input!Found(b)
    <2>1. i \in 0..(c - 1) /\ b[i] = NL
        BY DEF At
    <2>2. USERBUF_SIZE \in Nat
        BY DEF Sized
    <2>3. i \in 0..USERBUF_SIZE /\ \A j \in 0..i : j \in 0..(c - 1)
        BY <2>1, <2>2
    <2>4. \A j \in 0..i : b[j] # Input!NUL
        BY <2>3 DEF Lay
    <2> QED
        BY <2>1, <2>3, <2>4 DEF Input!Found, Input!Cells, NL
<1> QED
    BY <1>1, <1>2

(* No line is found when none is ended.                                    *)
LEMMA NoneEnded ==
    ASSUME Sized, NEW b, NEW c \in 0..USERBUF_SIZE, NEW t \in Seq(Nat), NEW h \in Nat,
           Lay(b, c, t, h), Behind(b, c), Input!Found(b) = {}
    PROVE  h = Len(t) - 1
<1>1. At(b, c, NL) = {}
    BY FoundIs
<1>2. \A i \in 0..(c - 1) : b[i] # NL
    BY <1>1 DEF At
<1>3. c \in Int /\ Len(t) \in Nat
    BY LenProperties
<1>4. Count(b, c, NL) = 0
    BY <1>2, <1>3, CountNone
<1>5. Len(t) - 1 - h = 0
    BY <1>4 DEF Lay
<1> QED
    BY <1>3, <1>5

(* What is known of the place r where the first line ends.                 *)
Ends(b, c, t, h, r) ==
    /\ r \in 0..(c - 1) /\ b[r] = NL
    /\ \A i \in 0..(r - 1) : b[i] = h + 1
    /\ \A i \in (r + 1)..(c - 1) : b[i] # h + 1
    /\ h + 1 < Len(t) /\ t[h + 1] = r

(* The characters before the first newline are those of the first line not *)
(* handled, and all of them.                                               *)
LEMMA LineEnds ==
    ASSUME Sized, NEW b, NEW c \in 0..USERBUF_SIZE, NEW t \in Seq(Nat), NEW h \in Nat,
           Len(t) <= MaxLines, h < Len(t),
           Lay(b, c, t, h), Behind(b, c), Input!Found(b) # {}
    PROVE  Ends(b, c, t, h, Input!Min(Input!Found(b)))
<1>1. Input!Found(b) = At(b, c, NL) /\ At(b, c, NL) \in SUBSET Nat /\ At(b, c, NL) # {}
    BY FoundIs DEF At
<1>2. Input!Min(At(b, c, NL)) = Min(At(b, c, NL))
    BY DEF Input!Min, Min
<1> DEFINE r == Min(At(b, c, NL))
<1>3. r \in At(b, c, NL) /\ \A x \in At(b, c, NL) : r <= x
    BY <1>1, LeastIsOne
<1> HIDE DEF r
<1>4. c \in Nat /\ Len(t) \in Nat /\ h + 1 \in 0..MaxLines /\ h + 1 # NL
    <2>1. c \in Nat /\ Len(t) \in Nat /\ h + 1 \in 0..MaxLines
        BY LenProperties DEF Sized
    <2> QED
        BY <2>1, NewLineIs
<1>5. r \in 0..(c - 1) /\ b[r] = NL
    BY <1>3 DEF At
<1>6. ASSUME NEW i \in 0..(r - 1) PROVE b[i] = h + 1
    <2>1. \A j \in 0..(r - 1) : b[j] # NL
        <3> SUFFICES ASSUME NEW j \in 0..(r - 1), b[j] = NL PROVE FALSE
            OBVIOUS
        <3>1. j \in 0..(c - 1)
            BY <1>4, <1>5
        <3>2. j \in At(b, c, NL)
            BY <3>1 DEF At
        <3>3. r <= j /\ r \in Int
            BY <1>3, <1>5, <3>2
        <3> QED
            BY <3>3
    <2>2. \A j \in 0..(i - 1) : j \in 0..(r - 1)
        BY <1>5
    <2>3. Count(b, i, NL) = 0
        BY <2>1, <2>2, CountNone
    <2>4. i \in 0..(c - 1)
        BY <1>4, <1>5
    <2>5. b[i] = h + 1 + Count(b, i, NL)
        BY <2>1, <2>4 DEF Lay
    <2> QED
        BY <2>3, <2>5
<1>7. ASSUME NEW i \in (r + 1)..(c - 1) PROVE b[i] # h + 1
    <2>1. i \in 0..(c - 1) /\ r \in 0..(i - 1) /\ i \in Int
        BY <1>4, <1>5
    <2>2. Count(b, i, NL) # 0 /\ Count(b, i, NL) \in Nat
        BY <1>5, <2>1, CountNone, CountType
    <2>3. b[i] # NL => b[i] = h + 1 + Count(b, i, NL)
        BY <2>1 DEF Lay
    <2>4. h + 1 + Count(b, i, NL) # h + 1
        BY <2>2
    <2> QED
        BY <1>4, <2>3, <2>4
<1>8. h + 1 < Len(t)
    <2>1. Count(b, c, NL) # 0 /\ Count(b, c, NL) \in Nat
        BY <1>4, <1>5, CountNone, CountType
    <2>2. Count(b, c, NL) = Len(t) - 1 - h
        BY DEF Lay
    <2> QED
        BY <1>4, <2>1, <2>2
<1>9. t[h + 1] = r
    <2>1. h + 1 \in (h + 1)..Len(t)
        BY <1>4, <1>8
    <2>2. t[h + 1] = Cardinality(At(b, c, h + 1))
        BY <2>1 DEF Lay, Count
    <2>3. At(b, c, h + 1) = 0..(r - 1)
        <3>1. ASSUME NEW i \in At(b, c, h + 1) PROVE i \in 0..(r - 1)
            <4>1. i \in 0..(c - 1) /\ b[i] = h + 1
                BY DEF At
            <4>2. i # r /\ i \notin (r + 1)..(c - 1)
                BY <1>4, <1>5, <1>7, <4>1
            <4> QED
                BY <1>4, <1>5, <4>1, <4>2
        <3>2. ASSUME NEW i \in 0..(r - 1) PROVE i \in At(b, c, h + 1)
            <4>1. i \in 0..(c - 1)
                BY <1>4, <1>5
            <4> QED
                BY <1>6, <4>1 DEF At
        <3> QED
            BY <3>1, <3>2
    <2>4. Cardinality(0..(r - 1)) = r
        BY <1>5, FS_Interval
    <2> QED
        BY <2>2, <2>3, <2>4
<1>10. Ends(b, c, t, h, r)
    BY <1>5, <1>6, <1>7, <1>8, <1>9 DEF Ends
<1> QED
    BY <1>1, <1>2, <1>10 DEF r

(* The line that ends at r is ended and moved out of b, which leaves b2.   *)
MovedTo(b, r, b2) == b2 = Input!Moved([b EXCEPT ![r] = Input!NUL], r)

(* Where the cells of the buffer come from in that.                        *)
MovedCells(b, r, b2) ==
    /\ b2 \in [0..USERBUF_SIZE -> 0..NL]
    /\ \A i \in 0..(USERBUF_SIZE - r - 1) : b2[i] = b[i + r + 1]
    /\ \A i \in (USERBUF_SIZE - r)..USERBUF_SIZE :
          b2[i] = IF i = r THEN Input!NUL ELSE b[i]

(* The move makes them so.                                                 *)
LEMMA MovedFrom ==
    ASSUME Sized, NEW b \in [0..USERBUF_SIZE -> 0..NL], NEW r \in 0..USERBUF_SIZE,
           NEW b2, MovedTo(b, r, b2)
    PROVE  MovedCells(b, r, b2)
<1> DEFINE e == [b EXCEPT ![r] = Input!NUL]
<1>1. USERBUF_SIZE \in Nat
    BY DEF Sized
<1>2. b2 = [i \in 0..USERBUF_SIZE |-> IF i < USERBUF_SIZE - r THEN e[i + r + 1] ELSE e[i]]
    BY DEF MovedTo, Input!Moved, Input!Cells
<1>3. \A i \in 0..USERBUF_SIZE : e[i] = IF i = r THEN Input!NUL ELSE b[i]
    OBVIOUS
<1>4. \A i \in 0..USERBUF_SIZE : e[i] \in 0..NL
    <2>1. NL \in Nat /\ Input!NUL \in 0..NL
        BY NewLineIs
    <2> HIDE DEF e
    <2> QED
        BY <1>3, <2>1
<1> HIDE DEF e
<1>5. ASSUME NEW i \in 0..USERBUF_SIZE
      PROVE  b2[i] \in 0..NL
    <2>1. CASE i < USERBUF_SIZE - r
        <3>1. i + r + 1 \in 0..USERBUF_SIZE
            BY <1>1, <2>1
        <3> QED
            BY <1>2, <1>4, <2>1, <3>1
    <2>2. CASE ~(i < USERBUF_SIZE - r)
        BY <1>2, <1>4, <2>2
    <2> QED
        BY <2>1, <2>2
<1>6. b2 \in [0..USERBUF_SIZE -> 0..NL]
    BY <1>2, <1>5
<1>7. ASSUME NEW i \in 0..(USERBUF_SIZE - r - 1) PROVE b2[i] = b[i + r + 1]
    <2>1. i \in 0..USERBUF_SIZE /\ i < USERBUF_SIZE - r
        BY <1>1
    <2>2. i + r + 1 \in 0..USERBUF_SIZE /\ i + r + 1 # r
        BY <1>1
    <2> QED
        BY <1>2, <1>3, <2>1, <2>2
<1>8. ASSUME NEW i \in (USERBUF_SIZE - r)..USERBUF_SIZE
      PROVE  b2[i] = IF i = r THEN Input!NUL ELSE b[i]
    <2>1. i \in 0..USERBUF_SIZE /\ ~(i < USERBUF_SIZE - r)
        BY <1>1
    <2> QED
        BY <1>2, <1>3, <2>1
<1> QED
    BY <1>6, <1>7, <1>8 DEF MovedCells

(* Behind what is left of the text no newline is copied back: either there *)
(* was no other, or the text is short enough to be moved as a whole.       *)
LEMMA MovedBehind ==
    ASSUME Sized, NEW b \in [0..USERBUF_SIZE -> 0..NL], NEW c \in 0..USERBUF_SIZE,
           NEW t \in Seq(Nat), NEW h \in Nat, Len(t) <= MaxLines, h < Len(t),
           Lay(b, c, t, h), Behind(b, c), Len(t) - h > 2 => 2 * c <= USERBUF_SIZE,
           NEW r, Ends(b, c, t, h, r),
           NEW b2, MovedTo(b, r, b2)
    PROVE  Behind(b2, c - (r + 1))
<1>1. USERBUF_SIZE \in Nat /\ r \in Nat /\ r < c /\ r \in 0..USERBUF_SIZE /\ Len(t) \in Nat
    BY LenProperties DEF Sized, Ends
<1>2. /\ \A i \in 0..(USERBUF_SIZE - r - 1) : b2[i] = b[i + r + 1]
      /\ \A i \in (USERBUF_SIZE - r)..USERBUF_SIZE : b2[i] = IF i = r THEN Input!NUL ELSE b[i]
    <2>1. MovedCells(b, r, b2)
        BY <1>1, MovedFrom
    <2> QED
        BY <2>1 DEF MovedCells
<1>3. \A i \in 0..(r - 1) : b[i] # NL
    <2>1. h + 1 \in 0..MaxLines
        BY <1>1 DEF Sized
    <2>2. h + 1 # NL
        BY <2>1, NewLineIs
    <2> QED
        BY <2>2 DEF Ends
<1>4. \A i \in (r + 1)..(c - 1) : b[i] = NL => 2 * c <= USERBUF_SIZE
    <2> SUFFICES ASSUME NEW i \in (r + 1)..(c - 1), b[i] = NL PROVE Len(t) - h > 2
        OBVIOUS
    <2>1. i \in At(b, c, NL) /\ r \in At(b, c, NL) /\ i # r
        <3>1. i \in 0..(c - 1) /\ r \in 0..(c - 1) /\ i # r
            BY <1>1
        <3> QED
            BY <3>1 DEF At, Ends
    <2>2. IsFiniteSet(At(b, c, NL)) /\ Count(b, c, NL) \in Nat
        BY CountType
    <2>3. Count(b, c, NL) # 1
        BY <2>1, <2>2, FS_Singleton DEF Count
    <2>4. Count(b, c, NL) # 0
        BY <2>1, <2>2, FS_EmptySet DEF Count
    <2>5. Count(b, c, NL) = Len(t) - 1 - h
        BY DEF Lay
    <2> QED
        BY <1>1, <2>2, <2>3, <2>4, <2>5
<1>5. ASSUME NEW i \in (c - (r + 1))..USERBUF_SIZE PROVE b2[i] # NL
    <2>1. CASE i < USERBUF_SIZE - r
        <3>1. i \in 0..(USERBUF_SIZE - r - 1) /\ i + r + 1 \in c..USERBUF_SIZE
            BY <1>1, <2>1
        <3> QED
            BY <1>2, <3>1 DEF Behind
    <2>2. CASE i >= USERBUF_SIZE - r
        <3>1. i \in (USERBUF_SIZE - r)..USERBUF_SIZE
            BY <1>1, <2>2
        <3>2. b2[i] = IF i = r THEN Input!NUL ELSE b[i]
            BY <1>2, <3>1
        <3>3. CASE i = r
            BY <3>2, <3>3, NewLineIs
        <3>4. CASE i < r
            <4>1. i \in 0..(r - 1)
                BY <1>1, <3>1, <3>4
            <4> QED
                BY <1>3, <3>2, <3>4, <4>1
        <3>5. CASE r < i /\ i < c
            <4>1. i \in (r + 1)..(c - 1) /\ ~(2 * c <= USERBUF_SIZE)
                BY <1>1, <2>2, <3>5
            <4> QED
                BY <1>4, <3>2, <3>5, <4>1
        <3>6. CASE i >= c
            <4>1. i \in c..USERBUF_SIZE /\ i # r
                BY <1>1, <3>6
            <4> QED
                BY <3>2, <4>1 DEF Behind
        <3> QED
            BY <1>1, <3>1, <3>3, <3>4, <3>5, <3>6
    <2> QED
        BY <1>1, <2>1, <2>2
<1> QED
    BY <1>5 DEF Behind

(* What is left of the text lies as it should.                             *)
LEMMA MovedLays ==
    ASSUME Sized, NEW b \in [0..USERBUF_SIZE -> 0..NL], NEW c \in 0..USERBUF_SIZE,
           NEW t \in Seq(Nat), NEW h \in Nat, Len(t) <= MaxLines, h < Len(t),
           Lay(b, c, t, h), NEW r, Ends(b, c, t, h, r),
           NEW b2, MovedTo(b, r, b2)
    PROVE  Lay(b2, c - (r + 1), t, h + 1)
<1> DEFINE d == c - (r + 1)
<1>1. /\ USERBUF_SIZE \in Nat /\ r \in Nat /\ r < c /\ r \in 0..USERBUF_SIZE /\ Len(t) \in Nat
      /\ d \in Nat /\ d + (r + 1) = c
    BY LenProperties DEF Sized, Ends
<1>2. ASSUME NEW i \in 0..(d - 1)
      PROVE  b2[i] = b[i + (r + 1)] /\ i + (r + 1) \in 0..(c - 1)
    <2>1. i \in 0..(USERBUF_SIZE - r - 1) /\ i + (r + 1) = i + r + 1
        BY <1>1
    <2>2. i + (r + 1) \in 0..(c - 1)
        BY <1>1
    <2> QED
        <3>1. \A j \in 0..(USERBUF_SIZE - r - 1) : b2[j] = b[j + r + 1]
            <4>1. MovedCells(b, r, b2)
                BY <1>1, MovedFrom
            <4> QED
                BY <4>1 DEF MovedCells
        <3> QED
            BY <2>1, <2>2, <3>1
<1> HIDE DEF d
<1>3. ASSUME NEW n \in 0..d, NEW x
      PROVE  Count(b2, n, x) = Cardinality(From(b, n + (r + 1), x, r + 1))
    <2>1. \A i \in 0..(n - 1) : i \in 0..(d - 1)
        BY <1>1
    <2>2. CameFrom(b, b2, n, r + 1)
        BY <1>2, <2>1 DEF CameFrom
    <2>3. n \in Nat /\ r + 1 \in Nat
        BY <1>1
    <2> QED
        BY <2>2, <2>3, CountBehind
<1>4. ASSUME NEW n \in 0..d PROVE Count(b2, n, NL) = Count(b, n + (r + 1), NL) - 1
    <2>1. r \in At(b, n + (r + 1), NL)
        <3>1. r \in 0..(n + (r + 1) - 1)
            BY <1>1
        <3> QED
            BY <3>1 DEF At, Ends
    <2>2. \A z \in 0..(r - 1) : b[z] # NL
        <3>1. h + 1 \in 0..MaxLines
            BY <1>1 DEF Sized
        <3>2. h + 1 # NL
            BY <3>1, NewLineIs
        <3> QED
            BY <3>2 DEF Ends
    <2>3. ASSUME NEW z \in At(b, n + (r + 1), NL), z # r PROVE z >= r + 1
        <3>1. z \in Nat /\ z \notin 0..(r - 1)
            BY <2>2 DEF At
        <3> QED
            BY <1>1, <2>3, <3>1
    <2>4. ~(r >= r + 1)
        BY <1>1
    <2>5. From(b, n + (r + 1), NL, r + 1) = At(b, n + (r + 1), NL) \ {r}
        BY <2>3, <2>4 DEF From
    <2>6. n + (r + 1) \in Int
        BY <1>1
    <2>7. IsFiniteSet(At(b, n + (r + 1), NL))
        BY <2>6, CountType
    <2>8. Cardinality(At(b, n + (r + 1), NL) \ {r}) = Cardinality(At(b, n + (r + 1), NL)) - 1
        BY <2>1, <2>7, FS_RemoveElement
    <2>9. Count(b2, n, NL) = Cardinality(From(b, n + (r + 1), NL, r + 1))
        BY <1>3
    <2> QED
        BY <2>5, <2>8, <2>9 DEF Count
<1>5. ASSUME NEW l \in (h + 2)..Len(t) PROVE Count(b2, d, l) = t[l]
    <2>1. l \in 0..MaxLines /\ l # h + 1 /\ l \in (h + 1)..Len(t)
        BY <1>1 DEF Sized
    <2>2. l # NL
        BY <2>1, NewLineIs
    <2>3. \A z \in At(b, c, l) : z >= r + 1
        <3> SUFFICES ASSUME NEW z \in At(b, c, l) PROVE z >= r + 1
            OBVIOUS
        <3>1. z \in 0..(c - 1) /\ b[z] = l
            BY DEF At
        <3>2. z # r /\ z \notin 0..(r - 1)
            BY <2>1, <2>2, <3>1 DEF Ends
        <3> QED
            BY <1>1, <3>1, <3>2
    <2>4. From(b, d + (r + 1), l, r + 1) = At(b, c, l)
        BY <1>1, <2>3 DEF From
    <2>5. Count(b2, d, l) = Cardinality(From(b, d + (r + 1), l, r + 1))
        <3>1. d \in 0..d
            BY <1>1
        <3> QED
            BY <1>3, <3>1
    <2>6. t[l] = Count(b, c, l)
        BY <2>1 DEF Lay
    <2> QED
        BY <2>4, <2>5, <2>6 DEF Count
<1>6. ASSUME NEW i \in 0..(d - 1)
      PROVE  b2[i] # Input!NUL /\ (b2[i] # NL => b2[i] = (h + 1) + 1 + Count(b2, i, NL))
    <2>1. b2[i] = b[i + (r + 1)] /\ i + (r + 1) \in 0..(c - 1) /\ i + (r + 1) \in Int
        <3>1. i + (r + 1) \in Int
            BY <1>1
        <3> QED
            BY <1>2, <3>1
    <2>2. /\ b[i + (r + 1)] # Input!NUL
          /\ b[i + (r + 1)] # NL => b[i + (r + 1)] = h + 1 + Count(b, i + (r + 1), NL)
        BY <2>1 DEF Lay
    <2>3. i \in 0..d
        BY <1>1
    <2>4. Count(b2, i, NL) = Count(b, i + (r + 1), NL) - 1
        BY <1>4, <2>3
    <2>5. Count(b, i + (r + 1), NL) \in Nat
        BY <2>1, CountType
    <2>6. (h + 1) + 1 + Count(b2, i, NL) = h + 1 + Count(b, i + (r + 1), NL)
        BY <2>4, <2>5
    <2> QED
        BY <2>1, <2>2, <2>6
<1>7. Count(b2, d, NL) = Len(t) - 1 - (h + 1)
    <2>1. d \in 0..d
        BY <1>1
    <2>2. Count(b2, d, NL) = Count(b, c, NL) - 1
        BY <1>1, <1>4, <2>1
    <2>3. Count(b, c, NL) = Len(t) - 1 - h
        BY DEF Lay
    <2> QED
        BY <1>1, <2>2, <2>3
<1>8. \A l \in ((h + 1) + 1)..Len(t) : t[l] = Count(b2, d, l)
    <2>1. (h + 1) + 1 = h + 2
        OBVIOUS
    <2> QED
        BY <1>5, <2>1
<1>9. Lay(b2, d, t, h + 1)
    BY <1>6, <1>7, <1>8 DEF Lay
<1> QED
    BY <1>9 DEF d

-----------------------------------------------------------------------------
(* The steps.                                                              *)

(* A function on 1..n is a sequence of length n.                           *)
LEMMA Listed1ToN ==
    ASSUME NEW A, NEW n \in Nat, NEW s \in [1..n -> A]
    PROVE  s \in Seq(A) /\ Len(s) = n
<1>1. s \in Seq(A)
    BY SeqDef
<1>2. Len(s) \in Nat /\ DOMAIN s = 1..Len(s) /\ DOMAIN s = 1..n
    BY <1>1, LenProperties
<1> QED
    BY <1>1, <1>2

(* What the invariant says of one state, its parts opened.                 *)
LEMMA InputInvIs ==
    ASSUME Sized, InputInv
    PROVE  /\ buf \in [0..USERBUF_SIZE -> 0..NL] /\ buf[USERBUF_SIZE] = Input!NUL
           /\ cur \in 0..USERBUF_SIZE /\ cur \in Nat /\ typing \in {"select", "lines", "exited"}
           /\ typed \in Seq(Nat) /\ Len(typed) \in 1..MaxLines /\ typed # <<>>
           /\ DOMAIN typed = 1..Len(typed)
           /\ handled \in Seq(Seq(Int)) /\ Len(handled) \in Nat
           /\ DOMAIN handled = 1..Len(handled) /\ Len(handled) < Len(typed)
<1>1. typed \in Seq(Nat) /\ handled \in Seq(Seq(Int)) /\ Len(handled) < Len(typed)
    BY DEF InputInv
<1>2. /\ buf \in [0..USERBUF_SIZE -> 0..NL] /\ buf[USERBUF_SIZE] = Input!NUL
      /\ cur \in 0..USERBUF_SIZE /\ typing \in {"select", "lines", "exited"}
      /\ Len(typed) \in 1..MaxLines
    BY DEF InputInv, Input!TypeOK, Input!Cells, NL, Input!NUL, Input!NewLine
<1>3. Len(typed) \in Nat /\ DOMAIN typed = 1..Len(typed)
    BY <1>1, LenProperties
<1>4. Len(handled) \in Nat /\ DOMAIN handled = 1..Len(handled)
    BY <1>1, LenProperties
<1>5. typed # <<>>
    BY <1>1, <1>2, EmptySeq
<1>6. cur \in Nat
    BY <1>2
<1> QED
    BY <1>1, <1>2, <1>3, <1>4, <1>5, <1>6

(* Before the first read there is one line begun, of no character.         *)
LEMMA InputStarts ==
    ASSUME Sized, MaxLines \in Nat \ {0}, Input!Init
    PROVE  InputInv
<1>1. /\ buf = [i \in 0..USERBUF_SIZE |-> 0] /\ cur = 0
      /\ typing = "select" /\ typed = <<0>> /\ handled = <<>>
    BY DEF Input!Init, Input!Cells, Input!NUL
<1>2. /\ Len(typed) = 1 /\ typed[1] = 0 /\ typed \in Seq(Nat)
      /\ Len(handled) = 0 /\ handled \in Seq(Seq(Int)) /\ DOMAIN handled = {}
    BY <1>1
<1>3. USERBUF_SIZE \in Nat /\ NL \in Nat /\ NL # 0 /\ Input!NUL = 0
    BY NewLineIs DEF Sized
<1>4. buf \in [0..USERBUF_SIZE -> 0..NL] /\ \A i \in 0..USERBUF_SIZE : buf[i] = 0
    BY <1>1, <1>3
<1>5. Input!TypeOK
    <2>1. buf[USERBUF_SIZE] = 0 /\ cur \in 0..USERBUF_SIZE /\ Len(typed) \in 1..MaxLines
        BY <1>1, <1>2, <1>3, <1>4
    <2> QED
        BY <1>1, <1>4, <2>1 DEF Input!TypeOK, Input!Cells, NL, Input!NUL, Input!NewLine
<1>6. \A x : Count(buf, 0, x) = 0
    <2> TAKE x
    <2>1. \A i \in 0..(0 - 1) : buf[i] # x
        OBVIOUS
    <2> QED
        BY <2>1, CountNone
<1>7. Lay(buf, 0, typed, 0)
    <2>1. \A i \in 0..(0 - 1) : FALSE
        OBVIOUS
    <2>2. Count(buf, 0, NL) = Len(typed) - 1 - 0
        BY <1>2, <1>6
    <2>3. \A l \in (0 + 1)..Len(typed) : typed[l] = Count(buf, 0, l)
        BY <1>2, <1>6
    <2> QED
        BY <2>1, <2>2, <2>3 DEF Lay
<1>8. Behind(buf, 0)
    BY <1>3, <1>4 DEF Behind
<1>9. HandledWhole
    BY <1>2 DEF HandledWhole
<1> QED
    BY <1>1, <1>2, <1>5, <1>7, <1>8, <1>9 DEF InputInv

(* Reading keeps it; the lengths of the lines handled do not change.       *)
LEMMA ReadKeeps ==
    ASSUME Sized, InputInv, Input!Read
    PROVE  InputInv'
<1> DEFINE L == Len(typed)
<1>1. /\ buf \in [0..USERBUF_SIZE -> 0..NL] /\ buf[USERBUF_SIZE] = Input!NUL
      /\ cur \in 0..USERBUF_SIZE /\ cur \in Nat
      /\ typed \in Seq(Nat) /\ L \in 1..MaxLines /\ typed # <<>>
      /\ DOMAIN typed = 1..L
      /\ handled \in Seq(Seq(Int)) /\ Len(handled) \in Nat
      /\ DOMAIN handled = 1..Len(handled) /\ Len(handled) < L
    BY InputInvIs
<1>2. Len(handled) = L - 1
    BY DEF InputInv, Input!Read
<1>3. Lay(buf, cur, typed, L - 1) /\ Behind(buf, cur) /\ HandledWhole
    BY <1>2 DEF InputInv
<1>4. PICK k \in 1..(USERBUF_SIZE - cur) : \E ends \in SUBSET (1..k) :
          /\ L + Input!Cardinality(ends) <= MaxLines
          /\ Input!Cardinality(ends) <= 1 \/ 2 * (cur + k) <= USERBUF_SIZE
          /\ typed' = Input!Typed(k, ends)
          /\ buf' = [i \in 0..USERBUF_SIZE |->
                        IF i \in cur..(cur + k - 1) THEN Input!Typing(i - cur + 1, ends)
                        ELSE buf[i]]
          /\ cur' = cur + k
    BY DEF Input!Read, Input!Cells
<1>5. PICK ends \in SUBSET (1..k) :
          /\ L + Input!Cardinality(ends) <= MaxLines
          /\ Input!Cardinality(ends) <= 1 \/ 2 * (cur + k) <= USERBUF_SIZE
          /\ typed' = Input!Typed(k, ends)
          /\ buf' = [i \in 0..USERBUF_SIZE |->
                        IF i \in cur..(cur + k - 1) THEN Input!Typing(i - cur + 1, ends)
                        ELSE buf[i]]
          /\ cur' = cur + k
    BY <1>4
<1>6. handled' = handled /\ typing' = "lines"
    BY DEF Input!Read
<1>7. \A S : Input!Cardinality(S) = Cardinality(S)
    BY DEF Input!Cardinality, Cardinality
<1>8. USERBUF_SIZE \in Nat /\ MaxLines \in Nat /\ k \in Nat /\ cur + k \in 0..USERBUF_SIZE
    BY <1>1 DEF Sized
<1>9. IsFiniteSet(ends) /\ Cardinality(ends) \in Nat
    <2>1. IsFiniteSet(1..k)
        BY <1>8, FS_Interval
    <2>2. IsFiniteSet(ends)
        BY <2>1, FS_Subset
    <2> QED
        BY <2>2, FS_CardinalityType
<1> DEFINE chr == [j \in 1..k |-> IF j \in ends THEN NL
                                  ELSE L + Cardinality({e \in ends : e < j})]
<1>10. \A j \in 1..k : Input!Typing(j, ends) = chr[j]
    BY <1>7 DEF Input!Typing, NL
<1>11. \A j \in 1..k : chr[j] = IF j \in ends THEN NL
                                ELSE L + Cardinality({e \in ends : e < j})
    OBVIOUS
<1>12. \A j \in 1..k : chr[j] \in 0..NL
    <2> SUFFICES ASSUME NEW j \in 1..k PROVE chr[j] \in 0..NL
        OBVIOUS
    <2>1. NL \in Nat
        BY NewLineIs
    <2>2. CASE j \in ends
        BY <2>1, <2>2
    <2>3. CASE j \notin ends
        <3> DEFINE S == {e \in ends : e < j}
        <3>1. S \in SUBSET ends /\ chr[j] = L + Cardinality(S)
            BY <2>3
        <3> HIDE DEF S, chr
        <3>2. IsFiniteSet(S) /\ Cardinality(S) <= Cardinality(ends)
            BY <1>9, <3>1, FS_Subset
        <3>3. Cardinality(S) \in Nat
            BY <3>2, FS_CardinalityType
        <3>4. L + Cardinality(S) \in 0..MaxLines
            <4>1. L + Input!Cardinality(ends) <= MaxLines
                BY <1>5
            <4>2. Input!Cardinality(ends) = Cardinality(ends) /\ L \in Nat
                BY <1>1, <1>7
            <4> QED
                BY <4>1, <4>2, <1>8, <1>9, <3>2, <3>3
        <3>5. L + Cardinality(S) < NL
            BY <3>4, NewLineIs
        <3> QED
            BY <1>1, <2>1, <3>1, <3>3, <3>5
    <2> QED
        BY <2>2, <2>3
<1> HIDE DEF chr
<1>13. /\ \A i \in 0..USERBUF_SIZE :
             buf'[i] = IF i \in cur..(cur + k - 1) THEN chr[i - cur + 1] ELSE buf[i]
       /\ DOMAIN buf' = 0..USERBUF_SIZE /\ buf' = [i \in 0..USERBUF_SIZE |-> buf'[i]]
    <2>1. \A i \in cur..(cur + k - 1) : i - cur + 1 \in 1..k
        BY <1>1, <1>8
    <2>2. \A i \in cur..(cur + k - 1) : Input!Typing(i - cur + 1, ends) = chr[i - cur + 1]
        BY <1>10, <2>1
    <2> QED
        BY <1>5, <2>2
<1>14. buf' \in [0..USERBUF_SIZE -> 0..NL]
    <2>1. \A i \in 0..USERBUF_SIZE : buf'[i] \in 0..NL
        <3> SUFFICES ASSUME NEW i \in 0..USERBUF_SIZE PROVE buf'[i] \in 0..NL
            OBVIOUS
        <3>1. CASE i \in cur..(cur + k - 1)
            <4>1. i - cur + 1 \in 1..k
                BY <1>1, <1>8, <3>1
            <4>2. buf'[i] = chr[i - cur + 1]
                BY <1>13, <3>1
            <4> QED
                BY <1>12, <4>1, <4>2
        <3>2. CASE i \notin cur..(cur + k - 1)
            <4>1. buf'[i] = buf[i]
                BY <1>13, <3>2
            <4> QED
                BY <1>1, <4>1
        <3> QED
            BY <3>1, <3>2
    <2> QED
        BY <1>13, <2>1
<1>15. /\ \A i \in 0..(cur - 1) : buf'[i] = buf[i]
       /\ \A j \in 1..k : buf'[cur + j - 1] = chr[j]
       /\ \A i \in (cur + k)..USERBUF_SIZE : buf'[i] = buf[i]
    <2>1. \A i \in 0..(cur - 1) : i \in 0..USERBUF_SIZE /\ i \notin cur..(cur + k - 1)
        BY <1>1, <1>8
    <2>2. \A j \in 1..k : /\ cur + j - 1 \in 0..USERBUF_SIZE /\ (cur + j - 1) - cur + 1 = j
                          /\ cur + j - 1 \in cur..(cur + k - 1)
        BY <1>1, <1>8
    <2>3. \A i \in (cur + k)..USERBUF_SIZE : i \in 0..USERBUF_SIZE /\ i \notin cur..(cur + k - 1)
        BY <1>1, <1>8
    <2>4. \A i \in 0..(cur - 1) : buf'[i] = buf[i]
        BY <1>13, <2>1
    <2>5. \A i \in (cur + k)..USERBUF_SIZE : buf'[i] = buf[i]
        BY <1>13, <2>3
    <2>6. \A j \in 1..k : buf'[cur + j - 1] = chr[j]
        <3> TAKE j \in 1..k
        <3>1. buf'[cur + j - 1] = chr[(cur + j - 1) - cur + 1]
            BY <1>13, <2>2
        <3> QED
            BY <2>2, <3>1
    <2> QED
        BY <2>4, <2>5, <2>6
(* The lengths.                                                            *)
<1> DEFINE n == L + Cardinality(ends)
           OfLine(l) == {j \in 1..k : chr[j] = l}
           old(l) == IF l \in DOMAIN typed THEN typed[l] ELSE 0
<1>16. n \in 1..MaxLines /\ n \in Nat
    BY <1>1, <1>5, <1>7, <1>9
<1>17. typed' = [l \in 1..n |-> old(l) + Cardinality(OfLine(l))]
    <2>1. \A l : {j \in 1..k : Input!Typing(j, ends) = l} = OfLine(l)
        BY <1>10
    <2> HIDE DEF OfLine
    <2>2. Input!Typed(k, ends) =
             [l \in 1..(L + Cardinality(ends)) |->
                (IF l \in DOMAIN typed THEN typed[l] ELSE 0)
                  + Cardinality({j \in 1..k : Input!Typing(j, ends) = l})]
        BY <1>7 DEF Input!Typed
    <2> QED
        BY <1>5, <2>1, <2>2
<1>18. \A l : OfLine(l) \in SUBSET (1..k) /\ Cardinality(OfLine(l)) \in Nat
    <2> TAKE l
    <2>1. OfLine(l) \in SUBSET (1..k)
        OBVIOUS
    <2> HIDE DEF OfLine
    <2>2. IsFiniteSet(1..k)
        BY <1>8, FS_Interval
    <2>3. IsFiniteSet(OfLine(l))
        BY <2>1, <2>2, FS_Subset
    <2> QED
        BY <2>1, <2>3, FS_CardinalityType
<1>19. \A l : old(l) \in Nat
    BY <1>1
<1>20. typed' \in [1..n -> Nat] /\ \A l \in 1..n : typed'[l] = old(l) + Cardinality(OfLine(l))
    <2> HIDE DEF n, old, OfLine
    <2> QED
        BY <1>17, <1>18, <1>19
<1>21. typed' \in Seq(Nat) /\ Len(typed') = n
    <2> HIDE DEF n
    <2> QED
        BY <1>16, <1>20, Listed1ToN
<1>22. Appended(buf, cur, typed, k, ends, chr, buf', typed')
    BY <1>5, <1>7, <1>11, <1>15, <1>20, <1>21 DEF Appended
<1>23. Lay(buf', cur', typed', Len(handled'))
    <2>1. Lay(buf', cur + k, typed', L - 1)
        BY <1>1, <1>3, <1>8, <1>22, ReadLays
    <2> QED
        BY <1>2, <1>5, <1>6, <2>1
<1>24. Behind(buf', cur')
    <2>1. \A i \in (cur + k)..USERBUF_SIZE : i \in cur..USERBUF_SIZE
        BY <1>1, <1>8
    <2> QED
        BY <1>3, <1>5, <1>15, <2>1 DEF Behind
<1>25. Len(typed') - Len(handled') > 2 => 2 * cur' <= USERBUF_SIZE
    <2> SUFFICES ASSUME Len(typed') - Len(handled') > 2 PROVE 2 * (cur + k) <= USERBUF_SIZE
        BY <1>5
    <2>1. Cardinality(ends) > 1
        BY <1>1, <1>2, <1>6, <1>9, <1>21
    <2> QED
        BY <1>5, <1>7, <1>9, <2>1
<1>26. HandledWhole'
    <2>1. ASSUME NEW l \in DOMAIN handled PROVE typed'[l] = typed[l]
        <3>1. l \in 1..(L - 1) /\ l \in 1..n /\ l \in DOMAIN typed
            BY SMTT(30), <1>1, <1>2, <1>9
        <3>2. OfLine(l) = {}
            <4>1. ASSUME NEW j \in 1..k PROVE chr[j] # l
                <5>1. l \in 0..MaxLines
                    BY SMTT(30), <1>1, <1>8, <3>1
                <5>2. l # NL
                    BY <5>1, NewLineIs
                <5>3. CASE j \in ends
                    BY <1>11, <5>2, <5>3
                <5>4. CASE j \notin ends
                    <6> DEFINE S == {e \in ends : e < j}
                    <6>1. S \in SUBSET ends /\ chr[j] = L + Cardinality(S)
                        BY <1>11, <5>4
                    <6> HIDE DEF S
                    <6>2. IsFiniteSet(S)
                        BY <1>9, <6>1, FS_Subset
                    <6>3. Cardinality(S) \in Nat
                        BY <6>2, FS_CardinalityType
                    <6> QED
                        BY <1>1, <3>1, <6>1, <6>3
                <5> QED
                    BY <5>3, <5>4
            <4> QED
                BY <4>1
        <3>3. Cardinality(OfLine(l)) = 0
            BY <3>2, FS_EmptySet
        <3>4. typed'[l] = old(l) + Cardinality(OfLine(l)) /\ old(l) = typed[l] /\ old(l) \in Nat
            BY <1>19, <1>20, <3>1
        <3> HIDE DEF old, OfLine
        <3> QED
            BY <3>3, <3>4
    <2> QED
        BY <1>3, <1>6, <2>1 DEF HandledWhole
<1>27. Input!TypeOK'
    <2>1. buf'[USERBUF_SIZE] = Input!NUL
        <3>1. CASE USERBUF_SIZE \in (cur + k)..USERBUF_SIZE
            BY <1>1, <1>15, <3>1
        <3> QED
            BY <1>1, <1>8, <3>1
    <2>2. cur' \in 0..USERBUF_SIZE /\ Len(typed') \in 1..MaxLines
        BY <1>5, <1>8, <1>16, <1>21
    <2> QED
        BY <1>6, <1>14, <2>1, <2>2
        DEF Input!TypeOK, Input!Cells, NL, Input!NUL, Input!NewLine
<1>28. Len(handled') < Len(typed')
    BY <1>1, <1>2, <1>6, <1>9, <1>21
<1> QED
    BY <1>1, <1>6, <1>21, <1>23, <1>24, <1>25, <1>26, <1>27, <1>28 DEF InputInv

(* Handling a line keeps it.                                               *)
LEMMA LineKeeps ==
    ASSUME Sized, InputInv, Input!Line
    PROVE  InputInv'
<1> DEFINE r == Input!Min(Input!Found(buf))
           h == Len(handled)
           line == [j \in 1..r |-> buf[j - 1]]
<1>1. /\ buf \in [0..USERBUF_SIZE -> 0..NL] /\ buf[USERBUF_SIZE] = Input!NUL
      /\ cur \in 0..USERBUF_SIZE /\ cur \in Nat
      /\ typed \in Seq(Nat) /\ Len(typed) \in 1..MaxLines /\ DOMAIN typed = 1..Len(typed)
      /\ handled \in Seq(Seq(Int)) /\ h \in Nat
      /\ DOMAIN handled = 1..h /\ h < Len(typed)
    BY InputInvIs
<1>2. /\ Lay(buf, cur, typed, h) /\ Behind(buf, cur) /\ HandledWhole
      /\ Len(typed) - h > 2 => 2 * cur <= USERBUF_SIZE
    BY DEF InputInv
<1>3. /\ Input!Found(buf) # {} /\ handled' = Append(handled, line)
      /\ MovedTo(buf, r, buf') /\ cur' = cur - (r + 1)
      /\ typing = "lines" /\ typing' = "lines" /\ typed' = typed
    BY DEF Input!Line, MovedTo
<1>4. Len(typed) <= MaxLines /\ USERBUF_SIZE \in Nat /\ MaxLines \in Nat /\ Len(typed) \in Nat
    BY <1>1 DEF Sized
<1>5. Ends(buf, cur, typed, h, r)
    BY <1>1, <1>2, <1>3, <1>4, LineEnds
<1> HIDE DEF r
<1>6. /\ r \in 0..(cur - 1) /\ r \in Nat /\ r \in 0..USERBUF_SIZE /\ h + 1 < Len(typed)
      /\ \A i \in 0..(r - 1) : buf[i] = h + 1
      /\ typed[h + 1] = r
    BY <1>1, <1>4, <1>5 DEF Ends
<1>7. line = [j \in 1..typed[h + 1] |-> h + 1]
    <2>1. \A j \in 1..r : j - 1 \in 0..(r - 1)
        BY <1>6
    <2>2. \A j \in 1..r : buf[j - 1] = h + 1
        BY <1>6, <2>1
    <2> QED
        BY <1>6, <2>2
<1>8. line \in Seq(Int)
    <2>1. [j \in 1..r |-> h + 1] \in [1..r -> Int]
        BY <1>1
    <2>2. [j \in 1..r |-> h + 1] \in Seq(Int)
        BY <1>6, <2>1, Listed1ToN
    <2> QED
        BY <1>6, <1>7, <2>2
<1> HIDE DEF line
<1>9. /\ handled' \in Seq(Seq(Int)) /\ Len(handled') = h + 1 /\ DOMAIN handled' = 1..(h + 1)
      /\ \A l \in 1..(h + 1) : handled'[l] = IF l = h + 1 THEN line ELSE handled[l]
    <2>1. handled' \in Seq(Seq(Int)) /\ Len(handled') = h + 1
        BY <1>1, <1>3, <1>8, AppendProperties
    <2>2. DOMAIN handled' = 1..(h + 1)
        BY <2>1, LenProperties
    <2>3. ASSUME NEW l \in 1..(h + 1)
          PROVE  handled'[l] = IF l = h + 1 THEN line ELSE handled[l]
        BY <1>1, <1>3, <1>8, AppendProperties
    <2> QED
        BY <2>1, <2>2, <2>3
<1>10. HandledWhole'
    <2>1. ASSUME NEW l \in 1..(h + 1) PROVE handled'[l] = [j \in 1..typed[l] |-> l]
        <3>1. CASE l = h + 1
            BY <1>7, <1>9, <3>1
        <3>2. CASE l # h + 1
            <4>1. l \in 1..h
                BY <1>1, <3>2
            <4>2. handled[l] = [j \in 1..typed[l] |-> l]
                BY <1>1, <1>2, <4>1 DEF HandledWhole
            <4>3. handled'[l] = handled[l]
                BY <1>9, <3>2
            <4> QED
                BY <4>2, <4>3
        <3> QED
            BY <3>1, <3>2
    <2> QED
        BY <1>3, <1>9, <2>1 DEF HandledWhole
<1>11. MovedCells(buf, r, buf')
    BY <1>1, <1>3, <1>6, MovedFrom
<1>12. cur' \in 0..USERBUF_SIZE /\ cur' <= cur
    BY <1>1, <1>3, <1>4, <1>6
<1>13. Lay(buf', cur', typed', Len(handled'))
    <2>1. Lay(buf', cur - (r + 1), typed, h + 1)
        BY <1>1, <1>2, <1>3, <1>4, <1>5, MovedLays
    <2> QED
        BY <1>3, <1>9, <2>1
<1>14. Behind(buf', cur')
    <2>1. Behind(buf', cur - (r + 1))
        BY <1>1, <1>2, <1>3, <1>4, <1>5, MovedBehind
    <2> QED
        BY <1>3, <2>1
<1>15. buf'[USERBUF_SIZE] = Input!NUL
    <2>1. USERBUF_SIZE \in (USERBUF_SIZE - r)..USERBUF_SIZE /\ USERBUF_SIZE # r
        BY <1>1, <1>4, <1>6
    <2> QED
        BY <1>1, <1>11, <2>1 DEF MovedCells
<1>16. Input!TypeOK'
    <2>1. buf' \in [0..USERBUF_SIZE -> 0..NL]
        BY <1>11 DEF MovedCells
    <2> QED
        BY <1>1, <1>3, <1>12, <1>15, <2>1
        DEF Input!TypeOK, Input!Cells, NL, Input!NUL, Input!NewLine
<1>17. Len(handled') < Len(typed') /\ (Len(typed') - Len(handled') > 2 => 2 * cur' <= USERBUF_SIZE)
    <2>1. Len(handled') = h + 1 /\ Len(typed') = Len(typed)
        BY <1>3, <1>9
    <2>2. Len(typed) - (h + 1) > 2 => 2 * cur <= USERBUF_SIZE
        BY <1>1, <1>2, <1>4
    <2>3. 2 * cur <= USERBUF_SIZE => 2 * cur' <= USERBUF_SIZE
        <3> SUFFICES ASSUME 2 * cur <= USERBUF_SIZE PROVE 2 * cur' <= USERBUF_SIZE
            OBVIOUS
        <3>1. cur' \in Nat /\ cur \in Nat /\ USERBUF_SIZE \in Nat /\ cur' <= cur
            BY <1>1, <1>4, <1>12
        <3> QED
            BY <3>1, HalfOf, Zenon
    <2> QED
        BY <1>6, <2>1, <2>2, <2>3
<1> QED
    BY <1>1, <1>3, <1>9, <1>10, <1>13, <1>14, <1>16, <1>17 DEF InputInv

(* So does finding no more lines: all that have been ended are handled.    *)
LEMMA NoLineKeeps ==
    ASSUME Sized, InputInv, Input!NoLine
    PROVE  InputInv'
<1>1. /\ typing' = "select" /\ Input!Found(buf) = {}
      /\ buf' = buf /\ cur' = cur /\ typed' = typed /\ handled' = handled
    BY DEF Input!NoLine
<1>2. Len(handled) = Len(typed) - 1
    <2>1. Lay(buf, cur, typed, Len(handled)) /\ Behind(buf, cur)
        BY DEF InputInv
    <2> QED
        BY <1>1, <2>1, InputInvIs, NoneEnded
<1>3. Input!TypeOK'
    BY <1>1 DEF InputInv, Input!TypeOK
<1>4. Lay(buf', cur', typed', Len(handled')) /\ Behind(buf', cur')
    BY <1>1 DEF InputInv
<1>5. HandledWhole'
    BY <1>1 DEF InputInv, HandledWhole
<1> QED
    BY <1>1, <1>2, <1>3, <1>4, <1>5 DEF InputInv

(* The invariant is kept by every step.                                    *)
LEMMA InputStep ==
    ASSUME Sized, InputInv, [Input!Next]_(Input!ivars)
    PROVE  InputInv'
<1>1. CASE Input!Exit
    <2>1. /\ typing = "select" /\ typing' = "exited"
          /\ buf' = buf /\ cur' = cur /\ typed' = typed /\ handled' = handled
        BY <1>1 DEF Input!Exit
    <2>2. Input!TypeOK'
        BY <2>1 DEF InputInv, Input!TypeOK
    <2>3. Lay(buf', cur', typed', Len(handled')) /\ Behind(buf', cur')
        BY <2>1 DEF InputInv
    <2>4. HandledWhole'
        BY <2>1 DEF InputInv, HandledWhole
    <2> QED
        BY <2>1, <2>2, <2>3, <2>4 DEF InputInv
<1>2. CASE Input!Read
    BY <1>2, ReadKeeps
<1>3. CASE Input!Line
    BY <1>3, LineKeeps
<1>4. CASE Input!NoLine
    BY <1>4, NoLineKeeps
<1>5. CASE UNCHANGED Input!ivars
    <2>1. /\ typing' = typing /\ buf' = buf /\ cur' = cur
          /\ typed' = typed /\ handled' = handled
        BY <1>5 DEF Input!ivars
    <2>2. Input!TypeOK'
        BY <2>1 DEF InputInv, Input!TypeOK
    <2>3. Lay(buf', cur', typed', Len(handled')) /\ Behind(buf', cur')
        BY <2>1 DEF InputInv
    <2>4. HandledWhole'
        BY <2>1 DEF InputInv, HandledWhole
    <2> QED
        BY <2>1, <2>2, <2>3, <2>4 DEF InputInv
<1> QED
    BY <1>1, <1>2, <1>3, <1>4, <1>5 DEF Input!Next

(* Between reads cur counts the line not ended yet.                        *)
LEMMA InputMeans ==
    ASSUME Sized, InputInv
    PROVE  LinesWhole
<1>1. /\ typed \in Seq(Nat) /\ Len(typed) \in 1..MaxLines /\ typed # <<>> /\ cur \in Nat
      /\ DOMAIN handled = 1..Len(handled) /\ Len(handled) \in Nat /\ Len(handled) < Len(typed)
    BY InputInvIs
<1>2. ASSUME NEW l \in DOMAIN handled
      PROVE  l < Len(typed) /\ handled[l] = [j \in 1..typed[l] |-> l]
    <2>1. l < Len(typed)
        BY <1>1
    <2> QED
        BY <2>1 DEF InputInv, HandledWhole
<1>3. typing # "lines" => Len(handled) = Len(typed) - 1 /\ cur = typed[Len(typed)]
    <2> SUFFICES ASSUME typing # "lines"
                 PROVE  Len(handled) = Len(typed) - 1 /\ cur = typed[Len(typed)]
        OBVIOUS
    <2>1. Len(handled) = Len(typed) - 1
        BY DEF InputInv
    <2>2. Lay(buf, cur, typed, Len(typed) - 1)
        BY <2>1 DEF InputInv
    <2>3. typed[Len(typed)] = cur
        BY <1>1, <2>2, OneLine
    <2> QED
        BY <2>1, <2>3
<1> QED
    BY <1>2, <1>3 DEF LinesWhole, Input!LinesWhole

-----------------------------------------------------------------------------
(* input_buffer.c: whatever the size of the buffer and however the lines   *)
(* arrive, no read goes beyond the buffer and the count of the text never  *)
(* wraps around.                                                           *)
THEOREM InputSound == Input!Spec => []Input!TypeOK
<1>1. Sized /\ MaxLines \in Nat \ {0}
    BY PartsAssumption DEF Input!InputBufferAssumption, Sized
<1>2. Input!Init => InputInv
    BY <1>1, InputStarts
<1>3. InputInv /\ [Input!Next]_(Input!ivars) => InputInv'
    BY <1>1, InputStep
<1>4. InputInv => Input!TypeOK
    BY DEF InputInv
<1> QED
    BY <1>2, <1>3, <1>4, PTL DEF Input!Spec

(* input_buffer.c: every line typed is handled once, whole and in order,   *)
(* and nothing that earlier lines have left in the buffer is taken for     *)
(* text.  This is of the reads that Read allows: they end one line at      *)
(* most, or leave the text in half of the buffer.                          *)
THEOREM LinesHandledWhole == Input!Spec => []LinesWhole
<1>1. Sized /\ MaxLines \in Nat \ {0}
    BY PartsAssumption DEF Input!InputBufferAssumption, Sized
<1>2. Input!Init => InputInv
    BY <1>1, InputStarts
<1>3. InputInv /\ [Input!Next]_(Input!ivars) => InputInv'
    BY <1>1, InputStep
<1>4. InputInv => LinesWhole
    BY <1>1, InputMeans
<1> QED
    BY <1>2, <1>3, <1>4, PTL DEF Input!Spec

-----------------------------------------------------------------------------
(* A WHOHAS and its answer.                                                *)

(* The hashes owned among the first k that were asked for.                 *)
AreKept(f, asked, own, k) ==
    f = [j \in 0..k |->
           IF j = 0 THEN <<>>
           ELSE IF asked[j] \in own THEN Append(f[j - 1], asked[j]) ELSE f[j - 1]]

(* There is such a function for any number of hashes.                      *)
LEMMA KeptExist ==
    ASSUME NEW asked, NEW own, NEW n \in Nat
    PROVE  \E f : AreKept(f, asked, own, n)
<1> DEFINE step(g, j) == IF asked[j] \in own THEN Append(g, asked[j]) ELSE g
           Is(f, k) == f = [j \in 0..k |-> IF j = 0 THEN <<>> ELSE step(f[j - 1], j)]
           S == {k \in Nat : \E f : Is(f, k)}
<1>1. 0 \in S
    <2>1. Is([j \in 0..0 |-> <<>>], 0)
        <3>1. \A j \in 0..0 : j = 0
            OBVIOUS
        <3> HIDE DEF step
        <3> QED
            BY <3>1
    <2> QED
        BY <2>1
<1>2. ASSUME NEW k \in S PROVE k + 1 \in S
    <2>1. PICK f : Is(f, k)
        OBVIOUS
    <2> DEFINE h == [j \in 0..(k + 1) |-> IF j <= k THEN f[j] ELSE step(f[k], k + 1)]
    <2> HIDE DEF step
    <2>2. ASSUME NEW j \in 0..(k + 1)
          PROVE  h[j] = IF j = 0 THEN <<>> ELSE step(h[j - 1], j)
        <3>1. CASE j = 0
            BY <2>1, <3>1
        <3>2. CASE j # 0 /\ j <= k
            <4>1. j \in 0..k /\ j - 1 \in 0..k /\ j - 1 \in 0..(k + 1) /\ j - 1 <= k
                BY <3>2
            <4>2. h[j] = f[j] /\ h[j - 1] = f[j - 1]
                BY <4>1
            <4>3. f[j] = step(f[j - 1], j)
                BY <2>1, <3>2, <4>1
            <4> QED
                BY <3>2, <4>2, <4>3
        <3>3. CASE j = k + 1
            <4>1. j - 1 = k /\ k \in 0..(k + 1) /\ ~(j <= k) /\ j # 0
                BY <3>3
            <4> QED
                BY <3>3, <4>1
        <3> QED
            BY <3>1, <3>2, <3>3
    <2>3. h = [j \in 0..(k + 1) |-> h[j]]
        OBVIOUS
    <2>4. Is(h, k + 1)
        <3> HIDE DEF h
        <3> QED
            BY <2>2, <2>3
    <2>5. k + 1 \in Nat
        OBVIOUS
    <2> HIDE DEF h, Is
    <2> QED
        BY <2>4, <2>5
<1>3. S = Nat
    <2>1. S \in SUBSET Nat
        OBVIOUS
    <2> HIDE DEF S
    <2> QED
        BY <1>1, <1>2, <2>1, AllNumbers
<1>4. PICK f : Is(f, n)
    BY <1>3
<1>5. AreKept(f, asked, own, n)
    BY <1>4 DEF AreKept
<1> QED
    BY <1>5

(* What is kept is what is owned of them, and no more than was asked for.  *)
LEMMA KeptAre ==
    ASSUME NEW asked \in Seq(Nat), NEW own, NEW f, AreKept(f, asked, own, Len(asked))
    PROVE  /\ f[Len(asked)] \in Seq(Nat)
           /\ Len(f[Len(asked)]) <= Len(asked)
           /\ ToSet(f[Len(asked)]) = ToSet(asked) \cap own
<1> DEFINE n == Len(asked)
           Good(k) == /\ f[k] \in Seq(Nat) /\ Len(f[k]) <= k
                      /\ ToSet(f[k]) = {asked[j] : j \in 1..k} \cap own
           S == {k \in Nat : k <= n => Good(k)}
<1>1. n \in Nat /\ DOMAIN asked = 1..n /\ \A j \in 1..n : asked[j] \in Nat
    BY LenProperties, ElementOfSeq
<1> HIDE DEF n
<1>2. f = [j \in 0..n |->
             IF j = 0 THEN <<>>
             ELSE IF asked[j] \in own THEN Append(f[j - 1], asked[j]) ELSE f[j - 1]]
    BY DEF AreKept, n
<1>3. 0 \in S
    <2>1. f[0] = <<>>
        BY <1>1, <1>2
    <2>2. ToSet(<<>>) = {} /\ <<>> \in Seq(Nat) /\ Len(<<>>) = 0
        BY EmptySeq, LenProperties DEF ToSet
    <2>3. {asked[j] : j \in 1..0} = {}
        OBVIOUS
    <2>4. Good(0)
        BY ONLY <2>1, <2>2, <2>3
    <2> QED
        BY <2>4
<1>4. ASSUME NEW k \in S PROVE k + 1 \in S
    <2>1. SUFFICES ASSUME k + 1 <= n PROVE Good(k + 1)
        OBVIOUS
    <2>2. k \in 0..n /\ k + 1 \in 0..n /\ k + 1 \in 1..n /\ (k + 1) - 1 = k /\ k + 1 # 0
        BY <1>1, <2>1
    <2>3. Good(k)
        BY <1>1, <2>1
    <2>4. f[k + 1] = IF asked[k + 1] \in own THEN Append(f[k], asked[k + 1]) ELSE f[k]
        BY <1>2, <2>2
    <2>5. {asked[j] : j \in 1..(k + 1)} = {asked[j] : j \in 1..k} \cup {asked[k + 1]}
        <3>1. 1..(k + 1) = (1..k) \cup {k + 1}
            OBVIOUS
        <3> QED
            BY <3>1
    <2>6. CASE asked[k + 1] \in own
        <3> DEFINE q == f[k]
                   e == asked[k + 1]
                   p == Append(q, e)
        <3>1. q \in Seq(Nat) /\ e \in Nat
            BY <1>1, <2>2, <2>3
        <3>2. /\ p \in Seq(Nat) /\ Len(p) = Len(q) + 1 /\ p[Len(q) + 1] = e
              /\ \A i \in 1..Len(q) : p[i] = q[i]
              /\ DOMAIN p = 1..(Len(q) + 1) /\ DOMAIN q = 1..Len(q) /\ Len(q) \in Nat
            <4> HIDE DEF q, e
            <4> QED
                BY <3>1, AppendProperties, LenProperties
        <3>3. ToSet(p) = ToSet(q) \cup {e}
            <4> HIDE DEF p, q, e
            <4>1. 1..(Len(q) + 1) = (1..Len(q)) \cup {Len(q) + 1}
                BY <3>2
            <4> QED
                BY SMTT(30), <3>2, <4>1 DEF ToSet
        <3>4. f[k + 1] = p
            BY <2>4, <2>6
        <3>5. Len(q) <= k /\ ToSet(q) = {asked[j] : j \in 1..k} \cap own
            BY <2>3
        <3> HIDE DEF p
        <3>6. Len(p) <= k + 1
            BY <3>2, <3>5
        <3>7. ToSet(p) = {asked[j] : j \in 1..(k + 1)} \cap own
            BY <2>5, <2>6, <3>3, <3>5
        <3> QED
            BY <3>2, <3>4, <3>6, <3>7
    <2>7. CASE asked[k + 1] \notin own
        <3>1. f[k + 1] = f[k] /\ Len(f[k]) \in Nat
            BY <2>3, <2>4, <2>7, LenProperties
        <3>2. Len(f[k]) <= k + 1
            BY <2>3, <3>1
        <3>3. ToSet(f[k]) = {asked[j] : j \in 1..(k + 1)} \cap own
            BY <2>3, <2>5, <2>7
        <3> QED
            BY <2>3, <3>1, <3>2, <3>3
    <2> QED
        BY <2>6, <2>7
<1>5. S = Nat
    <2>1. S \in SUBSET Nat
        OBVIOUS
    <2> HIDE DEF S
    <2> QED
        BY <1>3, <1>4, <2>1, AllNumbers
<1>6. Good(n)
    <2> HIDE DEF Good
    <2>1. n \in S /\ n <= n
        BY <1>1, <1>5
    <2> QED
        BY <2>1
<1>7. ToSet(asked) = {asked[j] : j \in 1..n}
    BY <1>1 DEF ToSet
<1> QED
    BY <1>6, <1>7 DEF n

(* A message of as many hashes as a length has bits for says how long it   *)
(* is, and with no more than a signed char counts also how many they are.  *)
LEMMA MessageIs ==
    ASSUME NEW h \in Seq(Nat), Len(h) <= 3275
    PROVE  LET m == Flood!Message(h)
           IN  /\ m.hashes = h
               /\ Flood!Accepted(m) <=> Len(h) <= 74
               /\ Len(h) <= 74 => /\ Flood!SignedChar(m.count) = Len(h)
                                  /\ Flood!HashesRead(m) = h
<1> DEFINE m == Flood!Message(h)
           n == Len(h)
<1>1. n \in Nat
    BY LenProperties
<1>2. m.hashes = h /\ m.count = n % 256
    BY DEF Flood!Message
<1> HIDE DEF m, n
<1>3. n <= 3275
    BY DEF n
<1>4. m.packet_len = 20 + 20 * n
    <2> DEFINE length(k) == (16 + 4 + 20 * k) % 65536
               l == m.packet_len
    <2>1. l = length(n)
        BY DEF m, n, Flood!Message, Flood!HEAD, Flood!PAD, Flood!CHUNK_SIZE
    <2>2. \A k \in Nat : k <= 3275 => length(k) = 20 + 20 * k
        OBVIOUS
    <2> HIDE DEF length, l
    <2>4. l = 20 + 20 * n
        BY <1>1, <1>3, <2>1, <2>2
    <2> QED
        BY <2>4 DEF l
<1>5. Flood!Accepted(m) <=> n <= 74
    <2> DEFINE l == m.packet_len
    <2>1. Flood!Accepted(m) <=> 16 <= Flood!Min({l, 1500}) /\ Flood!Min({l, 1500}) = l
        BY DEF Flood!Accepted, Flood!BUFLEN, Flood!HEAD
    <2>2. l \in Nat /\ 20 <= l
        BY <1>1, <1>4
    <2>3. Flood!Min({l, 1500}) = IF l <= 1500 THEN l ELSE 1500
        <3> HIDE DEF l
        <3> QED
            BY <2>2 DEF Flood!Min
    <2>4. l <= 1500 <=> n <= 74
        BY <1>1, <1>4
    <2> HIDE DEF l
    <2> QED
        BY <2>1, <2>2, <2>3, <2>4
<1>6. ASSUME n <= 74
      PROVE  Flood!SignedChar(m.count) = n /\ Flood!HashesRead(m) = h
    <2>1. m.count = n
        BY <1>1, <1>2, <1>6
    <2>2. (n + 128) % 256 = n + 128
        BY <1>1, <1>6
    <2>3. Flood!SignedChar(n) = n
        BY <1>1, <2>2 DEF Flood!SignedChar
    <2>4. (m.packet_len - 16 - 4) \div 20 = n
        BY <1>1, <1>4
    <2>6. Flood!HashesRead(m) = SubSeq(h, 1, n)
        <3> DEFINE a == Flood!SignedChar(m.count)
                   b == (m.packet_len - 16 - 4) \div 20
                   g == m.hashes
                   c == Flood!Min({a, b})
        <3>1. Flood!HashesRead(m) = SubSeq(g, 1, c)
            BY DEF Flood!HashesRead, Flood!HEAD, Flood!PAD, Flood!CHUNK_SIZE
        <3>2. a = n /\ b = n
            BY <2>1, <2>3, <2>4
        <3>3. g = h
            BY <1>2
        <3> HIDE DEF a, b
        <3>4. c = n
            BY <1>1, <3>2 DEF Flood!Min
        <3> HIDE DEF c, g
        <3> QED
            BY ONLY <3>1, <3>3, <3>4
    <2>7. SubSeq(h, 1, n) = h
        BY SubSeqFull DEF n
    <2> QED
        BY <2>1, <2>3, <2>6, <2>7
<1> QED
    BY <1>2, <1>5, <1>6 DEF m, n

(* The WHOHAS for a chunk file of n chunks.                                *)
Whohas(n) == Flood!Message([i \in 1..n |-> i])

Numbered(n) == [i \in 1..n |-> i]

(* The hashes of a whole chunk file, in order.                             *)
LEMMA NumberedIs ==
    ASSUME NEW n \in Nat
    PROVE  /\ Numbered(n) \in Seq(Nat) /\ Len(Numbered(n)) = n
           /\ ToSet(Numbered(n)) = 1..n
<1>1. Numbered(n) \in [1..n -> Nat]
    BY DEF Numbered
<1>2. Numbered(n) \in Seq(Nat) /\ Len(Numbered(n)) = n
    BY <1>1, ListedSeq
<1>3. ToSet(Numbered(n)) = 1..n
    BY DEF ToSet, Numbered
<1> QED
    BY <1>2, <1>3

(* process_whohas: of a whole chunk file, what is owned, when the first of *)
(* it is.                                                                  *)
LEMMA ReportedIs ==
    ASSUME NEW n \in 1..74
    PROVE  LET r == Flood!Reported(Whohas(n))
           IN  /\ r \in Seq(Nat) /\ Len(r) <= n
               /\ ToSet(r) = IF 1 \in owned THEN owned \cap 1..n ELSE {}
<1> DEFINE h == Numbered(n)
           m == Whohas(n)
           r == Flood!Reported(m)
<1>1. h \in Seq(Nat) /\ Len(h) = n /\ ToSet(h) = 1..n /\ n \in Nat
    BY NumberedIs
<1>2. m.hashes = h /\ Flood!SignedChar(m.count) = n
    <2>1. m = Flood!Message(h)
        BY DEF Whohas, Numbered
    <2> HIDE DEF h, m
    <2> QED
        BY <1>1, <2>1, MessageIs
<1>3. SubSeq(h, 1, n) = h
    <2> HIDE DEF h
    <2> QED
        BY <1>1, SubSeqFull
<1>4. h # <<>> /\ Head(h) = 1
    <2>1. h # <<>>
        <3> HIDE DEF h
        <3> QED
            BY <1>1, EmptySeq
    <2>2. h[1] = 1
        BY DEF Numbered
    <2> HIDE DEF h
    <2> QED
        BY <1>1, <2>1, <2>2, HeadTailProperties
<1> HIDE DEF h, m
<1>5. r = IF 1 \in owned THEN (CHOOSE f : AreKept(f, h, owned, Len(h)))[Len(h)] ELSE <<>>
    <2> DEFINE asked == SubSeq(m.hashes, 1, Flood!SignedChar(m.count))
    <2>1. r = IF asked # <<>> /\ Head(asked) \in owned
              THEN (CHOOSE f : AreKept(f, asked, owned, Len(asked)))[Len(asked)] ELSE <<>>
        BY DEF Flood!Reported, AreKept
    <2>2. asked = h
        BY <1>2, <1>3
    <2> HIDE DEF asked, r
    <2> QED
        BY <1>4, <2>1, <2>2
<1>6. CASE 1 \in owned
    <2> DEFINE f == CHOOSE g : AreKept(g, h, owned, Len(h))
    <2>1. AreKept(f, h, owned, Len(h))
        BY <1>1, KeptExist
    <2> HIDE DEF f
    <2>2. /\ f[Len(h)] \in Seq(Nat) /\ Len(f[Len(h)]) <= Len(h)
          /\ ToSet(f[Len(h)]) = ToSet(h) \cap owned
        BY <1>1, <2>1, KeptAre
    <2>3. r = f[Len(h)]
        BY <1>5, <1>6 DEF f
    <2> HIDE DEF r
    <2> QED
        BY <1>1, <1>6, <2>2, <2>3 DEF r, m
<1>7. CASE 1 \notin owned
    <2>1. r = <<>>
        BY <1>5, <1>7
    <2>2. <<>> \in Seq(Nat) /\ Len(<<>>) = 0 /\ ToSet(<<>>) = {}
        BY EmptySeq, LenProperties DEF ToSet
    <2> HIDE DEF r
    <2> QED
        BY <1>1, <1>7, <2>1, <2>2 DEF r, m
<1> QED
    BY <1>6, <1>7

(* send_ihave: no more than a packet has room for goes into one packet.    *)
LEMMA IhavesAre ==
    ASSUME NEW chunks \in Seq(Nat), Len(chunks) <= 74
    PROVE  Flood!Ihaves(chunks) = IF chunks = <<>> THEN <<>> ELSE <<Flood!Message(chunks)>>
<1> DEFINE L == Len(chunks)
           Num(s) == Flood!Min({Flood!SignedChar(L - s), Flood!max_chunks})
           rest(f, s) == IF s = L \/ Num(s) <= 0 THEN <<>>
                         ELSE <<Flood!Message(SubSeq(chunks, s + 1, s + Num(s)))>> \o f[s + Num(s)]
           Is(f) == f = [s \in 0..L |-> rest(f, s)]
           g == [s \in 0..L |-> IF s = L THEN <<>>
                                ELSE <<Flood!Message(SubSeq(chunks, s + 1, L))>>]
<1>1. L \in Nat /\ L <= 74
    BY LenProperties
<1>2. Flood!Ihaves(chunks) = (CHOOSE f : Is(f))[0]
    BY DEF Flood!Ihaves
<1>3. \A s \in 0..L : s # L => Num(s) = L - s
    <2> TAKE s \in 0..L
    <2>1. SUFFICES ASSUME s # L PROVE Num(s) = L - s
        OBVIOUS
    <2>2. L - s \in 1..74
        <3> HIDE DEF L
        <3> QED
            BY <1>1, <2>1
    <2>3. \A k \in 1..74 : ((k + 128) % 256) - 128 = k
        OBVIOUS
    <2> HIDE DEF L
    <2>4. Flood!SignedChar(L - s) = L - s
        BY <2>2, <2>3 DEF Flood!SignedChar
    <2>5. Flood!max_chunks = 74
        BY DEF Flood!max_chunks, Flood!MAX_PACKET_SIZE, Flood!HEAD, Flood!CHUNK_SIZE
    <2>6. \A k \in 1..74 : Flood!Min({k, 74}) = k
        BY DEF Flood!Min
    <2> QED
        BY <2>2, <2>4, <2>5, <2>6
<1> HIDE DEF Num
<1>4. \A f, s : s \in 0..L => rest(f, s) = IF s = L THEN <<>>
                      ELSE <<Flood!Message(SubSeq(chunks, s + 1, L))>> \o f[L]
    <2> TAKE f, s
    <2>1. SUFFICES ASSUME s \in 0..L
                   PROVE  rest(f, s) = IF s = L THEN <<>>
                      ELSE <<Flood!Message(SubSeq(chunks, s + 1, L))>> \o f[L]
        OBVIOUS
    <2>2. CASE s = L
        BY <2>2
    <2>3. CASE s # L
        <3>1. Num(s) = L - s /\ ~(Num(s) <= 0) /\ s + Num(s) = L
            BY <1>1, <1>3, <2>1, <2>3
        <3> HIDE DEF L
        <3> QED
            BY <2>3, <3>1
    <2> QED
        BY <2>2, <2>3
<1> HIDE DEF rest
<1>5. \A e : <<e>> \o <<>> = <<e>>
    <2> TAKE e
    <2>1. <<e>> \in Seq({e})
        BY SeqDef
    <2> QED
        BY <2>1, ConcatEmptySeq
<1>6. Is(g)
    <2>1. g[L] = <<>>
        BY <1>1
    <2>2. ASSUME NEW s \in 0..L PROVE g[s] = rest(g, s)
        BY <1>1, <1>4, <1>5, <2>1
    <2>3. g = [s \in 0..L |-> g[s]]
        OBVIOUS
    <2> HIDE DEF g
    <2> QED
        BY <2>2, <2>3
<1>7. ASSUME NEW f, Is(f)
      PROVE  f[0] = IF L = 0 THEN <<>> ELSE <<Flood!Message(SubSeq(chunks, 1, L))>>
    <2>1. 0 \in 0..L /\ L \in 0..L /\ 0 + 1 = 1
        BY <1>1
    <2>2. f[0] = rest(f, 0) /\ f[L] = rest(f, L)
        BY <1>7, <2>1
    <2>3. f[L] = <<>>
        BY <1>4, <2>1, <2>2
    <2> HIDE DEF Is
    <2>4. CASE L = 0
        BY <2>3, <2>4
    <2>5. CASE L # 0
        BY <1>4, <1>5, <2>1, <2>2, <2>3, <2>5
    <2> QED
        BY <2>4, <2>5
<1>8. Is(CHOOSE f : Is(f))
    <2> HIDE DEF Is, g
    <2> QED
        BY <1>6
<1>9. Flood!Ihaves(chunks) = IF L = 0 THEN <<>> ELSE <<Flood!Message(SubSeq(chunks, 1, L))>>
    <2> HIDE DEF Is, L
    <2> QED
        BY <1>2, <1>7, <1>8
<1>10. SubSeq(chunks, 1, L) = chunks /\ (L = 0 <=> chunks = <<>>)
    BY SubSeqFull, EmptySeq
<1> QED
    BY <1>9, <1>10

(* As many hashes as a length has bits for, and one at least.              *)
Fit(n) == n \in Nat /\ 1 <= n /\ n <= 3275

(* The chunks that a flood is to tell of.                                  *)
Answer(n, own) == IF n <= 74 /\ 1 \in own THEN own ELSE {}

(* One packet on its way, the answer in it, or the answer learned.         *)
OnItsWay(hashes, n, own, w, known) ==
    /\ hashes # <<>> /\ hashes \in Seq(Nat) /\ Len(hashes) <= 74 /\ ToSet(hashes) = Answer(n, own)
    /\ w = <<Flood!Message(hashes)>> /\ known = {}

Stage(n, own, at, w, known) ==
    \/ at = "flood" /\ w = <<>> /\ known = {}
    \/ at = "asked" /\ w = <<Whohas(n)>> /\ known = {}
    \/ /\ at = "answered"
       /\ \/ w = <<>> /\ known = Answer(n, own)
          \/ \E hashes : OnItsWay(hashes, n, own, w, known)

FloodInv ==
    /\ Fit(num_chunks) /\ owned \subseteq 1..num_chunks
    /\ Stage(num_chunks, owned, pc, wire, learned)

(* The first packet of one is that one.                                    *)
LEMMA OnePacket ==
    ASSUME NEW m
    PROVE  <<m>> # <<>> /\ Head(<<m>>) = m /\ Tail(<<m>>) = <<>>
           /\ \A k \in DOMAIN <<m>> : <<m>>[k] = m
OBVIOUS

(* A WHOHAS is read when a packet has room for it, and then it says how    *)
(* many hashes it has.                                                     *)
LEMMA WhohasIs ==
    ASSUME NEW n, Fit(n)
    PROVE  /\ Flood!Accepted(Whohas(n)) <=> n <= 74
           /\ n <= 74 => Flood!SignedChar(Whohas(n).count) = Len(Whohas(n).hashes)
<1> DEFINE h == Numbered(n)
           m == Whohas(n)
<1>1. h \in Seq(Nat) /\ Len(h) = n /\ n <= 3275
    BY NumberedIs DEF Fit
<1>2. m = Flood!Message(h)
    BY DEF Whohas, Numbered
<1> HIDE DEF h, m
<1>3. /\ m.hashes = h
      /\ Flood!Accepted(m) <=> Len(h) <= 74
      /\ Len(h) <= 74 => Flood!SignedChar(m.count) = Len(h)
    BY <1>1, <1>2, MessageIs
<1> QED
    BY <1>1, <1>3 DEF m

(* What is kept says what the properties do.                               *)
LEMMA FloodMeans ==
    ASSUME FloodInv
    PROVE  AnsweredWhole /\ Flood!TypeOK
<1>1. Fit(num_chunks) /\ owned \subseteq 1..num_chunks
    BY DEF FloodInv
<1>2. CASE pc = "flood" /\ wire = <<>> /\ learned = {}
    <2>1. DOMAIN wire = {}
        BY <1>2
    <2> QED
        BY <1>2, <2>1 DEF AnsweredWhole, Flood!AnsweredWhole, Flood!TypeOK
<1>3. CASE pc = "asked" /\ wire = <<Whohas(num_chunks)>> /\ learned = {}
    <2>1. \A k \in DOMAIN wire : wire[k] = Whohas(num_chunks)
        BY <1>3, OnePacket
    <2> DEFINE Told(m) == Flood!SignedChar(m.count) = Len(m.hashes)
    <2>2. Flood!Accepted(Whohas(num_chunks)) => Told(Whohas(num_chunks))
        BY <1>1, WhohasIs
    <2> HIDE DEF Told
    <2>3. \A k \in DOMAIN wire : Flood!Accepted(wire[k]) => Told(wire[k])
        BY <2>1, <2>2
    <2> QED
        BY <1>3, <2>3 DEF Told, AnsweredWhole, Flood!AnsweredWhole, Flood!TypeOK
<1>4. CASE pc = "answered" /\ wire = <<>> /\ learned = Answer(num_chunks, owned)
    <2>1. DOMAIN wire = {}
        BY <1>4
    <2>2. (Flood!BUFLEN - Flood!HEAD - Flood!PAD) \div Flood!CHUNK_SIZE = 74
        BY DEF Flood!BUFLEN, Flood!HEAD, Flood!PAD, Flood!CHUNK_SIZE
    <2>3. AnsweredWhole
        BY <1>4, <2>2 DEF AnsweredWhole, Flood!AnsweredWhole, Answer
    <2>4. learned \subseteq 1..num_chunks
        BY <1>1, <1>4 DEF Answer
    <2> QED
        BY <1>4, <2>1, <2>3, <2>4 DEF Flood!TypeOK
<1>5. CASE /\ pc = "answered"
           /\ \E hashes : OnItsWay(hashes, num_chunks, owned, wire, learned)
    <2>1. PICK hashes : OnItsWay(hashes, num_chunks, owned, wire, learned)
        BY <1>5
    <2> DEFINE m == Flood!Message(hashes)
    <2>2. hashes \in Seq(Nat) /\ Len(hashes) <= 3275 /\ Len(hashes) <= 74
        BY <2>1, LenProperties DEF OnItsWay
    <2>3. wire = <<m>> /\ learned = {}
        BY <2>1 DEF OnItsWay
    <2>4. m.hashes = hashes /\ Flood!Accepted(m) /\ Flood!SignedChar(m.count) = Len(hashes)
        BY <2>2, MessageIs
    <2> HIDE DEF m
    <2>5. wire # <<>> /\ \A k \in DOMAIN wire : wire[k] = m
        BY <2>3, OnePacket
    <2> QED
        BY <1>5, <2>3, <2>4, <2>5 DEF AnsweredWhole, Flood!AnsweredWhole, Flood!TypeOK
<1> QED
    BY <1>2, <1>3, <1>4, <1>5 DEF FloodInv, Stage

(* process_whohas and send_ihave together answer with what is owned.       *)
LEMMA WhohasAnswered ==
    ASSUME FloodInv, pc = "asked", wire = <<Whohas(num_chunks)>>, learned = {},
           Flood!Accepted(Head(wire))
    PROVE  Stage(num_chunks, owned, "answered", Flood!Ihaves(Flood!Reported(Head(wire))), {})
<1> DEFINE n == num_chunks
           m == Whohas(n)
           r == Flood!Reported(m)
<1>1. Fit(n) /\ owned \subseteq 1..n
    BY DEF FloodInv
<1>2. Head(wire) = m
    BY OnePacket
<1>3. n <= 74
    <2> HIDE DEF n
    <2> QED
        BY <1>1, <1>2, WhohasIs
<1>4. /\ r \in Seq(Nat) /\ Len(r) <= n
      /\ ToSet(r) = IF 1 \in owned THEN owned \cap 1..n ELSE {}
    <2>1. n \in 1..74
        BY <1>1, <1>3 DEF Fit
    <2> HIDE DEF n
    <2> QED
        BY <2>1, ReportedIs
<1> HIDE DEF m, r
<1>5. ToSet(r) = Answer(n, owned)
    BY <1>1, <1>3, <1>4, owned \cap 1..n = owned DEF Answer
<1>6. Len(r) <= 74
    BY <1>1, <1>3, <1>4, LenProperties DEF Fit
<1>7. Flood!Ihaves(r) = IF r = <<>> THEN <<>> ELSE <<Flood!Message(r)>>
    BY <1>4, <1>6, IhavesAre
<1> HIDE DEF n
<1>8. CASE r = <<>>
    <2>1. ToSet(r) = {}
        BY <1>8 DEF ToSet
    <2>2. Flood!Ihaves(r) = <<>> /\ Answer(n, owned) = {}
        BY <1>5, <1>7, <1>8, <2>1
    <2> QED
        BY <1>2, <2>2 DEF Stage, n, r
<1>9. CASE r # <<>>
    <2>1. OnItsWay(r, n, owned, Flood!Ihaves(r), {})
        BY <1>4, <1>5, <1>6, <1>7, <1>9 DEF OnItsWay
    <2> QED
        BY <1>2, <2>1 DEF Stage, n, r
<1> QED
    BY <1>8, <1>9

(* process_ihave takes the whole answer.                                   *)
LEMMA IhaveTaken ==
    ASSUME NEW hashes, NEW n, NEW own, OnItsWay(hashes, n, own, wire, learned)
    PROVE  /\ Tail(wire) = <<>>
           /\ learned \cup Flood!ToSet(Flood!HashesRead(Head(wire))) = Answer(n, own)
<1> DEFINE m == Flood!Message(hashes)
<1>1. /\ hashes \in Seq(Nat) /\ Len(hashes) <= 3275 /\ Len(hashes) <= 74
      /\ ToSet(hashes) = Answer(n, own)
    BY LenProperties DEF OnItsWay
<1>2. wire = <<m>> /\ learned = {}
    BY DEF OnItsWay
<1>3. Flood!HashesRead(m) = hashes
    BY <1>1, MessageIs
<1> HIDE DEF m
<1>4. Head(wire) = m /\ Tail(wire) = <<>>
    BY <1>2, OnePacket
<1> QED
    BY <1>1, <1>2, <1>3, <1>4 DEF Flood!ToSet, ToSet

(* Every step of a flood keeps it.                                         *)
LEMMA FloodStep == FloodInv /\ [Flood!Next]_(Flood!dvars) => FloodInv'
<1> SUFFICES ASSUME FloodInv, [Flood!Next]_(Flood!dvars)
             PROVE  FloodInv'
    OBVIOUS
<1>1. Fit(num_chunks) /\ owned \subseteq 1..num_chunks
    BY DEF FloodInv
<1>2. Stage(num_chunks, owned, pc, wire, learned)
    BY DEF FloodInv
<1>3. num_chunks' = num_chunks /\ owned' = owned
    BY DEF Flood!Next, Flood!dvars, Flood!SendWhohas, Flood!ProcessWhohas,
           Flood!WhohasThrownOut, Flood!ProcessIhave
<1>4. SUFFICES Stage(num_chunks, owned, pc', wire', learned')
    BY <1>1, <1>3 DEF FloodInv
<1>5. CASE Flood!SendWhohas
    <2>1. pc = "flood" /\ pc' = "asked" /\ wire' = <<Whohas(num_chunks)>> /\ learned' = learned
        BY <1>5 DEF Flood!SendWhohas, Whohas
    <2> QED
        BY <1>2, <2>1 DEF Stage
<1>6. CASE Flood!ProcessWhohas
    <2>1. /\ pc = "asked" /\ Flood!Accepted(Head(wire)) /\ pc' = "answered"
          /\ wire' = Flood!Ihaves(Flood!Reported(Head(wire))) /\ learned' = learned
        BY <1>6 DEF Flood!ProcessWhohas
    <2>2. wire = <<Whohas(num_chunks)>> /\ learned = {}
        BY <1>2, <2>1 DEF Stage
    <2>3. Stage(num_chunks, owned, "answered", Flood!Ihaves(Flood!Reported(Head(wire))), {})
        BY <2>1, <2>2, WhohasAnswered
    <2> QED
        BY <2>1, <2>2, <2>3
<1>7. CASE Flood!WhohasThrownOut
    <2>1. /\ pc = "asked" /\ ~Flood!Accepted(Head(wire)) /\ pc' = "answered"
          /\ wire' = <<>> /\ learned' = learned
        BY <1>7 DEF Flood!WhohasThrownOut
    <2>2. wire = <<Whohas(num_chunks)>> /\ learned = {}
        BY <1>2, <2>1 DEF Stage
    <2>3. Head(wire) = Whohas(num_chunks)
        BY <2>2, OnePacket
    <2>4. ~(num_chunks <= 74)
        BY <1>1, <2>1, <2>3, WhohasIs
    <2> QED
        BY <2>1, <2>2, <2>4 DEF Stage, Answer
<1>8. CASE Flood!ProcessIhave
    <2>1. /\ pc = "answered" /\ wire # <<>> /\ pc' = pc /\ wire' = Tail(wire)
          /\ learned' = learned \cup Flood!ToSet(Flood!HashesRead(Head(wire)))
        BY <1>8 DEF Flood!ProcessIhave
    <2>2. PICK hashes : OnItsWay(hashes, num_chunks, owned, wire, learned)
        BY <1>2, <2>1 DEF Stage
    <2>3. wire' = <<>> /\ learned' = Answer(num_chunks, owned)
        BY <2>1, <2>2, IhaveTaken
    <2> QED
        BY <2>1, <2>3 DEF Stage
<1>9. CASE UNCHANGED Flood!dvars
    BY <1>2, <1>9 DEF Flood!dvars
<1> QED
    BY <1>5, <1>6, <1>7, <1>8, <1>9 DEF Flood!Next

(* A flood starts with it.                                                 *)
LEMMA FloodStart == Flood!Init => FloodInv
<1> SUFFICES ASSUME Flood!Init PROVE FloodInv
    OBVIOUS
<1>1. num_chunks \in FileSizes /\ owned \in SomeOwners(num_chunks)
      /\ pc = "flood" /\ wire = <<>> /\ learned = {}
    BY DEF Flood!Init
<1>2. FileSizes \subseteq 1..3275 /\ \A n \in FileSizes : SomeOwners(n) \subseteq SUBSET (1..n)
    BY PartsAssumption DEF Flood!DiscoveryAssumption
<1>3. Fit(num_chunks) /\ owned \subseteq 1..num_chunks
    BY <1>1, <1>2 DEF Fit
<1> QED
    BY <1>1, <1>3 DEF FloodInv, Stage

(* No packet read claims more hashes than it has, though the count is a    *)
(* signed char and nothing compares it to the length (process_whohas), and *)
(* every answer fits what the other side reads (send_ihave).               *)
THEOREM FloodSound == Flood!Spec => []Flood!TypeOK
<1>1. Flood!Init => FloodInv
    BY FloodStart
<1>2. FloodInv /\ [Flood!Next]_(Flood!dvars) => FloodInv'
    BY FloodStep
<1>3. FloodInv => Flood!TypeOK
    BY FloodMeans
<1> QED
    BY <1>1, <1>2, <1>3, PTL DEF Flood!Spec

(* A flood is never answered in part, and it is answered if it can be read *)
(* and its first hash is owned, for every size of a chunk file whose       *)
(* WHOHAS has a length of 16 bits and whatever is owned (process_whohas,   *)
(* send_ihave, process_ihave).                                             *)
THEOREM FloodAnsweredWhole == Flood!Spec => []AnsweredWhole
<1>1. Flood!Init => FloodInv
    BY FloodStart
<1>2. FloodInv /\ [Flood!Next]_(Flood!dvars) => FloodInv'
    BY FloodStep
<1>3. FloodInv => AnsweredWhole
    BY FloodMeans
<1> QED
    BY <1>1, <1>2, <1>3, PTL DEF Flood!Spec

-----------------------------------------------------------------------------
(* The parts side by side.                                                 *)

(* Every step of the parts is one of each part, or leaves it alone.        *)
LEMMA PartsStep ==
    ASSUME [PartsNext]_<<part, qvars, svars, ivars, fvars, dvars>>
    PROVE  /\ [Queue!Next]_(Queue!qvars) /\ [Uploads!Next]_(Uploads!svars)
           /\ [Input!Next]_(Input!ivars) /\ [Next]_fvars /\ [Flood!Next]_(Flood!dvars)
BY DEF PartsNext, qvars, svars, ivars, dvars,
       Queue!qvars, Uploads!svars, Input!ivars, Flood!dvars

(* What is not running is as it starts, and that keeps what is kept.       *)
LEMMA PartsStart == PartsInit => FloodInv /\ GotInv /\ Counted
<1> SUFFICES ASSUME PartsInit PROVE FloodInv /\ GotInv /\ Counted
    OBVIOUS
<1>1. FloodInv
    <2>1. CASE part = "flood"
        BY <2>1, FloodStart DEF PartsInit
    <2>2. CASE part # "flood"
        <3>1. num_chunks = 1 /\ owned = {} /\ pc = "flood" /\ wire = <<>> /\ learned = {}
            BY <2>2 DEF PartsInit
        <3> QED
            BY <3>1 DEF FloodInv, Fit, Stage
    <2> QED
        BY <2>1, <2>2
<1>2. GotInv /\ Counted
    <2>1. CASE part = "files"
        BY <2>1, FilesStart DEF PartsInit
    <2>2. CASE part # "files"
        <3>1. /\ has_chunk_file = <<>> /\ get_chunk_file = <<>> /\ download = <<>>
              /\ num_downloaded = 0 /\ outfile = <<>> /\ got = FALSE
            BY <2>2 DEF PartsInit
        <3>2. <<>> \in Seq(Entry) /\ <<>> \in Seq(Chunk) /\ Len(<<>>) = 0 /\ DOMAIN <<>> = {}
            BY EmptySeq
        <3> QED
            BY <3>1, <3>2 DEF GotInv, FilesInv, GotIsRight, Counted, NumChunks
    <2> QED
        BY <2>1, <2>2
<1> QED
    BY <1>1, <1>2

(* A behaviour of the parts is one of each part.                           *)
LEMMA PartsAre == PartsSpec => Queue!Spec /\ Uploads!Spec /\ Input!Spec
<1>1. PartsInit => Queue!Init /\ Uploads!Init /\ Input!Init
    BY DEF PartsInit
<1>2. [PartsNext]_<<part, qvars, svars, ivars, fvars, dvars>>
         => /\ [Queue!Next]_(Queue!qvars) /\ [Uploads!Next]_(Uploads!svars)
            /\ [Input!Next]_(Input!ivars)
    BY PartsStep
<1> QED
    BY <1>1, <1>2, PTL DEF PartsSpec, Queue!Spec, Uploads!Spec, Input!Spec

(* What is kept of a part is kept by all of them.                          *)
LEMMA PartsKeep == PartsSpec => [](FloodInv /\ GotInv /\ Counted)
<1>1. FloodInv /\ GotInv /\ Counted /\ [PartsNext]_<<part, qvars, svars, ivars, fvars, dvars>>
         => (FloodInv /\ GotInv /\ Counted)'
    BY PartsStep, FloodStep, StepRight, CountedStep
<1> QED
    BY <1>1, PartsStart, PTL DEF PartsSpec

(* Every part keeps its types, whichever of them runs.                     *)
THEOREM PartsSound == PartsSpec => []PartsTypeOK
<1>1. FloodInv /\ GotInv /\ Counted => TypeOK /\ Flood!TypeOK
    BY FilesMean, FloodMeans
<1>2. Queue!TypeOK /\ Uploads!TypeOK /\ Input!TypeOK /\ TypeOK /\ Flood!TypeOK => PartsTypeOK
    BY DEF PartsTypeOK
<1> QED
    BY <1>1, <1>2, PartsAre, PartsKeep, QueueSound, UploadsSound, InputSound, PTL

(* And every part keeps its promises: this is what the run checks.         *)
THEOREM PartsRight ==
    PartsSpec => /\ [](BytesAccounted /\ PassMissesNone /\ LinesWhole /\ AnsweredWhole)
                 /\ [](OwnedIsServed /\ GotIsRight)
                 /\ ImplementsFifo
<1>1. FloodInv /\ GotInv /\ Counted => AnsweredWhole /\ OwnedIsServed /\ GotIsRight
    BY FloodMeans, HasChunkIsALine DEF GotInv, FilesInv, OwnedIsServed
<1> QED
    BY <1>1, PartsAre, PartsKeep, NoByteTwice, NoUploadMissed, LinesHandledWhole, QueueIsFifo, PTL
=============================================================================
