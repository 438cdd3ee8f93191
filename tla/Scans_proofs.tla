----------------------------- MODULE Scans_proofs -----------------------------
(***************************************************************************)
(* Theorems about Maps and Scans: which nodes the filters and the scans       *)
(* return, for every vector of nodes and every buffer.                       *)
(***************************************************************************)
EXTENDS Scans, SequenceTheorems, Foundations

-----------------------------------------------------------------------------
(* The positions of a set of numbers, in order.                             *)

UpTo(S, i) == {j \in S : j <= i}

\* Among more numbers there are at least as many up to i, and more up to a larger
\* one of them.
LEMMA UpToGrows ==
    ASSUME NEW S \in SUBSET Nat, IsFiniteSet(S)
    PROVE  /\ \A i \in Nat : IsFiniteSet(UpTo(S, i)) /\ Cardinality(UpTo(S, i)) \in Nat
           /\ \A i, j \in S : i < j => Cardinality(UpTo(S, i)) < Cardinality(UpTo(S, j))
           /\ \A i \in S : Cardinality(UpTo(S, i)) \in 1 .. Cardinality(S)
<1>1. \A i \in Nat : UpTo(S, i) \in SUBSET S
  BY DEF UpTo
<1>2. \A T \in SUBSET S : IsFiniteSet(T) /\ Cardinality(T) \in Nat
                          /\ Cardinality(T) <= Cardinality(S)
  BY FS_Subset, FS_CardinalityType
<1>3. ASSUME NEW i \in S, NEW j \in S, i < j
      PROVE  Cardinality(UpTo(S, i)) < Cardinality(UpTo(S, j))
  <2>1. UpTo(S, i) \in SUBSET UpTo(S, j) /\ UpTo(S, i) # UpTo(S, j)
    <3>1. i \in Nat /\ j \in Nat /\ j \in UpTo(S, j) /\ j \notin UpTo(S, i)
      BY <1>3 DEF UpTo
    <3>2. ASSUME NEW x \in UpTo(S, i) PROVE x \in UpTo(S, j)
      <4>1. x \in Nat /\ x <= i /\ x \in S
        BY DEF UpTo
      <4> QED
        BY <1>3, <3>1, <4>1 DEF UpTo
    <3> QED
      BY <3>1, <3>2
  <2>2. /\ IsFiniteSet(UpTo(S, j)) /\ Cardinality(UpTo(S, j)) \in Nat
        /\ Cardinality(UpTo(S, i)) \in Nat
    BY <1>1, <1>2
  <2>3. /\ Cardinality(UpTo(S, i)) <= Cardinality(UpTo(S, j))
        /\ Cardinality(UpTo(S, i)) # Cardinality(UpTo(S, j))
    BY <2>1, <2>2, FS_Subset
  <2> QED
    BY <2>2, <2>3
<1>4. ASSUME NEW i \in S PROVE Cardinality(UpTo(S, i)) \in 1 .. Cardinality(S)
  <2>1. i \in UpTo(S, i)
    BY DEF UpTo
  <2>2. Cardinality(UpTo(S, i)) # 0
    BY <1>1, <1>2, <2>1, FS_EmptySet
  <2>3. Cardinality(UpTo(S, i)) \in Nat /\ Cardinality(UpTo(S, i)) <= Cardinality(S)
        /\ Cardinality(S) \in Nat
    BY <1>1, <1>2
  <2> QED
    BY <2>2, <2>3
<1> QED
  BY <1>1, <1>2, <1>3, <1>4

\* There is a number with k of the set up to it, for every k the set is large
\* enough for.
LEMMA NthExists ==
    ASSUME NEW S \in SUBSET Nat, IsFiniteSet(S), NEW k \in 1 .. Cardinality(S)
    PROVE  \E i \in S : Cardinality(UpTo(S, i)) = k
<1> DEFINE Has(T) == \A m \in 1 .. Cardinality(T) :
                        \E i \in T : Cardinality(UpTo(T, i)) = m
           N == {n \in Nat : \A T \in SUBSET S : Cardinality(T) = n => Has(T)}
<1>1. \A T \in SUBSET S : IsFiniteSet(T) /\ Cardinality(T) \in Nat /\ T \in SUBSET Nat
  BY FS_Subset, FS_CardinalityType
<1>2. 0 \in N
  OBVIOUS
<1>3. ASSUME NEW n \in Nat, n \in N PROVE n + 1 \in N
  <2> SUFFICES ASSUME NEW T \in SUBSET S, Cardinality(T) = n + 1,
                      NEW m \in 1 .. n + 1
               PROVE  \E i \in T : Cardinality(UpTo(T, i)) = m
    OBVIOUS
  <2>1. T # {} /\ IsFiniteSet(T) /\ T \in SUBSET Nat
    BY <1>1, FS_EmptySet
  <2>2. Max(T) \in T /\ \A j \in T : Max(T) >= j
    BY <2>1, MaxOfFinite
  <2>3. CASE m = n + 1
    <3>1. UpTo(T, Max(T)) = T
      BY <2>1, <2>2 DEF UpTo
    <3> QED
      BY <2>2, <2>3, <3>1
  <2>4. CASE m # n + 1
    <3> DEFINE U == T \ {Max(T)}
    <3>1. Cardinality(U) = n /\ U \in SUBSET S
      BY <2>1, <2>2, OneLess
    <3>2. m \in 1 .. Cardinality(U)
      BY <2>4, <3>1
    <3>3. PICK i \in U : Cardinality(UpTo(U, i)) = m
      BY <1>3, <3>1, <3>2
    <3>4. UpTo(U, i) = UpTo(T, i)
      <4>1. i \in T /\ i # Max(T) /\ i \in Nat /\ Max(T) \in Nat /\ Max(T) >= i
        BY <2>1, <2>2
      <4>2. ~(Max(T) <= i)
        BY <4>1
      <4> QED
        BY <4>2 DEF UpTo
    <3> QED
      BY <3>3, <3>4
  <2> QED
    BY <2>3, <2>4
<1>4. Cardinality(S) \in N
  <2> HIDE DEF N
  <2> QED
    BY <1>1, <1>2, <1>3, NatSetInduction
<1> QED
  BY <1>4

LEMMA NthIs ==
    ASSUME NEW S \in SUBSET Nat, IsFiniteSet(S), NEW k \in 1 .. Cardinality(S)
    PROVE  Nth(S, k) \in S /\ Cardinality(UpTo(S, Nth(S, k))) = k
  BY NthExists DEF Nth, UpTo

\* Every number of the set is at its place.
LEMMA NthFinds ==
    ASSUME NEW S \in SUBSET Nat, IsFiniteSet(S), NEW i \in S
    PROVE  Nth(S, Cardinality(UpTo(S, i))) = i
<1> DEFINE k == Cardinality(UpTo(S, i))
           j == Nth(S, k)
<1>1. k \in 1 .. Cardinality(S)
  BY UpToGrows
<1>2. j \in S /\ Cardinality(UpTo(S, j)) = k
  <2> HIDE DEF k
  <2> QED
    BY <1>1, NthIs
<1>3. ~(i < j) /\ ~(j < i)
  <2>1. k \in Nat
    BY <1>1
  <2> HIDE DEF j
  <2> QED
    BY <1>2, <2>1, UpToGrows
<1>4. i \in Nat /\ j \in Nat
  BY <1>2
<1> HIDE DEF j
<1>5. j = i
  BY <1>3, <1>4
<1> QED
  BY <1>5 DEF j

\* The chosen elements, all of them, and nothing else.
LEMMA SelectAtIs ==
    ASSUME NEW T, NEW seq \in Seq(T), NEW P \in SUBSET DOMAIN seq
    PROVE  /\ SelectAt(seq, P) \in Seq({seq[i] : i \in P})
           /\ \A i \in P : \E k \in DOMAIN SelectAt(seq, P) : SelectAt(seq, P)[k] = seq[i]
<1>1. P \in SUBSET Nat /\ IsFiniteSet(P) /\ Cardinality(P) \in Nat
  <2>1. DOMAIN seq = 1 .. Len(seq) /\ Len(seq) \in Nat
    OBVIOUS
  <2>2. IsFiniteSet(1 .. Len(seq))
    BY <2>1, FS_Interval
  <2> QED
    BY <2>1, <2>2, FS_Subset, FS_CardinalityType
<1>2. \A k \in 1 .. Cardinality(P) : Nth(P, k) \in P
  BY <1>1, NthIs
<1>3. SelectAt(seq, P) \in Seq({seq[i] : i \in P})
  BY <1>1, <1>2 DEF SelectAt
<1>4. ASSUME NEW i \in P
      PROVE  \E k \in DOMAIN SelectAt(seq, P) : SelectAt(seq, P)[k] = seq[i]
  <2> DEFINE k == Cardinality(UpTo(P, i))
  <2>1. k \in 1 .. Cardinality(P) /\ Nth(P, k) = i
    BY <1>1, UpToGrows, NthFinds
  <2> HIDE DEF k
  <2>2. k \in DOMAIN SelectAt(seq, P) /\ SelectAt(seq, P)[k] = seq[i]
    BY <2>1 DEF SelectAt
  <2> QED
    BY <2>2
<1> QED
  BY <1>3, <1>4

-----------------------------------------------------------------------------
(* The sequences of several nodes, one after the other.                     *)

\* Every element of x is an element of y.
Within(x, y) == \A k \in DOMAIN x : \E m \in DOMAIN y : y[m] = x[k]

\* A sequence of what is in both, one after the other.
LEMMA Joined ==
    ASSUME NEW T, NEW x \in Seq(T), NEW y \in Seq(T)
    PROVE  x \o y \in Seq(T) /\ Within(x, x \o y) /\ Within(y, x \o y)
<1>1. /\ x \o y \in Seq(T) /\ Len(x \o y) = Len(x) + Len(y)
      /\ \A m \in 1 .. Len(x) + Len(y) :
            (x \o y)[m] = IF m <= Len(x) THEN x[m] ELSE y[m - Len(x)]
  BY ConcatProperties
<1>2. /\ Len(x) \in Nat /\ Len(y) \in Nat
      /\ DOMAIN x = 1 .. Len(x) /\ DOMAIN y = 1 .. Len(y)
      /\ DOMAIN (x \o y) = 1 .. Len(x) + Len(y)
  BY <1>1
<1>3. ASSUME NEW k \in DOMAIN x PROVE k \in DOMAIN (x \o y) /\ (x \o y)[k] = x[k]
  <2>1. k \in 1 .. Len(x) + Len(y) /\ k <= Len(x)
    BY <1>2
  <2> QED
    BY <1>1, <1>2, <2>1
<1>4. ASSUME NEW k \in DOMAIN y
      PROVE  k + Len(x) \in DOMAIN (x \o y) /\ (x \o y)[k + Len(x)] = y[k]
  <2>1. /\ k + Len(x) \in 1 .. Len(x) + Len(y) /\ ~(k + Len(x) <= Len(x))
        /\ (k + Len(x)) - Len(x) = k
    BY <1>2
  <2> QED
    BY <1>1, <1>2, <2>1
<1> QED
  BY <1>1, <1>3, <1>4 DEF Within

\* FlattenSeq joins them one by one.
JoinedOneByOne(c, seqs) ==
    /\ c[1] = seqs[1]
    /\ \A k \in 2 .. Len(seqs) : c[k] = c[k - 1] \o seqs[k]

LEMMA FlattenSteps ==
    ASSUME NEW T, NEW seqs \in Seq(Seq(T)), Len(seqs) # 0
    PROVE  \E c : JoinedOneByOne(c, seqs) /\ FlattenSeq(seqs) = c[Len(seqs)]
<1> DEFINE n == Len(seqs)
           S == Seq(T)
           next(x, k) == x \o seqs[k]
           step == [k \in 1 .. n |-> [x \in S |-> next(x, k)]]
           Defines(g) == g = [k \in 1 .. n |-> IF k = 1 THEN seqs[k]
                                               ELSE next(g[k - 1], k)]
<1>1. n \in Nat /\ DOMAIN seqs = 1 .. n /\ \A k \in 1 .. n : seqs[k] \in S
  OBVIOUS
<1>2. \A k \in 1 .. n : \A x \in S : next(x, k) \in S
  BY <1>1, Joined
<1>3. step \in Steps(n, S)
  <2> HIDE DEF next, n, S
  <2> QED
    BY <1>2 DEF Steps
<1>4. \A k \in 1 .. n : \A x \in S : step[k][x] = next(x, k)
  <2> HIDE DEF next, n, S
  <2> QED
    OBVIOUS
<1>5. PICK g \in [0 .. n -> S] : g[0] = <<>> /\ \A k \in 1 .. n : g[k] = step[k][g[k - 1]]
  <2> DEFINE empty == <<>>
  <2>1. empty \in S
    OBVIOUS
  <2> HIDE DEF n, step, S, empty
  <2>2. n \in Nat /\ empty \in S /\ step \in Steps(n, S)
    BY <1>1, <1>3, <2>1
  <2>3. \E g : Follows(g, n, S, empty, step)
    BY <2>2, PrefixFollows
  <2> QED
    BY <2>3 DEF empty, Follows
<1>6. \A k \in 1 .. n : g[k - 1] \in S /\ g[k] = next(g[k - 1], k)
  <2> HIDE DEF n, step, S, next
  <2>1. \A k \in 1 .. n : k - 1 \in 0 .. n
    BY <1>1
  <2>2. \A k \in 1 .. n : g[k - 1] \in S
    BY <1>5, <2>1
  <2> QED
    BY <1>4, <1>5, <2>2
<1>7. Defines([k \in 1 .. n |-> g[k]])
  <2>1. ASSUME NEW k \in 1 .. n
        PROVE  g[k] = IF k = 1 THEN seqs[k] ELSE next([j \in 1 .. n |-> g[j]][k - 1], k)
    <3>1. CASE k = 1
      <4>1. g[k] = next(g[k - 1], k) /\ k - 1 = 0 /\ seqs[k] \in Seq(T)
        <5> HIDE DEF n, next
        <5> QED
          BY <1>1, <1>6, <3>1
      <4>2. g[k] = <<>> \o seqs[k]
        BY <1>5, <4>1
      <4> QED
        BY <3>1, <4>1, <4>2, ConcatEmptySeq
    <3>2. CASE k # 1
      <4>1. k - 1 \in 1 .. n
        BY <1>1, <3>2
      <4> HIDE DEF n, next
      <4> QED
        BY <1>6, <3>2, <4>1
    <3> QED
      BY <3>1, <3>2
  <2> HIDE DEF n, next
  <2> QED
    BY <2>1
<1>8. FlattenSeq(seqs) = (CHOOSE c : Defines(c))[n]
  BY DEF FlattenSeq
<1> DEFINE c == CHOOSE h : Defines(h)
<1>9. Defines(c)
  <2> HIDE DEF Defines
  <2> QED
    BY <1>7
<1>10. \A k \in 1 .. n : c[k] = IF k = 1 THEN seqs[k] ELSE next(c[k - 1], k)
  <2> HIDE DEF n, next, c
  <2> QED
    BY <1>9
<1>11. n # 0
  OBVIOUS
<1>12. /\ FlattenSeq(seqs) = c[n]
       /\ \A k \in 1 .. n : c[k] = IF k = 1 THEN seqs[k] ELSE c[k - 1] \o seqs[k]
  BY <1>8, <1>10
<1> HIDE DEF c, n
<1>13. 1 \in 1 .. n /\ \A k \in 2 .. n : k \in 1 .. n /\ k # 1
  BY <1>1, <1>11
<1>14. c[1] = seqs[1]
  BY <1>12, <1>13
<1>15. \A k \in 2 .. n : c[k] = c[k - 1] \o seqs[k]
  BY <1>12, <1>13
<1>16. JoinedOneByOne(c, seqs)
  BY <1>14, <1>15 DEF JoinedOneByOne, n
<1> QED
  BY <1>12, <1>16 DEF n

\* FlattenSeq has the elements of all of them, and nothing else.
LEMMA Flattened ==
    ASSUME NEW T, NEW seqs \in Seq(Seq(T))
    PROVE  /\ FlattenSeq(seqs) \in Seq(T)
           /\ \A i \in DOMAIN seqs : Within(seqs[i], FlattenSeq(seqs))
<1> DEFINE n == Len(seqs)
           S == Seq(T)
<1>1. n \in Nat /\ DOMAIN seqs = 1 .. n /\ \A k \in 1 .. n : seqs[k] \in S
  OBVIOUS
<1>2. CASE n = 0
  BY <1>1, <1>2 DEF FlattenSeq
<1> SUFFICES ASSUME n # 0
             PROVE  /\ FlattenSeq(seqs) \in Seq(T)
                    /\ \A i \in DOMAIN seqs : Within(seqs[i], FlattenSeq(seqs))
  BY <1>2
<1>3. PICK c : JoinedOneByOne(c, seqs) /\ FlattenSeq(seqs) = c[n]
  BY FlattenSteps
<1> DEFINE All(k) == /\ c[k] \in S
                     /\ \A i \in 1 .. k : Within(seqs[i], c[k])
           P == {k \in Nat : (k + 1 =< n) => All(k + 1)}
<1>4. 0 \in P
  <2> SUFFICES ASSUME 0 + 1 =< n PROVE All(0 + 1)
    OBVIOUS
  <2> HIDE DEF n, S
  <2>1. 0 + 1 = 1 /\ 1 \in 1 .. n /\ c[1] = seqs[1]
    BY <1>1, <1>3 DEF JoinedOneByOne
  <2>2. Within(seqs[1], seqs[1])
    BY DEF Within
  <2>3. \A i \in 1 .. 1 : i = 1
    OBVIOUS
  <2> QED
    BY <1>1, <2>1, <2>2, <2>3
<1>5. ASSUME NEW k \in Nat, k \in P PROVE k + 1 \in P
  <2> SUFFICES ASSUME (k + 1) + 1 =< n PROVE All((k + 1) + 1)
    OBVIOUS
  <2>1. /\ (k + 1) + 1 \in 1 .. n /\ (k + 1) + 1 \in 2 .. n /\ ((k + 1) + 1) - 1 = k + 1
        /\ k + 1 =< n /\ k + 1 \in 1 .. n /\ k + 1 < (k + 1) + 1
        /\ \A i \in 1 .. (k + 1) + 1 : i \in 1 .. k + 1 \/ i = (k + 1) + 1
        /\ \A i \in (k + 1) + 2 .. n : i \in (k + 1) + 1 .. n /\ (k + 1) + 1 < i
    BY <1>1
  <2>2. All(k + 1)
    <3> HIDE DEF n, All
    <3> QED
      BY <1>5, <2>1
  <2>3. PICK x \in S : x = c[k + 1]
    BY <2>2
  <2>4. PICK y \in S : y = seqs[(k + 1) + 1]
    BY <1>1, <2>1
  <2>5. c[(k + 1) + 1] = x \o y
    <3> HIDE DEF n
    <3>1. \A j \in 2 .. n : c[j] = c[j - 1] \o seqs[j]
      BY <1>3 DEF JoinedOneByOne, n
    <3> QED
      BY <2>1, <2>3, <2>4, <3>1
  <2> HIDE DEF n
  <2>6. x \o y \in S /\ Within(x, x \o y) /\ Within(y, x \o y)
    BY Joined, Zenon
  <2> HIDE DEF S
  <2>7. ASSUME NEW i \in 1 .. (k + 1) + 1 PROVE Within(seqs[i], x \o y)
    <3>1. CASE i = (k + 1) + 1
      BY <2>4, <2>6, <3>1
    <3>2. CASE i \in 1 .. k + 1
      <4>1. Within(seqs[i], x)
        BY <2>2, <2>3, <3>2
      <4> QED
        BY <2>6, <4>1 DEF Within
    <3> QED
      BY <2>1, <3>1, <3>2
  <2> QED
    BY <2>5, <2>6, <2>7
<1>6. All(n)
  <2>1. n - 1 \in P
    <3>1. n - 1 \in Nat
      BY <1>1
    <3> HIDE DEF P, n
    <3> QED
      BY <1>4, <1>5, <3>1, NatSetInduction
  <2>2. (n - 1) + 1 = n
    BY <1>1
  <2> HIDE DEF All, n
  <2> QED
    BY <1>1, <2>1, <2>2
<1> QED
  BY <1>1, <1>3, <1>6

LEMMA FlattenedElements ==
    ASSUME NEW T, NEW seqs \in Seq(Seq(T))
    PROVE  \A j \in DOMAIN FlattenSeq(seqs) : \E i \in DOMAIN seqs : \E k \in DOMAIN seqs[i] :
              FlattenSeq(seqs)[j] = seqs[i][k]
<1> DEFINE A == UNION {ToSet(seqs[i]) : i \in DOMAIN seqs}
           S == Seq(A)
<1>1. ASSUME NEW i \in DOMAIN seqs PROVE seqs[i] \in S
  <2>1. ASSUME NEW U, NEW seq \in Seq(U) PROVE seq \in Seq(ToSet(seq))
    BY DEF ToSet
  <2>2. seqs[i] \in Seq(T)
    OBVIOUS
  <2>3. ToSet(seqs[i]) \subseteq A
    BY Zenon
  <2>4. seqs[i] \in Seq(ToSet(seqs[i]))
    BY <2>1, <2>2, Zenon
  <2> HIDE DEF A
  <2> QED
    BY <2>3, <2>4, SeqMonotonic
<1>2. seqs \in Seq(S)
  <2> HIDE DEF S
  <2> QED
    BY <1>1
<1>3. FlattenSeq(seqs) \in Seq(A)
  <2> HIDE DEF A
  <2> QED
    BY <1>2, Flattened DEF S
<1>4. ASSUME NEW j \in DOMAIN FlattenSeq(seqs) PROVE FlattenSeq(seqs)[j] \in A
  <2>1. ASSUME NEW U, NEW seq \in Seq(U), NEW k \in DOMAIN seq PROVE seq[k] \in U
    OBVIOUS
  <2> HIDE DEF A
  <2> QED
    BY <1>3, <2>1, Zenon
<1>5. ASSUME NEW x \in A PROVE \E i \in DOMAIN seqs : \E k \in DOMAIN seqs[i] : x = seqs[i][k]
  <2>1. PICK i \in DOMAIN seqs : x \in ToSet(seqs[i])
    OBVIOUS
  <2> QED
    BY <2>1 DEF ToSet
<1> QED
  BY <1>4, <1>5

\* Elements at places one after the other are related, also those of two sequences.
Ordered(s, R) == \A p, q \in DOMAIN s : p < q => <<s[p], s[q]>> \in R

Related(x, y, R) == \A p \in DOMAIN x, q \in DOMAIN y : <<x[p], y[q]>> \in R

LEMMA JoinedOrder ==
    ASSUME NEW T, NEW R, NEW x \in Seq(T), NEW y \in Seq(T),
           Ordered(x, R), Ordered(y, R), Related(x, y, R)
    PROVE  /\ Ordered(x \o y, R)
           /\ \A z : Related(x, z, R) /\ Related(y, z, R) => Related(x \o y, z, R)
<1>1. PICK m \in Nat, n \in Nat : /\ m = Len(x) /\ n = Len(y)
                                  /\ DOMAIN x = 1 .. m /\ DOMAIN y = 1 .. n
  OBVIOUS
<1>2. PICK s : s = x \o y
  OBVIOUS
<1>3. /\ DOMAIN s = 1 .. m + n
      /\ \A p \in 1 .. m + n : s[p] = IF p <= m THEN x[p] ELSE y[p - m]
  <2>1. /\ s \in Seq(T) /\ Len(s) = m + n
        /\ \A p \in 1 .. m + n : s[p] = IF p <= m THEN x[p] ELSE y[p - m]
    BY <1>1, <1>2, ConcatProperties
  <2> QED
    BY <2>1
<1>4. \A p \in DOMAIN s : \/ p <= m /\ p \in DOMAIN x /\ s[p] = x[p]
                          \/ m < p /\ p - m \in DOMAIN y /\ s[p] = y[p - m]
  BY <1>1, <1>3
<1>5. ASSUME NEW p \in DOMAIN s, NEW q \in DOMAIN s, p < q PROVE <<s[p], s[q]>> \in R
  <2>1. p \in Int /\ q \in Int
    BY <1>3
  <2>2. CASE q <= m
    <3>1. /\ p \in DOMAIN x /\ s[p] = x[p] /\ q \in DOMAIN x /\ s[q] = x[q]
      BY <1>4, <1>5, <2>1, <2>2
    <3> QED
      BY <1>5, <3>1 DEF Ordered
  <2>3. CASE p <= m /\ m < q
    <3>1. /\ p \in DOMAIN x /\ s[p] = x[p] /\ q - m \in DOMAIN y /\ s[q] = y[q - m]
      BY <1>4, <2>1, <2>3
    <3> QED
      BY <3>1 DEF Related
  <2>4. CASE m < p
    <3>1. /\ p - m \in DOMAIN y /\ s[p] = y[p - m] /\ q - m \in DOMAIN y
          /\ s[q] = y[q - m] /\ p - m < q - m
      BY <1>4, <1>5, <2>1, <2>4
    <3> QED
      BY <3>1 DEF Ordered
  <2> QED
    BY <2>1, <2>2, <2>3, <2>4
<1>6. ASSUME NEW z, Related(x, z, R), Related(y, z, R) PROVE Related(s, z, R)
  BY <1>4, <1>6 DEF Related
<1> QED
  BY <1>2, <1>5, <1>6 DEF Ordered

\* FlattenSeq keeps the order.
LEMMA FlattenedOrder ==
    ASSUME NEW T, NEW R, NEW seqs \in Seq(Seq(T)),
           \A i \in DOMAIN seqs : Ordered(seqs[i], R),
           \A i, j \in DOMAIN seqs : i < j => Related(seqs[i], seqs[j], R)
    PROVE  Ordered(FlattenSeq(seqs), R)
<1> DEFINE n == Len(seqs)
           S == Seq(T)
<1>1. n \in Nat /\ DOMAIN seqs = 1 .. n /\ \A k \in 1 .. n : seqs[k] \in S
  OBVIOUS
<1>2. CASE n = 0
  BY <1>1, <1>2 DEF FlattenSeq, Ordered
<1> SUFFICES ASSUME n # 0
             PROVE  Ordered(FlattenSeq(seqs), R)
  BY <1>2
<1>3. PICK c : JoinedOneByOne(c, seqs) /\ FlattenSeq(seqs) = c[n]
  BY FlattenSteps
<1> DEFINE All(k) == /\ c[k] \in S /\ Ordered(c[k], R)
                     /\ \A i \in k + 1 .. n : Related(c[k], seqs[i], R)
           P == {k \in Nat : (k + 1 =< n) => All(k + 1)}
<1>4. 0 \in P
  <2> SUFFICES ASSUME 0 + 1 =< n PROVE All(0 + 1)
    OBVIOUS
  <2> HIDE DEF n, S
  <2>1. 0 + 1 = 1 /\ 1 \in 1 .. n /\ c[1] = seqs[1]
    BY <1>1, <1>3 DEF JoinedOneByOne
  <2>2. \A i \in 1 + 1 .. n : i \in 1 .. n /\ 1 < i
    OBVIOUS
  <2> QED
    BY <1>1, <2>1, <2>2
<1>5. ASSUME NEW k \in Nat, k \in P PROVE k + 1 \in P
  <2> SUFFICES ASSUME (k + 1) + 1 =< n PROVE All((k + 1) + 1)
    OBVIOUS
  <2>1. /\ (k + 1) + 1 \in 1 .. n /\ (k + 1) + 1 \in 2 .. n /\ ((k + 1) + 1) - 1 = k + 1
        /\ k + 1 =< n /\ k + 1 \in 1 .. n /\ k + 1 < (k + 1) + 1
        /\ \A i \in 1 .. (k + 1) + 1 : i \in 1 .. k + 1 \/ i = (k + 1) + 1
        /\ \A i \in (k + 1) + 2 .. n : i \in (k + 1) + 1 .. n /\ (k + 1) + 1 < i
    BY <1>1
  <2>2. All(k + 1)
    <3> HIDE DEF n, All
    <3> QED
      BY <1>5, <2>1
  <2>3. PICK x \in S : x = c[k + 1]
    BY <2>2
  <2>4. PICK y \in S : y = seqs[(k + 1) + 1]
    BY <1>1, <2>1
  <2>5. c[(k + 1) + 1] = x \o y
    <3> HIDE DEF n
    <3>1. \A j \in 2 .. n : c[j] = c[j - 1] \o seqs[j]
      BY <1>3 DEF JoinedOneByOne, n
    <3> QED
      BY <2>1, <2>3, <2>4, <3>1
  <2>6. x \o y \in S
    BY ConcatProperties
  <2>7. Ordered(x, R) /\ Ordered(y, R) /\ Related(x, y, R)
    <3>1. Ordered(x, R)
      BY <2>2, <2>3
    <3>2. Ordered(y, R)
      BY <1>1, <2>1, <2>4
    <3>3. (k + 1) + 1 \in (k + 1) + 1 .. n
      BY <2>1
    <3>4. Related(x, seqs[(k + 1) + 1], R)
      <4> HIDE DEF n
      <4> QED
        BY <2>2, <2>3, <3>3
    <3> QED
      BY <2>4, <3>1, <3>2, <3>4
  <2>8. /\ Ordered(x \o y, R)
        /\ \A z : Related(x, z, R) /\ Related(y, z, R) => Related(x \o y, z, R)
    BY <2>7, JoinedOrder
  <2>9. \A i \in ((k + 1) + 1) + 1 .. n : Related(x \o y, seqs[i], R)
    <3>1. TAKE i \in ((k + 1) + 1) + 1 .. n
    <3>2. i \in (k + 1) + 2 .. n /\ i \in 1 .. n
      BY <1>1
    <3>3. Related(x, seqs[i], R) /\ Related(y, seqs[i], R)
      <4> HIDE DEF n, S
      <4> QED
        BY <1>1, <2>1, <2>2, <2>3, <2>4, <3>2
    <3> QED
      BY <2>8, <3>3
  <2> HIDE DEF n, S
  <2> QED
    BY <2>5, <2>6, <2>8, <2>9
<1>6. All(n)
  <2>1. n - 1 \in P
    <3>1. n - 1 \in Nat
      BY <1>1
    <3> HIDE DEF P, n
    <3> QED
      BY <1>4, <1>5, <3>1, NatSetInduction
  <2>2. (n - 1) + 1 = n
    BY <1>1
  <2> HIDE DEF All, n
  <2> QED
    BY <1>1, <2>1, <2>2
<1> QED
  BY <1>1, <1>3, <1>6

-----------------------------------------------------------------------------
(* Nodes: what the operations on vectors of nodes return.                    *)

MapsOf(names, flags) ==
    [parentAddress : Int, parentSize : Int, relativeAddress : Int,
     relativeSize : Int, regionName : names, perms : flags]

NodesOf(maps, snaps) == [map : maps, snap : snaps]

LEMMA PartOfMap ==
    ASSUME NEW names, NEW flags, NEW m \in MapsOf(names, flags),
           NEW offset \in Int, NEW size \in Int
    PROVE  /\ PartOf(m, offset, size) \in MapsOf(names, flags)
           /\ tbegin(m) \in Int /\ tend(m) \in Int /\ rend(m) \in Int
<1>1. /\ m.parentAddress \in Int /\ m.parentSize \in Int /\ m.relativeAddress \in Int
      /\ m.relativeSize \in Int /\ m.regionName \in names /\ m.perms \in flags
  BY DEF MapsOf
<1>2. PICK address \in Int : address = m.relativeAddress + offset
  BY <1>1
<1>3. PartOf(m, offset, size) \in MapsOf(names, flags)
  <2>1. PartOf(m, offset, size) =
          [[m EXCEPT !.relativeAddress = address] EXCEPT !.relativeSize = size]
    BY <1>2 DEF PartOf
  <2> QED
    BY <2>1 DEF MapsOf
<1>4. tbegin(m) \in Int /\ tend(m) \in Int /\ rend(m) \in Int
  BY <1>1 DEF tbegin, tend, rend
<1> QED
  BY <1>3, <1>4

\* A node with another map, or without its snapshot.
LEMMA NodeWith ==
    ASSUME NEW maps, NEW snaps, NEW n \in NodesOf(maps, snaps), NEW m \in maps
    PROVE  /\ [n EXCEPT !.map = m] \in NodesOf(maps, {n.snap})
           /\ Bare(n) \in NodesOf(maps, {NoSnap}) /\ Bare(n).map = n.map
           /\ Bare(n).snap = NoSnap
  BY DEF NodesOf, Bare

\* Any choice among the elements of a sequence.
LEMMA Chosen ==
    ASSUME NEW T, NEW seq \in Seq(T), NEW P \in SUBSET DOMAIN seq
    PROVE  SelectAt(seq, P) \in Seq(T)
<1>1. SelectAt(seq, P) \in Seq({seq[i] : i \in P})
  BY SelectAtIs
<1>2. {seq[i] : i \in P} \subseteq T
  OBVIOUS
<1> QED
  BY <1>1, <1>2

\* The filters keep some of the nodes they are given.
LEMMA FiltersChoose ==
    ASSUME NEW T, NEW nodes \in Seq(T)
    PROVE  /\ \A size : minSize(nodes, size) \in Seq(T) /\ maxSize(nodes, size) \in Seq(T)
           /\ \A name : exactName(nodes, name) \in Seq(T) /\ subName(nodes, name) \in Seq(T)
           /\ \A letters : /\ exactPerms(nodes, letters) \in Seq(T)
                           /\ hasPerms(nodes, letters) \in Seq(T)
                           /\ notPerms(nodes, letters) \in Seq(T)
<1>1. \A P \in SUBSET DOMAIN nodes : SelectAt(nodes, P) \in Seq(T)
  BY Chosen
<1>2. ASSUME NEW size
      PROVE  minSize(nodes, size) \in Seq(T) /\ maxSize(nodes, size) \in Seq(T)
  BY <1>1, Zenon DEF minSize, maxSize, Those
<1>3. ASSUME NEW name
      PROVE  exactName(nodes, name) \in Seq(T) /\ subName(nodes, name) \in Seq(T)
  BY <1>1, Zenon DEF exactName, subName, Those
<1>4. ASSUME NEW letters
      PROVE  /\ exactPerms(nodes, letters) \in Seq(T)
             /\ hasPerms(nodes, letters) \in Seq(T)
             /\ notPerms(nodes, letters) \in Seq(T)
  BY <1>1, Zenon DEF exactPerms, hasPerms, notPerms, Those
<1> QED
  BY <1>2, <1>3, <1>4

LEMMA HitsAtNodes ==
    ASSUME NEW names, NEW flags, NEW snaps,
           NEW n \in NodesOf(MapsOf(names, flags), snaps), NEW offsets \in Seq(Int)
    PROVE  HitsAt(n, offsets) \in Seq(NodesOf(MapsOf(names, flags), {n.snap}))
<1> DEFINE M == MapsOf(names, flags)
<1>1. NumSize \in Int
  BY NumberAssumption DEF NumberAssumption
<1>2. n.map \in M
  BY DEF NodesOf
<1>3. \A i \in DOMAIN offsets : PartOf(n.map, offsets[i], NumSize) \in M
  BY <1>1, <1>2, PartOfMap
<1>4. \A i \in DOMAIN offsets :
         [n EXCEPT !.map = PartOf(@, offsets[i], NumSize)] \in NodesOf(M, {n.snap})
  <2>1. n \in NodesOf(M, snaps)
    OBVIOUS
  <2> HIDE DEF M
  <2> QED
    BY <1>3, <2>1, NodeWith
<1>5. DOMAIN offsets = 1 .. Len(offsets) /\ Len(offsets) \in Nat
  OBVIOUS
<1> QED
  <2> DEFINE N == NodesOf(M, {n.snap})
  <2>1. \A i \in 1 .. Len(offsets) :
           [n EXCEPT !.map = PartOf(@, offsets[i], NumSize)] \in N
    BY <1>4, <1>5
  <2> HIDE DEF N, M
  <2>2. [i \in 1 .. Len(offsets) |->
           [n EXCEPT !.map = PartOf(@, offsets[i], NumSize)]] \in Seq(N)
    BY <1>5, <2>1, IsASeq
  <2>3. HitsAt(n, offsets) \in Seq(N)
    BY <1>5, <2>2 DEF HitsAt
  <2> QED
    BY <2>3 DEF N, M

-----------------------------------------------------------------------------
(* Numbers, byte by byte.                                                   *)

\* The number made of the highest k of the bytes at an offset.
Tops(top, bytes, o) ==
    /\ top[0] = 0
    /\ \A k \in 1 .. NumSize : top[k] = top[k - 1] * Base + bytes[o + NumSize - k + 1]

LEMMA ValueTops ==
    ASSUME NEW bytes, NEW o \in Int, \A k \in 1 .. NumSize : bytes[o + k] \in 0 .. Base - 1
    PROVE  \E top : /\ Tops(top, bytes, o) /\ Value(bytes, o) = top[NumSize]
                    /\ \A k \in 0 .. NumSize : top[k] \in Nat
<1> DEFINE m == NumSize
           b == Base
           S == Nat
           byte(k) == bytes[o + m - k + 1]
           next(x, k) == x * b + byte(k)
           step == [k \in 1 .. m |-> [x \in S |-> next(x, k)]]
           Defines(h) == h = [k \in 0 .. m |-> IF k = 0 THEN 0 ELSE next(h[k - 1], k)]
           c == CHOOSE h : Defines(h)
<1>1. m \in Nat \ {0} /\ b \in Nat \ {0}
  BY NumberAssumption DEF NumberAssumption
<1>2. \A k \in 1 .. m : byte(k) \in Nat
  <2>1. \A k \in 1 .. m : o + m - k + 1 = o + (m - k + 1) /\ m - k + 1 \in 1 .. m
    BY <1>1
  <2>2. \A j \in 1 .. m : bytes[o + j] \in Nat
    BY <1>1
  <2> QED
    BY <2>1, <2>2
<1>3. Value(bytes, o) = c[m]
  BY DEF Value
<1> HIDE DEF m, b, byte
<1>4. \A k \in 1 .. m : \A x \in S : next(x, k) \in S
  BY <1>1, <1>2
<1> HIDE DEF next
<1>5. step \in Steps(m, S) /\ \A k \in 1 .. m : \A x \in S : step[k][x] = next(x, k)
  <2> HIDE DEF S
  <2> QED
    BY <1>4 DEF Steps
<1> HIDE DEF step
<1>6. PICK g \in [0 .. m -> S] : g[0] = 0 /\ \A k \in 1 .. m : g[k] = step[k][g[k - 1]]
  <2>1. m \in Nat /\ 0 \in S
    BY <1>1
  <2> HIDE DEF S
  <2> QED
    BY <1>5, <2>1, PrefixRecursion
<1>7. \A k \in 1 .. m : g[k - 1] \in S /\ g[k] = next(g[k - 1], k)
  <2>1. \A k \in 1 .. m : k - 1 \in 0 .. m
    BY <1>1
  <2> QED
    BY <1>5, <1>6, <2>1
<1>8. Defines(g)
  <2>1. \A k \in 0 .. m : g[k] = IF k = 0 THEN 0 ELSE next(g[k - 1], k)
    BY <1>1, <1>6, <1>7
  <2> QED
    BY <1>6, <2>1
<1>9. Defines(c)
  <2> HIDE DEF Defines
  <2> QED
    BY <1>8
<1> HIDE DEF c
<1>10. c[0] = 0 /\ \A k \in 1 .. m : c[k] = next(c[k - 1], k)
  BY <1>1, <1>9
<1>11. \A k \in 0 .. m : c[k] \in S
  <2>1. c[0] \in S /\ \A k \in 1 .. m : c[k - 1] \in S => c[k] \in S
    BY <1>4, <1>10
  <2> HIDE DEF S
  <2> QED
    BY <1>1, <2>1, PrefixInvariantAll
<1>12. Tops(c, bytes, o)
  BY <1>10 DEF Tops, next, byte, m, b
<1> QED
  BY <1>3, <1>11, <1>12 DEF m, S

\* A number loses its bytes one by one.
LEMMA RestSteps ==
    ASSUME NEW number \in Nat
    PROVE  /\ Rest(number, 0) = number
           /\ \A k \in Nat : /\ Rest(number, k) \in Nat
                             /\ Rest(number, k + 1) = Rest(number, k) \div Base
<1> DEFINE b == Base
           S == Nat
           next(x) == x \div b
           Defines(h, m) == h = [j \in 0 .. m |-> IF j = 0 THEN number ELSE next(h[j - 1])]
           c(m) == CHOOSE h : Defines(h, m)
<1>1. b \in Nat \ {0}
  BY NumberAssumption DEF NumberAssumption
<1>2. ASSUME NEW m \in Nat PROVE Rest(number, m) = c(m)[m]
  BY DEF Rest
<1> HIDE DEF b
<1>3. \A x \in S : next(x) \in S
  BY <1>1
<1> HIDE DEF next
<1>4. ASSUME NEW m \in Nat
      PROVE  /\ c(m)[0] = number /\ \A j \in 1 .. m : c(m)[j] = next(c(m)[j - 1])
             /\ \A j \in 0 .. m : c(m)[j] \in Nat
  <2> DEFINE step == [k \in 1 .. m |-> [x \in S |-> next(x)]]
  <2>1. step \in Steps(m, S) /\ \A k \in 1 .. m : \A x \in S : step[k][x] = next(x)
    <3> HIDE DEF S
    <3> QED
      BY <1>3 DEF Steps
  <2> HIDE DEF step
  <2>2. PICK g \in [0 .. m -> S] :
          g[0] = number /\ \A k \in 1 .. m : g[k] = step[k][g[k - 1]]
    <3>1. m \in Nat /\ number \in S
      OBVIOUS
    <3> HIDE DEF S
    <3> QED
      BY <2>1, <3>1, PrefixRecursion
  <2>3. \A k \in 1 .. m : g[k - 1] \in S /\ g[k] = next(g[k - 1])
    <3>1. \A k \in 1 .. m : k - 1 \in 0 .. m
      OBVIOUS
    <3> QED
      BY <2>1, <2>2, <3>1
  <2>4. Defines(g, m)
    <3>1. \A k \in 0 .. m : g[k] = IF k = 0 THEN number ELSE next(g[k - 1])
      BY <2>2, <2>3
    <3> QED
      BY <2>2, <3>1
  <2>5. PICK h : h = c(m)
    OBVIOUS
  <2>6. Defines(h, m)
    <3>1. Defines(c(m), m)
      <4> HIDE DEF Defines
      <4> QED
        BY <2>4
    <3> HIDE DEF Defines, c
    <3> QED
      BY <2>5, <3>1
  <2>7. h[0] = number /\ \A j \in 1 .. m : h[j] = next(h[j - 1])
    BY <2>6
  <2>8. \A j \in 0 .. m : h[j] \in S
    <3>1. h[0] \in S /\ \A k \in 1 .. m : h[k - 1] \in S => h[k] \in S
      BY <1>3, <2>7
    <3> HIDE DEF S
    <3> QED
      BY <3>1, PrefixInvariantAll
  <2> HIDE DEF c
  <2> QED
    BY <2>5, <2>7, <2>8 DEF S
<1> HIDE DEF c
<1>5. ASSUME NEW k \in Nat PROVE c(k + 1)[k] = c(k)[k]
  <2> DEFINE T == {j \in Nat : j <= k => c(k + 1)[j] = c(k)[j]}
  <2>1. /\ c(k)[0] = number /\ \A j \in 1 .. k : c(k)[j] = next(c(k)[j - 1])
        /\ c(k + 1)[0] = number /\ \A j \in 1 .. k : c(k + 1)[j] = next(c(k + 1)[j - 1])
    BY <1>4
  <2>2. 0 \in T
    BY <2>1
  <2>3. ASSUME NEW j \in Nat, j \in T PROVE j + 1 \in T
    <3> SUFFICES ASSUME j + 1 <= k PROVE c(k + 1)[j + 1] = c(k)[j + 1]
      OBVIOUS
    <3>1. j + 1 \in 1 .. k /\ (j + 1) - 1 = j /\ c(k + 1)[j] = c(k)[j]
      BY <2>3
    <3> QED
      BY <2>1, <3>1
  <2>4. k \in T
    <3> HIDE DEF T
    <3> QED
      BY <2>2, <2>3, NatSetInduction
  <2> QED
    BY <2>4
<1>6. ASSUME NEW k \in Nat
      PROVE  Rest(number, k) \in Nat /\ Rest(number, k + 1) = next(Rest(number, k))
  <2>1. c(k + 1)[k + 1] = next(c(k + 1)[k])
    <3>1. k + 1 \in Nat /\ k + 1 \in 1 .. k + 1 /\ (k + 1) - 1 = k
      OBVIOUS
    <3> QED
      BY <1>4, <3>1
  <2>2. c(k)[k] \in Nat
    BY <1>4
  <2> QED
    BY <1>2, <1>5, <2>1, <2>2
<1>7. Rest(number, 0) = number
  BY <1>2, <1>4
<1> QED
  BY <1>6, <1>7 DEF next, b

\* The bytes at an offset make a number of NumSize bytes when they are its bytes.
LEMMA BytesOfValue ==
    ASSUME NEW bytes, NEW o \in Int, \A k \in 1 .. NumSize : bytes[o + k] \in 0 .. Base - 1,
           NEW number \in Nat, Rest(number, NumSize) = 0
    PROVE  Value(bytes, o) = number
             <=> \A k \in 0 .. NumSize - 1 : bytes[o + k + 1] = ByteOf(number, k)
<1>1. PICK m \in Nat \ {0}, b \in Nat \ {0} : m = NumSize /\ b = Base
  BY NumberAssumption DEF NumberAssumption
<1>2. PICK top : /\ Tops(top, bytes, o) /\ Value(bytes, o) = top[m]
                 /\ \A k \in 0 .. m : top[k] \in Nat
  BY <1>1, ValueTops
<1>3. PICK rest : rest = [k \in Nat |-> Rest(number, k)]
  OBVIOUS
<1>4. /\ rest[0] = number /\ rest[m] = 0
      /\ \A k \in Nat : rest[k] \in Nat /\ rest[k + 1] = rest[k] \div b
      /\ \A k \in Nat : ByteOf(number, k) = rest[k] % b
  <2>1. \A k \in Nat : rest[k] = Rest(number, k) /\ k + 1 \in Nat
    BY <1>3
  <2>2. rest[0] = number /\ rest[m] = 0
    BY <1>1, <2>1, RestSteps
  <2>3. ASSUME NEW k \in Nat
        PROVE  /\ rest[k] \in Nat /\ rest[k + 1] = rest[k] \div b
               /\ ByteOf(number, k) = rest[k] % b
    <3>1. Rest(number, k) \in Nat /\ Rest(number, k + 1) = Rest(number, k) \div Base
      BY RestSteps
    <3>2. ByteOf(number, k) = Rest(number, k) % Base
      BY DEF ByteOf
    <3> QED
      BY <1>1, <2>1, <3>1, <3>2
  <2> QED
    BY <2>2, <2>3
\* The k-th byte comes on top of the higher ones.
<1>5. ASSUME NEW k \in 0 .. m - 1
      PROVE  /\ bytes[o + k + 1] \in 0 .. b - 1
             /\ top[m - k - 1] \in Nat
             /\ top[m - k] = top[m - k - 1] * b + bytes[o + k + 1]
  <2>1. k + 1 \in 1 .. m /\ o + (k + 1) = o + k + 1
    OBVIOUS
  <2>2. bytes[o + k + 1] \in 0 .. b - 1
    BY <1>1, <2>1
  <2>3. m - k \in 1 .. m /\ (m - k) - 1 = m - k - 1 /\ m - k - 1 \in 0 .. m
        /\ o + m - (m - k) + 1 = o + k + 1
    OBVIOUS
  <2>4. \A j \in 1 .. m : top[j] = top[j - 1] * b + bytes[o + m - j + 1]
    BY <1>1, <1>2 DEF Tops
  <2>5. top[m - k] = top[(m - k) - 1] * b + bytes[o + m - (m - k) + 1]
    BY <2>3, <2>4
  <2> QED
    BY <1>2, <2>2, <2>3, <2>5
<1>6. ASSUME Value(bytes, o) = number, NEW k \in 0 .. m - 1
      PROVE  bytes[o + k + 1] = ByteOf(number, k)
  <2> DEFINE T == {j \in Nat : j <= m => top[m - j] = rest[j]}
  <2>1. 0 \in T
    <3>1. m - 0 = m
      OBVIOUS
    <3> QED
      BY <1>2, <1>4, <1>6, <3>1
  <2>2. ASSUME NEW j \in 0 .. m - 1, top[m - j] = rest[j]
        PROVE  top[m - j - 1] = rest[j + 1] /\ bytes[o + j + 1] = rest[j] % b
    <3>1. PICK n : n = rest[j]
      OBVIOUS
    <3>2. PICK q \in Nat : q = top[m - j - 1]
      BY <1>5
    <3>3. PICK x \in 0 .. b - 1 : x = bytes[o + j + 1]
      BY <1>5
    <3>4. n = q * b + x
      BY <1>5, <2>2, <3>1, <3>2, <3>3
    <3>5. n \div b = q /\ n % b = x
      <4>1. b \in Nat /\ b # 0
        OBVIOUS
      <4> QED
        BY <3>4, <4>1, DivisionIs
    <3>6. rest[j + 1] = rest[j] \div b
      BY <1>4
    <3> QED
      BY <3>1, <3>2, <3>3, <3>5, <3>6
  <2>3. ASSUME NEW j \in Nat, j \in T PROVE j + 1 \in T
    <3> SUFFICES ASSUME j + 1 <= m PROVE top[m - (j + 1)] = rest[j + 1]
      OBVIOUS
    <3>1. j \in 0 .. m - 1 /\ m - (j + 1) = m - j - 1 /\ top[m - j] = rest[j]
      BY <2>3
    <3> QED
      BY <2>2, <3>1
  <2>4. k \in T
    <3>1. k \in Nat
      OBVIOUS
    <3> HIDE DEF T
    <3> QED
      BY <2>1, <2>3, <3>1, NatSetInduction
  <2>5. top[m - k] = rest[k] /\ k \in Nat
    BY <2>4
  <2> QED
    BY <1>4, <2>2, <2>5
<1>7. ASSUME \A k \in 0 .. m - 1 : bytes[o + k + 1] = ByteOf(number, k)
      PROVE  Value(bytes, o) = number
  <2> DEFINE T == {j \in Nat : j <= m => top[j] = rest[m - j]}
  <2>1. 0 \in T
    BY <1>2, <1>4 DEF Tops
  <2>2. ASSUME NEW j \in Nat, j \in T PROVE j + 1 \in T
    <3> SUFFICES ASSUME j + 1 <= m PROVE top[j + 1] = rest[m - (j + 1)]
      OBVIOUS
    <3>1. PICK k \in 0 .. m - 1 : k = m - (j + 1)
      OBVIOUS
    <3>2. k \in Nat /\ m - k = j + 1 /\ m - k - 1 = j /\ m - j = k + 1
      BY <3>1
    <3>3. PICK r \in Nat : r = rest[k]
      BY <1>4, <3>2
    <3>4. top[j] = r \div b
      BY <1>4, <2>2, <3>2, <3>3
    <3>5. bytes[o + k + 1] = r % b
      BY <1>4, <1>7, <3>2, <3>3
    <3>6. top[j + 1] = (r \div b) * b + (r % b)
      BY <1>5, <3>2, <3>4, <3>5
    <3>7. (r \div b) * b + (r % b) = r
      OBVIOUS
    <3> QED
      BY <3>1, <3>3, <3>6, <3>7
  <2>3. m \in T
    <3> HIDE DEF T
    <3> QED
      BY <2>1, <2>2, NatSetInduction
  <2>4. m - m = 0
    OBVIOUS
  <2> QED
    BY <1>2, <1>4, <2>3, <2>4
<1> QED
  BY <1>1, <1>6, <1>7

\* Where a number lies inside a buffer, and does not end it.
Inside(length) == {o \in Int : o + NumSize < length}

\* A scan by number looks at whole numbers inside the buffer, the last of them
\* left out.
LEMMA SlotsInside ==
    ASSUME NEW first \in Int, NEW length \in Nat
    PROVE  Slots(first, length) \in Seq(Inside(length))
<1> DEFINE all == [k \in 1 .. length |-> first + (k - 1) * NumAlign]
           P == {i \in DOMAIN all : all[i] + NumSize < length}
<1>1. NumAlign \in Int /\ NumSize \in Int
  BY NumberAssumption DEF NumberAssumption
<1>2. \A k \in 1 .. length : first + (k - 1) * NumAlign \in Int
  BY <1>1
<1>3. all \in Seq(Int)
  BY <1>2, IsASeq
<1>4. Slots(first, length) = SelectAt(all, P)
  BY DEF Slots, Those
<1>5. P \in SUBSET DOMAIN all
  OBVIOUS
<1>6. {all[i] : i \in P} \subseteq Inside(length)
  <2>1. \A i \in P : all[i] \in Int /\ all[i] + NumSize < length
    BY <1>3
  <2> HIDE DEF all, P
  <2> QED
    BY <2>1 DEF Inside
<1>7. SelectAt(all, P) \in Seq({all[i] : i \in P})
  <2> HIDE DEF all, P
  <2> QED
    BY <1>3, <1>5, SelectAtIs
<1> HIDE DEF all, P
<1> QED
  BY <1>4, <1>6, <1>7

\* A node is lengthened in place.
Lengthen(nodes, i, size) == [nodes EXCEPT ![i].map.relativeSize = @ + size]

LEMMA Lengthened ==
    ASSUME NEW names, NEW flags, NEW snaps,
           NEW nodes \in Seq(NodesOf(MapsOf(names, flags), snaps)),
           NEW i \in DOMAIN nodes, NEW size \in Int, NEW longer,
           longer = Lengthen(nodes, i, size)
    PROVE  /\ longer \in Seq(NodesOf(MapsOf(names, flags), snaps))
           /\ DOMAIN longer = DOMAIN nodes
           /\ \A k \in DOMAIN nodes : k # i => longer[k] = nodes[k]
           /\ longer[i].map = [nodes[i].map EXCEPT !.relativeSize =
                                  nodes[i].map.relativeSize + size]
<1> DEFINE M == MapsOf(names, flags)
<1>1. nodes[i].map \in M /\ nodes[i] \in NodesOf(M, snaps) /\ nodes[i].snap \in snaps
  <2>1. nodes[i] \in NodesOf(M, snaps)
    <3>1. ASSUME NEW N, NEW seq \in Seq(N), NEW k \in DOMAIN seq PROVE seq[k] \in N
      OBVIOUS
    <3>2. nodes \in Seq(NodesOf(M, snaps))
      OBVIOUS
    <3> HIDE DEF M
    <3> QED
      BY <3>1, <3>2, Zenon
  <2> HIDE DEF M
  <2> QED
    BY <2>1 DEF NodesOf
<1>2. PICK sum \in Int : sum = nodes[i].map.relativeSize + size
  BY <1>1 DEF MapsOf
<1>3. [nodes[i].map EXCEPT !.relativeSize = sum] \in M
  BY <1>1 DEF MapsOf
<1>4. [nodes[i] EXCEPT !.map = [nodes[i].map EXCEPT !.relativeSize = sum]]
        \in NodesOf(M, snaps)
  <2> HIDE DEF M
  <2> QED
    BY <1>1, <1>3 DEF NodesOf
<1>5. [nodes EXCEPT ![i].map.relativeSize = @ + size]
        = [nodes EXCEPT ![i] =
             [nodes[i] EXCEPT !.map = [nodes[i].map EXCEPT !.relativeSize = sum]]]
  <2> HIDE DEF M
  <2> QED
    BY <1>2
<1>6. ASSUME NEW N, NEW seq \in Seq(N), NEW k \in DOMAIN seq, NEW e \in N, NEW other,
             other = [seq EXCEPT ![k] = e]
      PROVE  /\ other \in Seq(N) /\ DOMAIN other = DOMAIN seq /\ other[k] = e
             /\ \A j \in DOMAIN seq : j # k => other[j] = seq[j]
  BY <1>6
<1>7. nodes \in Seq(NodesOf(M, snaps))
  OBVIOUS
<1>8. PICK new : /\ new = [nodes[i] EXCEPT !.map =
                              [nodes[i].map EXCEPT !.relativeSize = sum]]
                 /\ new \in NodesOf(M, snaps)
  BY <1>4
<1>9. new.map = [nodes[i].map EXCEPT !.relativeSize = sum]
  <2> HIDE DEF M
  <2> QED
    BY <1>1, <1>8 DEF NodesOf
<1>10. longer = [nodes EXCEPT ![i] = new]
  BY <1>5, <1>8 DEF Lengthen
<1> HIDE DEF M
<1>11. /\ longer \in Seq(NodesOf(M, snaps)) /\ DOMAIN longer = DOMAIN nodes
       /\ longer[i] = new /\ \A k \in DOMAIN nodes : k # i => longer[k] = nodes[k]
  <2>1. new \in NodesOf(M, snaps)
    BY <1>8
  <2> QED
    BY <1>6, <1>7, <1>10, <2>1
<1> QED
  BY <1>2, <1>9, <1>11 DEF M

-----------------------------------------------------------------------------
(* Scans by number and for a string.                                        *)

LEMMA NumberScans ==
    ASSUME NEW names, NEW flags, NEW snaps,
           NEW n \in NodesOf(MapsOf(names, flags), snaps), Len(span(n)) \in Nat
    PROVE  /\ NumSlots(n) \in Seq(Inside(Len(span(n))))
           /\ \A other, d :
                 /\ findNumChanged(n, other, d) \in Seq(NodesOf(MapsOf(names, flags), {NoSnap}))
                 /\ findNumUnchanged(n, other, d) \in Seq(NodesOf(MapsOf(names, flags), {NoSnap}))
           /\ \A low, high :
                 findNumWithinRange(n, low, high) \in Seq(NodesOf(MapsOf(names, flags), {NoSnap}))
           /\ \A number :
                 findNumExact(n, number) \in Seq(NodesOf(MapsOf(names, flags), {n.snap}))
<1> DEFINE M == MapsOf(names, flags)
           N == NodesOf(M, {NoSnap})
<1>1. n.map \in M
  BY DEF NodesOf
<1>2. tbegin(n.map) \in Int /\ tend(n.map) \in Int
  <2>1. 0 \in Int
    OBVIOUS
  <2> QED
    BY <1>1, <2>1, PartOfMap
<1>3. FirstAligned(n.map) \in Int /\ FirstAlignedExact(n.map) \in Int
  <2>1. NumAlign \in Nat \ {0}
    BY NumberAssumption DEF NumberAssumption
  <2>2. PICK t \in Int : t = tbegin(n.map)
    BY <1>2
  <2>3. PICK below \in Int : below = (t \div NumAlign) * NumAlign
    BY <2>1
  <2>4. /\ FirstAligned(n.map) = IF below < t THEN NumAlign + below - t ELSE 0
        /\ FirstAlignedExact(n.map) =
             IF below < tend(n.map) THEN NumAlign + below - t ELSE 0
    BY <2>2, <2>3 DEF FirstAligned, FirstAlignedExact
  <2> QED
    BY <2>1, <2>4
<1>4. NumSlots(n) \in Seq(Inside(Len(span(n))))
  BY <1>3, SlotsInside DEF NumSlots
<1>5. NumSlots(n) \in Seq(Int)
        /\ Slots(FirstAlignedExact(n.map), Len(span(n))) \in Seq(Int)
  <2> DEFINE T == Inside(Len(span(n)))
  <2>1. /\ NumSlots(n) \in Seq(T)
        /\ Slots(FirstAlignedExact(n.map), Len(span(n))) \in Seq(T)
    BY <1>3, <1>4, SlotsInside
  <2>2. T \subseteq Int
    BY DEF Inside
  <2>3. ASSUME NEW A, NEW B, A \subseteq B PROVE Seq(A) \subseteq Seq(B)
    BY <2>3
  <2> HIDE DEF T
  <2> QED
    BY <2>1, <2>2, <2>3, Zenon
<1>6. ASSUME NEW seq \in Seq(Int), NEW P \in SUBSET DOMAIN seq
      PROVE  /\ HitsAt(Bare(n), SelectAt(seq, P)) \in Seq(N)
             /\ HitsAt(n, SelectAt(seq, P)) \in Seq(NodesOf(M, {n.snap}))
  <2>1. SelectAt(seq, P) \in Seq(Int)
    BY Chosen
  <2>2. Bare(n) \in NodesOf(M, {NoSnap}) /\ Bare(n).snap = NoSnap
    <3>1. n \in NodesOf(M, snaps)
      OBVIOUS
    <3> HIDE DEF M
    <3> QED
      BY <1>1, <3>1, NodeWith
  <2> QED
    BY <2>1, <2>2, HitsAtNodes
<1>7. ASSUME NEW other, NEW d
      PROVE  findNumChanged(n, other, d) \in Seq(N) /\ findNumUnchanged(n, other, d) \in Seq(N)
  BY <1>5, <1>6, Zenon DEF findNumChanged, findNumUnchanged, Those
<1>8. ASSUME NEW low, NEW high PROVE findNumWithinRange(n, low, high) \in Seq(N)
  BY <1>5, <1>6, Zenon DEF findNumWithinRange, Those
<1>9. ASSUME NEW number PROVE findNumExact(n, number) \in Seq(NodesOf(M, {n.snap}))
  BY <1>5, <1>6, Zenon DEF findNumExact, Those
<1> QED
  BY <1>4, <1>7, <1>8, <1>9

LEMMA StringScan ==
    ASSUME NEW names, NEW flags, NEW snaps, NEW T,
           NEW n \in NodesOf(MapsOf(names, flags), snaps), Len(span(n)) \in Nat,
           DOMAIN span(n) = 1 .. Len(span(n)),
           NEW str \in Seq(T), NEW beyond
    PROVE  findString(n, str, beyond) \in Seq(NodesOf(MapsOf(names, flags), {n.snap}))
<1> DEFINE M == MapsOf(names, flags)
           N == NodesOf(M, {n.snap})
           all == [k \in DOMAIN span(n) |-> k - 1]
           text == span(n) \o beyond
           P == {i \in DOMAIN all : SubSeq(text, all[i] + 1, all[i] + Len(str)) = str}
           found == SelectAt(all, P)
<1>1. all \in Seq(Int)
  BY IsASeq
<1>2. found \in Seq(Int)
  <2>1. P \in SUBSET DOMAIN all
    OBVIOUS
  <2> HIDE DEF P, all
  <2> QED
    BY <1>1, <2>1, Chosen
<1>3. Len(str) \in Int
  OBVIOUS
<1>4. n.map \in M /\ n.snap \in {n.snap}
  BY DEF NodesOf
<1>5. ASSUME NEW o \in Int PROVE StringHit(n, o, Len(str)) \in N
  <2>1. PICK size \in Int : size = Len(str)
    BY <1>3
  <2>2. PICK m \in M : m = [n.map EXCEPT !.relativeAddress = o, !.relativeSize = size]
    BY <1>4 DEF MapsOf
  <2>3. n \in NodesOf(M, snaps)
    OBVIOUS
  <2>4. StringHit(n, o, Len(str)) = [n EXCEPT !.map = m]
    <3> HIDE DEF M
    <3> QED
      BY <2>1, <2>2, <2>3 DEF StringHit, NodesOf
  <2> HIDE DEF M
  <2> QED
    BY <2>3, <2>4, NodeWith
<1>6. findString(n, str, beyond) = [i \in DOMAIN found |-> StringHit(n, found[i], Len(str))]
  BY DEF findString, Those
<1> HIDE DEF found, N
<1>7. Len(found) \in Nat /\ DOMAIN found = 1 .. Len(found)
  BY <1>2
<1>8. \A i \in 1 .. Len(found) : StringHit(n, found[i], Len(str)) \in N
  BY <1>2, <1>5, <1>7
<1>9. [i \in 1 .. Len(found) |-> StringHit(n, found[i], Len(str))] \in Seq(N)
  BY <1>7, <1>8, IsASeq
<1> QED
  BY <1>6, <1>7, <1>9 DEF N

-----------------------------------------------------------------------------
(* What the exact scans say of the bytes.                                   *)

\* Every aligned offset from the first on is looked at, but those at the end.
LEMMA SlotsAre ==
    ASSUME NEW first \in Nat, NEW length \in Nat, NEW slots, slots = Slots(first, length)
    PROVE  /\ slots \in Seq({o \in Inside(length) : first <= o})
           /\ \A q \in Nat : first + q * NumAlign \in Inside(length)
                               => \E i \in DOMAIN slots : slots[i] = first + q * NumAlign
<1> DEFINE all == [k \in 1 .. length |-> first + (k - 1) * NumAlign]
           P == {i \in DOMAIN all : all[i] + NumSize < length}
<1>1. NumAlign \in Nat \ {0} /\ NumSize \in Nat \ {0}
  BY NumberAssumption DEF NumberAssumption
<1>2. \A k \in 1 .. length : first + (k - 1) * NumAlign \in Int
                               /\ first <= first + (k - 1) * NumAlign
  <2>1. ASSUME NEW k \in 1 .. length PROVE (k - 1) * NumAlign \in Nat
    <3>1. k - 1 \in Nat
      OBVIOUS
    <3> QED
      BY <1>1, <3>1
  <2> QED
    BY <2>1
<1>3. all \in Seq(Int)
  BY <1>2, IsASeq
<1>4. slots = SelectAt(all, P)
  BY DEF Slots, Those
<1>5. P \in SUBSET DOMAIN all
  OBVIOUS
<1>6. {all[i] : i \in P} \subseteq {o \in Inside(length) : first <= o}
  <2>1. \A i \in P : all[i] \in Int /\ first <= all[i] /\ all[i] + NumSize < length
    BY <1>2
  <2> HIDE DEF all, P
  <2> QED
    BY <2>1 DEF Inside
<1>7. /\ SelectAt(all, P) \in Seq({all[i] : i \in P})
      /\ \A i \in P : \E k \in DOMAIN SelectAt(all, P) : SelectAt(all, P)[k] = all[i]
  <2> HIDE DEF all, P
  <2> QED
    BY <1>3, <1>5, SelectAtIs
<1>8. ASSUME NEW q \in Nat, first + q * NumAlign \in Inside(length)
      PROVE  q + 1 \in P /\ all[q + 1] = first + q * NumAlign
  <2>1. q * 1 <= q * NumAlign
    <3>1. q * (NumAlign - 1) \in Nat
      <4>1. NumAlign - 1 \in Nat
        BY <1>1
      <4> QED
        BY <4>1
    <3>2. q * NumAlign = q * (NumAlign - 1) + q
      BY <1>1
    <3> QED
      BY <1>1, <3>1, <3>2
  <2>2. PICK p \in Nat : p = q * NumAlign
    BY <1>1
  <2>3. first + p + NumSize < length
    BY <1>8, <2>2 DEF Inside
  <2>4. q + 1 \in 1 .. length /\ (q + 1) - 1 = q
    BY <1>1, <2>1, <2>2, <2>3
  <2>5. all[q + 1] = first + q * NumAlign
    BY <2>4
  <2> QED
    BY <2>2, <2>3, <2>4, <2>5
<1> HIDE DEF all, P
<1> QED
  BY <1>4, <1>6, <1>7, <1>8

\* Where a node begins at an aligned address or not, the exact scan starts after it.
LEMMA FirstSlot ==
    ASSUME NEW m, tbegin(m) \in Int, tend(m) \in Int, tbegin(m) < tend(m)
    PROVE  /\ FirstAlignedExact(m) \in 1 .. NumAlign
           /\ \A o \in Nat \ {0} : (tbegin(m) + o) % NumAlign = 0
                => \E q \in Nat : o = FirstAlignedExact(m) + q * NumAlign
<1>1. PICK t \in Int, a \in Nat \ {0} : t = tbegin(m) /\ a = NumAlign
  BY NumberAssumption DEF NumberAssumption
<1>2. PICK d \in Int : d = t \div a /\ d * a <= t /\ t < d * a + a
  BY <1>1
<1>3. PICK below \in Int : below = d * a
  OBVIOUS
<1>4. FirstAlignedExact(m) = a + below - t
  BY <1>1, <1>2, <1>3 DEF FirstAlignedExact
<1>5. a + below - t \in 1 .. a
  BY <1>2, <1>3
<1>6. ASSUME NEW o \in Nat \ {0}, (t + o) % a = 0
      PROVE  \E q \in Nat : o = (a + below - t) + q * a
  <2>1. PICK e \in Int : t + o = e * a
    <3>1. t + o \in Int
      OBVIOUS
    <3>2. ASSUME NEW x \in Int, x % a = 0 PROVE x = (x \div a) * a /\ x \div a \in Int
      BY <3>2
    <3> QED
      BY <1>6, <3>1, <3>2
  <2>2. d + 1 <= e
    <3>1. d * a < e * a
      BY <1>2, <2>1
    <3>2. a \in Nat /\ a # 0
      OBVIOUS
    <3>3. ~(e * a <= d * a)
      <4>1. d * a \in Int /\ e * a \in Int
        OBVIOUS
      <4> QED
        BY <3>1, <4>1
    <3>4. ~(e <= d)
      BY <3>2, <3>3, MultipleOrder
    <3> QED
      BY <3>4
  <2>3. PICK q \in Nat : e = d + 1 + q
    <3>1. e - (d + 1) \in Nat /\ e = d + 1 + (e - (d + 1))
      BY <2>2
    <3> QED
      BY <3>1
  <2>4. (d + 1 + q) * a = d * a + a + q * a
    OBVIOUS
  <2>5. q * a \in Int
    OBVIOUS
  <2>6. t + o = below + a + q * a
    BY <1>3, <2>1, <2>3, <2>4
  <2>7. o = (a + below - t) + q * a
    BY <2>5, <2>6
  <2> QED
    BY <2>7
<1> QED
  BY <1>1, <1>4, <1>5, <1>6

\* The hit at an offset of a node.
HitAt(h, n, o) == h.snap = n.snap /\ tbegin(h.map) = tbegin(n.map) + o

\* The bytes of the number are at the offset of the node.
NumberAt(n, o, number) ==
    \A k \in 0 .. NumSize - 1 : span(n)[o + k + 1] = ByteOf(number, k)

\* A hit of the exact scan is at the number's bytes, and where they are at an
\* aligned offset after the first byte, but for the end of the buffer, is a hit.
LEMMA ExactScan ==
    ASSUME NEW names, NEW flags, NEW snaps,
           NEW n \in NodesOf(MapsOf(names, flags), snaps),
           span(n) \in Seq(0 .. Base - 1),
           span(n) # <<>> => tbegin(n.map) < tend(n.map),
           NEW number \in Nat, Rest(number, NumSize) = 0,
           NEW hits, hits = findNumExact(n, number)
    PROVE  /\ \A i \in DOMAIN hits : \E o \in Nat :
                 /\ o + NumSize < Len(span(n))
                 /\ HitAt(hits[i], n, o) /\ NumberAt(n, o, number)
           /\ \A o \in 1 .. Len(span(n)) - NumSize - 1 :
                 (tbegin(n.map) + o) % NumAlign = 0 /\ NumberAt(n, o, number)
                    => \E i \in DOMAIN hits : HitAt(hits[i], n, o)
<1> DEFINE first == FirstAlignedExact(n.map)
           slots == Slots(first, Len(span(n)))
           P == {i \in DOMAIN slots : Value(span(n), slots[i]) = number}
           found == SelectAt(slots, P)
<1>1. PICK length \in Nat : length = Len(span(n)) /\ DOMAIN span(n) = 1 .. length
  OBVIOUS
<1>2. NumSize \in Nat \ {0} /\ NumAlign \in Nat \ {0}
  BY NumberAssumption DEF NumberAssumption
<1>3. n.map \in MapsOf(names, flags) /\ tbegin(n.map) \in Int /\ tend(n.map) \in Int
  <2>1. n.map \in MapsOf(names, flags) /\ 0 \in Int
    BY DEF NodesOf
  <2> QED
    BY <2>1, PartOfMap
<1>4. hits = HitsAt(n, found)
  BY DEF findNumExact, Those
<1>5. CASE length = 0
  <2>1. slots = <<>>
    <3>1. Slots(first, 0) = <<>>
      BY FS_EmptySet DEF Slots, Those, SelectAt
    <3> QED
      BY <1>1, <1>5, <3>1
  <2>2. P = {} /\ found = <<>>
    BY <2>1, FS_EmptySet DEF SelectAt
  <2>3. DOMAIN hits = {}
    BY <1>4, <2>2 DEF HitsAt
  <2> QED
    BY <1>1, <1>2, <1>5, <2>3
<1>6. CASE length # 0
  <2>1. first \in 1 .. NumAlign
        /\ \A o \in Nat \ {0} : (tbegin(n.map) + o) % NumAlign = 0
              => \E q \in Nat : o = first + q * NumAlign
    BY <1>1, <1>3, <1>6, FirstSlot
  <2> HIDE DEF first
  <2>2. PICK f \in Nat : f = first /\ 1 <= f
    BY <1>2, <2>1
  <2> DEFINE A == {o \in Inside(length) : f <= o}
  <2>3. /\ slots \in Seq(A)
        /\ \A q \in Nat : f + q * NumAlign \in Inside(length)
              => \E i \in DOMAIN slots : slots[i] = f + q * NumAlign
    <3>1. slots = Slots(f, length) /\ f \in Nat /\ length \in Nat
      BY <1>1, <2>2
    <3> HIDE DEF slots
    <3> QED
      BY <3>1, SlotsAre
  <2> HIDE DEF slots
  <2>4. /\ \A i \in DOMAIN found : \E j \in P : found[i] = slots[j]
        /\ \A i \in P : \E k \in DOMAIN found : found[k] = slots[i]
    <3>1. P \in SUBSET DOMAIN slots
      OBVIOUS
    <3> HIDE DEF P, A
    <3> DEFINE S == {slots[i] : i \in P}
    <3>2. /\ found \in Seq(S)
          /\ \A i \in P : \E k \in DOMAIN found : found[k] = slots[i]
      BY <2>3, <3>1, SelectAtIs
    <3>3. \A i \in DOMAIN found : found[i] \in S
      <4> HIDE DEF S, found
      <4> QED
        BY <3>2, ElementOfSeq
    <3> HIDE DEF found
    <3> QED
      BY <3>2, <3>3
  <2>5. \A o \in A : o \in Nat /\ o + NumSize < length
    BY <1>2, <2>2 DEF Inside
  <2>6. ASSUME NEW o \in Nat, o + NumSize < length
        PROVE  Value(span(n), o) = number <=> NumberAt(n, o, number)
    <3>1. \A k \in 1 .. NumSize : span(n)[o + k] \in 0 .. Base - 1
      <4>1. \A k \in 1 .. NumSize : o + k \in 1 .. length
        BY <1>2, <2>6
      <4>2. ASSUME NEW T, NEW seq \in Seq(T) PROVE \A j \in 1 .. Len(seq) : seq[j] \in T
        OBVIOUS
      <4>3. \A j \in 1 .. Len(span(n)) : span(n)[j] \in 0 .. Base - 1
        BY <4>2, Zenon
      <4> QED
        BY <1>1, <4>1, <4>3
    <3>2. o \in Int
      OBVIOUS
    <3> QED
      BY <3>1, <3>2, BytesOfValue DEF NumberAt
  <2>7. ASSUME NEW i \in DOMAIN found
        PROVE  i \in DOMAIN hits /\ HitAt(hits[i], n, found[i])
    <3>1. found[i] \in Int
      <4>1. \A j \in P : slots[j] \in A
        BY <2>3
      <4> HIDE DEF P, A, found
      <4> QED
        BY <2>4, <2>5, <4>1
    <3>2. PICK o \in Int : o = found[i]
      BY <3>1
    <3>3. i \in DOMAIN hits /\ hits[i] = [n EXCEPT !.map = PartOf(n.map, o, NumSize)]
      <4> HIDE DEF found
      <4>1. DOMAIN hits = DOMAIN found
            /\ hits[i] = [n EXCEPT !.map = PartOf(@, found[i], NumSize)]
        BY <1>4 DEF HitsAt
      <4> QED
        BY <3>2, <4>1
    <3>4. PICK m : m = PartOf(n.map, o, NumSize)
      OBVIOUS
    <3>5. tbegin(m) = tbegin(n.map) + o
      <4>1. /\ m.parentAddress = n.map.parentAddress
            /\ m.relativeAddress = n.map.relativeAddress + o
            /\ n.map.parentAddress \in Int /\ n.map.relativeAddress \in Int
        BY <1>3, <3>4 DEF PartOf, MapsOf
      <4> QED
        BY <4>1 DEF tbegin
    <3>6. hits[i].map = m /\ hits[i].snap = n.snap
      BY <3>3, <3>4 DEF NodesOf
    <3> QED
      BY <3>2, <3>3, <3>5, <3>6 DEF HitAt
  <2>8. DOMAIN hits = DOMAIN found
    BY <1>4 DEF HitsAt
  <2>9. ASSUME NEW i \in DOMAIN hits
        PROVE  \E o \in Nat : /\ o + NumSize < length
                              /\ HitAt(hits[i], n, o) /\ NumberAt(n, o, number)
    <3>1. PICK j \in P : found[i] = slots[j]
      <4> HIDE DEF P, found
      <4> QED
        BY <2>4, <2>8
    <3>2. slots[j] \in A /\ Value(span(n), slots[j]) = number
      BY <2>3
    <3>3. PICK o \in Nat : o = slots[j] /\ o + NumSize < length
      BY <2>5, <3>2
    <3> QED
      BY <2>6, <2>7, <2>8, <3>1, <3>2, <3>3
  <2>10. ASSUME NEW o \in 1 .. length - NumSize - 1, (tbegin(n.map) + o) % NumAlign = 0,
                NumberAt(n, o, number)
         PROVE  \E i \in DOMAIN hits : HitAt(hits[i], n, o)
    <3>1. o \in Nat \ {0} /\ o \in Int /\ o + NumSize < length
      BY <1>2
    <3>2. PICK q \in Nat : o = f + q * NumAlign
      BY <2>1, <2>2, <2>10, <3>1
    <3>3. PICK j \in DOMAIN slots : slots[j] = o
      <4>1. f + q * NumAlign \in Inside(length)
        BY <3>1, <3>2 DEF Inside
      <4> QED
        BY <2>3, <3>2, <4>1
    <3>4. j \in P
      BY <2>6, <2>10, <3>1, <3>3
    <3>5. PICK i \in DOMAIN found : found[i] = o
      BY <2>4, <3>3, <3>4
    <3> QED
      BY <2>7, <3>5
  <2> QED
    BY <1>1, <2>9, <2>10
<1> QED
  BY <1>5, <1>6

\* The string is at the offset of the node.
StringAt(n, o, str) == \A k \in DOMAIN str : span(n)[o + k] = str[k]

\* The string is at the offset of a text, and each of its bytes is in its place.
TextIs(text, o, str) == SubSeq(text, o + 1, o + Len(str)) = str

HasString(bytes, o, str) == \A k \in DOMAIN str : bytes[o + k] = str[k]

\* Inside the buffer the bytes beyond it do not matter.
LEMMA TextInside ==
    ASSUME NEW T, NEW bytes \in Seq(T), NEW beyond \in Seq(T), NEW str \in Seq(T),
           NEW o \in Nat, o + Len(str) <= Len(bytes)
    PROVE  TextIs(bytes \o beyond, o, str) <=> HasString(bytes, o, str)
<1>1. PICK text \in Seq(T) : text = bytes \o beyond
  BY ConcatProperties
<1>2. PICK length \in Nat, size \in Nat :
        /\ length = Len(bytes) /\ size = Len(str) /\ DOMAIN str = 1 .. size
        /\ o + size <= length /\ length <= Len(text)
  BY <1>1
<1>3. \A k \in 1 .. size : text[o + k] = bytes[o + k]
  <2>1. \A k \in 1 .. size : o + k \in 1 .. length
    BY <1>2
  <2> QED
    BY <1>1, <1>2, <2>1
<1>4. PICK part \in Seq(T) :
        /\ part = SubSeq(text, o + 1, o + size) /\ Len(part) = size
        /\ \A k \in 1 .. size : part[k] = text[o + k]
  <2>1. o + 1 \in 1 .. Len(text) + 1 /\ o + size \in o .. Len(text)
    BY <1>2
  <2>2. /\ SubSeq(text, o + 1, o + size) \in Seq(T)
        /\ Len(SubSeq(text, o + 1, o + size)) = size
        /\ \A k \in 1 .. size : SubSeq(text, o + 1, o + size)[k] = text[o + k]
    <3>1. SubSeq(text, o + 1, o + size) = [k \in 1 .. size |-> text[o + k]]
      BY <2>1
    <3>2. \A k \in 1 .. size : text[o + k] \in T
      BY <1>2
    <3>3. size \in Nat
      OBVIOUS
    <3>4. PICK f : f = [k \in 1 .. size |-> text[o + k]]
      OBVIOUS
    <3>5. f \in Seq(T)
      BY <3>2, <3>4, IsASeq
    <3>6. Len(f) = size /\ \A k \in 1 .. size : f[k] = text[o + k]
      BY <3>3, <3>4
    <3> QED
      BY <3>1, <3>4, <3>5, <3>6
  <2> QED
    BY <2>2
<1>5. part = str <=> \A k \in 1 .. size : part[k] = str[k]
  <2>1. ASSUME \A k \in 1 .. size : part[k] = str[k] PROVE part = str
    <3>1. Len(part) = Len(str) /\ \A k \in 1 .. Len(part) : part[k] = str[k]
      BY <1>2, <1>4, <2>1
    <3> QED
      BY <3>1, SeqEqual
  <2> QED
    BY <2>1
<1>6. (\A k \in 1 .. size : part[k] = str[k]) <=> (\A k \in 1 .. size : bytes[o + k] = str[k])
  BY <1>3, <1>4
<1> QED
  BY <1>1, <1>2, <1>4, <1>5, <1>6 DEF TextIs, HasString

\* In a node that begins its region a hit inside the buffer is at the string, and
\* where the string is, is a hit.
LEMMA StringHits ==
    ASSUME NEW names, NEW flags, NEW snaps, NEW T,
           NEW n \in NodesOf(MapsOf(names, flags), snaps), n.map.relativeAddress = 0,
           span(n) \in Seq(T), NEW str \in Seq(T), str # <<>>, NEW beyond \in Seq(T),
           NEW hits, hits = findString(n, str, beyond)
    PROVE  /\ \A i \in DOMAIN hits : \E o \in Nat :
                 /\ o < Len(span(n)) /\ HitAt(hits[i], n, o)
                 /\ tend(hits[i].map) = tbegin(n.map) + o + Len(str)
                 /\ o + Len(str) <= Len(span(n)) => StringAt(n, o, str)
           /\ \A o \in 0 .. Len(span(n)) - Len(str) :
                 StringAt(n, o, str) => \E i \in DOMAIN hits : HitAt(hits[i], n, o)
<1> DEFINE all == [k \in DOMAIN span(n) |-> k - 1]
           text == span(n) \o beyond
           P == {i \in DOMAIN all : SubSeq(text, all[i] + 1, all[i] + Len(str)) = str}
           found == SelectAt(all, P)
<1>1. PICK length \in Nat, size \in Nat \ {0} :
        /\ length = Len(span(n)) /\ DOMAIN span(n) = 1 .. length /\ size = Len(str)
  BY EmptySeq
<1>2. hits = [i \in DOMAIN found |-> StringHit(n, found[i], size)]
  BY <1>1 DEF findString, Those
<1>3. all \in Seq(Nat) /\ DOMAIN all = 1 .. length /\ \A j \in 1 .. length : all[j] = j - 1
  <2>1. \A k \in 1 .. length : k - 1 \in Nat
    OBVIOUS
  <2> QED
    BY <1>1, <2>1, IsASeq
<1>4. \A i \in DOMAIN all : i \in P <=> SubSeq(text, all[i] + 1, all[i] + size) = str
  BY <1>1
<1> HIDE DEF all
<1>5. /\ \A i \in DOMAIN found : \E j \in P : found[i] = all[j]
      /\ \A i \in P : \E k \in DOMAIN found : found[k] = all[i]
  <2>1. P \in SUBSET DOMAIN all
    OBVIOUS
  <2> HIDE DEF P
  <2> DEFINE S == {all[i] : i \in P}
  <2>2. /\ found \in Seq(S)
        /\ \A i \in P : \E k \in DOMAIN found : found[k] = all[i]
    BY <1>3, <2>1, SelectAtIs
  <2>3. \A i \in DOMAIN found : found[i] \in S
    <3> HIDE DEF S, found
    <3> QED
      BY <2>2, ElementOfSeq
  <2> HIDE DEF found
  <2> QED
    BY <2>2, <2>3
<1>6. P \subseteq DOMAIN all
  OBVIOUS
<1> HIDE DEF P
<1>7. ASSUME NEW o \in Nat, o + size <= length
      PROVE  SubSeq(text, o + 1, o + size) = str <=> StringAt(n, o, str)
  <2>1. PICK bytes \in Seq(T) : bytes = span(n)
    OBVIOUS
  <2>2. o + Len(str) <= Len(bytes)
    BY <1>1, <1>7, <2>1
  <2>3. TextIs(bytes \o beyond, o, str) <=> HasString(bytes, o, str)
    BY <2>2, TextInside
  <2> QED
    BY <1>1, <2>1, <2>3 DEF StringAt, TextIs, HasString
<1> HIDE DEF text, found
<1>8. ASSUME NEW i \in DOMAIN found, NEW o \in Nat, o = found[i]
      PROVE  /\ i \in DOMAIN hits /\ HitAt(hits[i], n, o)
             /\ tend(hits[i].map) = tbegin(n.map) + o + size
  <2>1. i \in DOMAIN hits /\ hits[i] = StringHit(n, o, size)
    BY <1>2, <1>8
  <2>2. PICK m \in MapsOf(names, flags) : m = n.map
    BY DEF NodesOf
  <2>3. PICK h : h = [m EXCEPT !.relativeAddress = o, !.relativeSize = size]
    OBVIOUS
  <2>4. hits[i].map = h /\ hits[i].snap = n.snap
    BY <2>1, <2>2, <2>3 DEF StringHit, NodesOf
  <2>5. PICK p \in Int : p = m.parentAddress
    BY <2>2 DEF MapsOf
  <2>6. h.parentAddress = p /\ h.relativeAddress = o /\ h.relativeSize = size
    BY <2>3, <2>5 DEF MapsOf
  <2>7. m.relativeAddress = 0
    BY <2>2
  <2> QED
    BY <2>1, <2>2, <2>4, <2>5, <2>6, <2>7 DEF HitAt, tbegin, tend
<1>9. DOMAIN hits = DOMAIN found
  BY <1>2
<1>10. ASSUME NEW i \in DOMAIN hits
       PROVE  \E o \in Nat :
                 /\ o < length /\ HitAt(hits[i], n, o)
                 /\ tend(hits[i].map) = tbegin(n.map) + o + size
                 /\ o + size <= length => StringAt(n, o, str)
  <2>1. PICK j \in P : found[i] = all[j]
    BY <1>5, <1>9
  <2>2. all[j] \in Nat /\ all[j] < length /\ SubSeq(text, all[j] + 1, all[j] + size) = str
    <3>1. j \in DOMAIN all
      BY <1>6
    <3>2. all[j] \in Nat /\ all[j] < length
      BY <1>3, <3>1
    <3>3. SubSeq(text, all[j] + 1, all[j] + size) = str
      BY <1>4, <3>1, Zenon
    <3> QED
      BY <3>2, <3>3
  <2>3. PICK o \in Nat : o = all[j] /\ o < length /\ SubSeq(text, o + 1, o + size) = str
    BY <2>2
  <2> QED
    BY <1>7, <1>8, <1>9, <2>1, <2>3
<1>11. ASSUME NEW o \in 0 .. length - size, StringAt(n, o, str)
       PROVE  \E i \in DOMAIN hits : HitAt(hits[i], n, o)
  <2>1. o \in Nat /\ o + size <= length /\ o + 1 \in 1 .. length /\ (o + 1) - 1 = o
    OBVIOUS
  <2>2. o + 1 \in P /\ all[o + 1] = o
    BY <1>3, <1>4, <1>7, <1>11, <2>1
  <2>3. PICK i \in DOMAIN found : found[i] = o
    BY <1>5, <2>2
  <2> QED
    BY <1>8, <2>1, <2>3
<1> QED
  BY <1>1, <1>10, <1>11

-----------------------------------------------------------------------------
(* Scans by block, and the filter of the active pages: both go through a     *)
(* sequence and lengthen the last node they have or start another one.        *)

LEMMA AddBlockNodes ==
    ASSUME NEW names, NEW flags, NEW snaps,
           NEW hits \in Seq(NodesOf(MapsOf(names, flags), snaps)),
           NEW n \in NodesOf(MapsOf(names, flags), snaps),
           NEW block \in [offset : Int, size : Int]
    PROVE  AddBlock(hits, n, block) \in Seq(NodesOf(MapsOf(names, flags), snaps))
<1> DEFINE M == MapsOf(names, flags)
           N == NodesOf(M, snaps)
           last == Len(hits)
<1>1. block.offset \in Int /\ block.size \in Int
  OBVIOUS
<1>2. last \in Nat /\ DOMAIN hits = 1 .. last
  OBVIOUS
<1>3. ASSUME last > 0 PROVE [hits EXCEPT ![last].map.relativeSize = @ + block.size] \in Seq(N)
  <2>1. last \in DOMAIN hits
    BY <1>2, <1>3
  <2> HIDE DEF last
  <2>2. Lengthen(hits, last, block.size) \in Seq(N)
    BY <1>1, <2>1, Lengthened
  <2> QED
    BY <2>2 DEF Lengthen
<1>4. Append(hits, [n EXCEPT !.map = PartOf(@, block.offset, block.size)]) \in Seq(N)
  <2>1. n.map \in M /\ n.snap \in snaps
    BY DEF NodesOf
  <2>2. PartOf(n.map, block.offset, block.size) \in M
    BY <1>1, <2>1, PartOfMap
  <2>3. n \in NodesOf(M, snaps)
    OBVIOUS
  <2>4. [n EXCEPT !.map = PartOf(@, block.offset, block.size)] \in N
    <3> HIDE DEF M
    <3> QED
      BY <2>2, <2>3 DEF NodesOf
  <2>5. hits \in Seq(N)
    OBVIOUS
  <2> HIDE DEF N, M
  <2> QED
    BY <2>4, <2>5, AppendProperties
<1> HIDE DEF N, M
<1>5. AddBlock(hits, n, block) \in Seq(N)
  BY <1>2, <1>3, <1>4 DEF AddBlock
<1> QED
  BY <1>5 DEF N, M

LEMMA BlocksTyped ==
    ASSUME NEW length \in Nat, NEW compareSize \in Nat \ {0}
    PROVE  /\ Len(Blocks(length, compareSize)) \in Nat
           /\ DOMAIN Blocks(length, compareSize) = 1 .. Len(Blocks(length, compareSize))
           /\ \A k \in 1 .. Len(Blocks(length, compareSize)) :
                 Blocks(length, compareSize)[k] \in [offset : Int, size : Int]
<1> DEFINE n == (length + compareSize - 1) \div compareSize
           at(k) == (k - 1) * compareSize
           size(k) == IF length - at(k) > compareSize THEN compareSize ELSE length - at(k)
<1>1. n \in Nat
  OBVIOUS
<1>2. \A k \in 1 .. n : at(k) \in Int
  <2> HIDE DEF n
  <2> QED
    BY <1>1
<1>3. \A k \in 1 .. n : size(k) \in Int
  <2> HIDE DEF n, at
  <2> QED
    BY <1>2
<1>4. Blocks(length, compareSize) = [k \in 1 .. n |-> [offset |-> at(k), size |-> size(k)]]
  BY DEF Blocks
<1> HIDE DEF n, at, size
<1>5. Len(Blocks(length, compareSize)) = n /\ DOMAIN Blocks(length, compareSize) = 1 .. n
  BY <1>1, <1>4
<1> QED
  BY <1>1, <1>2, <1>3, <1>4, <1>5

\* A scan looks at the block when it is alike in both buffers, or not alike.
Compared(a, b, block, same) ==
    (BlockOf(span(a), block) = BlockOf(span(b), block)) = same

\* The hits after each of the blocks.
HitsOfBlocks(a, b, blocks, same) ==
    CHOOSE h : h = [k \in 0 .. Len(blocks) |->
                      IF k = 0 THEN <<>>
                      ELSE IF Compared(a, b, blocks[k], same)
                           THEN AddBlock(h[k - 1], Bare(a), blocks[k])
                           ELSE h[k - 1]]

HitsAfter(hits, a, b, blocks, same) ==
    /\ hits[0] = <<>>
    /\ \A k \in 1 .. Len(blocks) :
          hits[k] = IF Compared(a, b, blocks[k], same)
                    THEN AddBlock(hits[k - 1], Bare(a), blocks[k])
                    ELSE hits[k - 1]

LEMMA BlockSteps ==
    ASSUME NEW names, NEW flags, NEW snaps, NEW n \in NodesOf(MapsOf(names, flags), snaps),
           NEW other, NEW same, NEW blocks, Len(blocks) \in Nat,
           \A k \in 1 .. Len(blocks) : blocks[k] \in [offset : Int, size : Int],
           NEW hits, hits = HitsOfBlocks(n, other, blocks, same)
    PROVE  /\ HitsAfter(hits, n, other, blocks, same)
           /\ \A k \in 0 .. Len(blocks) :
                 hits[k] \in Seq(NodesOf(MapsOf(names, flags), {NoSnap}))
<1> DEFINE M == MapsOf(names, flags)
           N == NodesOf(M, {NoSnap})
           S == Seq(N)
           empty == <<>>
           m == Len(blocks)
           alike(k) == Compared(n, other, blocks[k], same)
           next(x, k) == IF alike(k) THEN AddBlock(x, Bare(n), blocks[k]) ELSE x
           step == [k \in 1 .. m |-> [x \in S |-> next(x, k)]]
           Defines(h) == h = [k \in 0 .. m |-> IF k = 0 THEN empty ELSE next(h[k - 1], k)]
           c == CHOOSE h : Defines(h)
<1>1. m \in Nat /\ \A k \in 1 .. m : blocks[k] \in [offset : Int, size : Int]
  OBVIOUS
<1>2. Bare(n) \in N
  <2>1. n \in NodesOf(M, snaps) /\ n.map \in M
    BY DEF NodesOf
  <2> HIDE DEF M
  <2> QED
    BY <2>1, NodeWith
<1>3. \A k \in 1 .. m : \A x \in S : next(x, k) \in S
  <2> HIDE DEF m, alike
  <2> QED
    BY <1>1, <1>2, AddBlockNodes
<1>4. empty \in S
  OBVIOUS
<1>5. hits = c
  BY DEF HitsOfBlocks
<1> HIDE DEF m, S, empty, next
<1>6. step \in Steps(m, S) /\ \A k \in 1 .. m : \A x \in S : step[k][x] = next(x, k)
  BY <1>3 DEF Steps
<1> HIDE DEF step
<1>7. PICK g \in [0 .. m -> S] : g[0] = empty /\ \A k \in 1 .. m : g[k] = step[k][g[k - 1]]
  BY <1>1, <1>4, <1>6, PrefixRecursion
<1>8. \A k \in 1 .. m : g[k - 1] \in S /\ g[k] = next(g[k - 1], k)
  <2>1. \A k \in 1 .. m : k - 1 \in 0 .. m
    BY <1>1
  <2> QED
    BY <1>6, <1>7, <2>1
<1>9. Defines(g)
  <2>1. \A k \in 0 .. m : g[k] = IF k = 0 THEN empty ELSE next(g[k - 1], k)
    BY <1>1, <1>7, <1>8
  <2> QED
    BY <1>7, <2>1
<1>10. Defines(c)
  <2> HIDE DEF Defines
  <2> QED
    BY <1>9
<1> HIDE DEF c
<1>11. c[0] = empty /\ \A k \in 1 .. m : c[k] = next(c[k - 1], k)
  BY <1>1, <1>10
<1>12. \A k \in 0 .. m : c[k] \in S
  <2>1. c[0] \in S /\ \A k \in 1 .. m : c[k - 1] \in S => c[k] \in S
    BY <1>3, <1>4, <1>11
  <2> QED
    BY <1>1, <2>1, PrefixInvariantAll
<1>13. HitsAfter(c, n, other, blocks, same) /\ \A k \in 0 .. m : c[k] \in Seq(N)
  <2>1. c[0] = <<>> /\ \A k \in 0 .. m : c[k] \in Seq(N)
    BY <1>11, <1>12 DEF empty, S
  <2>2. \A k \in 1 .. m : c[k] = IF alike(k) THEN AddBlock(c[k - 1], Bare(n), blocks[k])
                                  ELSE c[k - 1]
    <3> HIDE DEF alike
    <3> QED
      BY <1>11 DEF next
  <2> QED
    BY <2>1, <2>2 DEF HitsAfter, m
<1> QED
  BY <1>5, <1>13 DEF m, N

\* A scan by block returns nodes like the one it was given, without snapshots.
LEMMA BlockScans ==
    ASSUME NEW names, NEW flags, NEW snaps,
           NEW n \in NodesOf(MapsOf(names, flags), snaps), Len(span(n)) \in Nat,
           NEW other, NEW compareSize \in Nat \ {0}, NEW same
    PROVE  findBlocks(n, other, compareSize, same)
             \in Seq(NodesOf(MapsOf(names, flags), {NoSnap}))
<1>1. PICK blocks, hits : /\ blocks = Blocks(Len(span(n)), compareSize)
                          /\ hits = HitsOfBlocks(n, other, blocks, same)
  OBVIOUS
<1>2. /\ Len(blocks) \in Nat /\ Len(blocks) \in 0 .. Len(blocks)
      /\ \A k \in 1 .. Len(blocks) : blocks[k] \in [offset : Int, size : Int]
  BY <1>1, BlocksTyped
<1>3. hits[Len(blocks)] \in Seq(NodesOf(MapsOf(names, flags), {NoSnap}))
  BY <1>1, <1>2, BlockSteps
<1>4. findBlocks(n, other, compareSize, same) = hits[Len(blocks)]
  BY <1>1 DEF findBlocks, Compared, HitsOfBlocks
<1> QED
  BY <1>3, <1>4

-----------------------------------------------------------------------------
(* What the hits of a scan by block cover.                                   *)

BlockSet == [offset : Nat, size : Nat]

\* The addresses of a block of a node.
BlockAddresses(n, block) ==
    tbegin(n.map) + block.offset .. tbegin(n.map) + block.offset + block.size - 1

\* One of the nodes has all of the addresses.
Covers(nodes, addresses) == \E k \in DOMAIN nodes : addresses \subseteq Addresses(nodes[k].map)

\* The nodes are parts of the region of n.
PartsOf(nodes, n) ==
    \A k \in DOMAIN nodes : /\ nodes[k].map.parentAddress = n.map.parentAddress
                            /\ nodes[k].map.relativeSize \in Nat

\* No hit gets shorter, the block is covered, and only the hit with the block is
\* another one.
CoversMore(hits, longer, n, block) ==
    /\ DOMAIN hits \subseteq DOMAIN longer
    /\ \A k \in DOMAIN hits : Addresses(hits[k].map) \subseteq Addresses(longer[k].map)
    /\ Covers(longer, BlockAddresses(n, block))
    /\ \A k \in DOMAIN longer :
          \/ BlockAddresses(n, block) \subseteq Addresses(longer[k].map)
          \/ k \in DOMAIN hits /\ longer[k] = hits[k]

\* A block is put behind the last hit or starts one.
LEMMA AddBlockCovers ==
    ASSUME NEW names, NEW flags, NEW snaps,
           NEW n \in NodesOf(MapsOf(names, flags), snaps),
           NEW hits \in Seq(NodesOf(MapsOf(names, flags), snaps)), PartsOf(hits, n),
           NEW block \in BlockSet, NEW longer,
           longer = AddBlock(hits, n, block)
    PROVE  PartsOf(longer, n) /\ CoversMore(hits, longer, n, block)
<1> DEFINE M == MapsOf(names, flags)
           last == Len(hits)
           joins == last > 0 /\ rend(hits[last].map) = n.map.relativeAddress + block.offset
<1>1. PICK offset \in Nat, size \in Nat : offset = block.offset /\ size = block.size
  BY DEF BlockSet
<1>2. last \in Nat /\ DOMAIN hits = 1 .. last
  OBVIOUS
<1>3. n.map \in M
  BY DEF NodesOf
<1>4. PICK parent \in Int, relative \in Int :
        parent = n.map.parentAddress /\ relative = n.map.relativeAddress
  BY <1>3 DEF MapsOf
<1>5. BlockAddresses(n, block)
        = parent + relative + offset .. parent + relative + offset + size - 1
  BY <1>1, <1>4 DEF BlockAddresses, tbegin
<1>6. ASSUME joins
      PROVE  /\ PartsOf(longer, n) /\ DOMAIN longer = DOMAIN hits
             /\ \A k \in DOMAIN hits : k # last => longer[k] = hits[k]
             /\ Addresses(hits[last].map) \subseteq Addresses(longer[last].map)
             /\ BlockAddresses(n, block) \subseteq Addresses(longer[last].map)
             /\ last \in DOMAIN hits
  <2>1. last \in DOMAIN hits
    BY <1>2, <1>6
  <2>2. hits[last].map \in M
    <3>1. hits[last] \in NodesOf(M, snaps)
      BY <2>1
    <3> HIDE DEF M
    <3> QED
      BY <3>1 DEF NodesOf
  <2>3. PICK start \in Int, had \in Nat :
          /\ start = hits[last].map.relativeAddress /\ had = hits[last].map.relativeSize
          /\ hits[last].map.parentAddress = parent
    BY <1>4, <2>1, <2>2 DEF MapsOf, PartsOf
  <2>4. start + had = relative + offset
    BY <1>1, <1>4, <1>6, <2>3 DEF rend
  <2>6. /\ DOMAIN longer = DOMAIN hits
        /\ \A k \in DOMAIN hits : k # last => longer[k] = hits[k]
        /\ longer[last].map = [hits[last].map EXCEPT !.relativeSize = had + size]
    <3>1. longer = Lengthen(hits, last, size)
      BY <1>1, <1>6 DEF AddBlock, Lengthen
    <3> HIDE DEF last
    <3> QED
      BY <2>1, <2>3, <3>1, Lengthened
  <2>7. /\ longer[last].map.parentAddress = parent /\ longer[last].map.relativeAddress = start
        /\ longer[last].map.relativeSize = had + size /\ had + size \in Nat
    <3>1. PICK m, sum : m = hits[last].map /\ sum = had + size /\ sum \in Nat
      OBVIOUS
    <3>2. m \in M /\ longer[last].map = [m EXCEPT !.relativeSize = sum]
      BY <2>2, <2>6, <3>1
    <3> QED
      BY <2>3, <3>1, <3>2 DEF MapsOf
  <2>8. /\ Addresses(hits[last].map) = parent + start .. parent + start + had - 1
        /\ Addresses(longer[last].map) = parent + start .. parent + start + (had + size) - 1
    <3>1. PICK sum \in Nat : sum = had + size
      OBVIOUS
    <3>2. PICK old, new : old = hits[last].map /\ new = longer[last].map
      OBVIOUS
    <3>3. /\ old.parentAddress = parent /\ old.relativeAddress = start /\ old.relativeSize = had
          /\ new.parentAddress = parent /\ new.relativeAddress = start /\ new.relativeSize = sum
      BY <2>3, <2>7, <3>1, <3>2
    <3>4. /\ tbegin(old) = parent + start /\ tend(old) = parent + start + had
          /\ tbegin(new) = parent + start /\ tend(new) = parent + start + sum
      BY <3>3 DEF tbegin, tend
    <3>5. /\ Addresses(old) = parent + start .. parent + start + had - 1
          /\ Addresses(new) = parent + start .. parent + start + sum - 1
      BY <3>4 DEF Addresses
    <3> QED
      BY <3>1, <3>2, <3>5
  <2>9. /\ Addresses(hits[last].map) \subseteq Addresses(longer[last].map)
        /\ BlockAddresses(n, block) \subseteq Addresses(longer[last].map)
    <3>1. /\ parent + start .. parent + start + had - 1
               \subseteq parent + start .. parent + start + (had + size) - 1
          /\ parent + relative + offset .. parent + relative + offset + size - 1
               \subseteq parent + start .. parent + start + (had + size) - 1
      BY <2>4
    <3> QED
      BY <1>5, <2>8, <3>1
  <2>10. PartsOf(longer, n)
    BY <1>4, <2>6, <2>7 DEF PartsOf
  <2> QED
    BY <2>1, <2>6, <2>9, <2>10
<1>7. ASSUME ~joins
      PROVE  /\ PartsOf(longer, n) /\ DOMAIN longer = 1 .. last + 1
             /\ \A k \in DOMAIN hits : longer[k] = hits[k]
             /\ BlockAddresses(n, block) \subseteq Addresses(longer[last + 1].map)
  <2>1. PICK added : added = [n EXCEPT !.map = PartOf(@, block.offset, block.size)]
    OBVIOUS
  <2>2. longer = Append(hits, added)
    BY <1>7, <2>1 DEF AddBlock
  <2>3. /\ DOMAIN longer = 1 .. last + 1 /\ longer[last + 1] = added
        /\ \A k \in DOMAIN hits : longer[k] = hits[k]
    <3>1. ASSUME NEW T, NEW seq \in Seq(T), NEW e
          PROVE  /\ DOMAIN Append(seq, e) = 1 .. Len(seq) + 1
                 /\ Append(seq, e)[Len(seq) + 1] = e
                 /\ \A k \in DOMAIN seq : Append(seq, e)[k] = seq[k]
      OBVIOUS
    <3> QED
      BY <2>2, <3>1
  <2>4. added.map = PartOf(n.map, offset, size)
    BY <1>1, <2>1 DEF NodesOf
  <2>5. /\ added.map.parentAddress = parent /\ added.map.relativeAddress = relative + offset
        /\ added.map.relativeSize = size
    BY <1>3, <1>4, <2>4 DEF MapsOf, PartOf
  <2>6. Addresses(added.map) = BlockAddresses(n, block)
    BY <1>5, <2>5 DEF Addresses, tbegin, tend
  <2>7. PartsOf(longer, n)
    BY <1>2, <1>4, <2>3, <2>5 DEF PartsOf
  <2> QED
    BY <2>3, <2>6, <2>7
<1>8. CASE joins
  BY <1>6, <1>8 DEF Covers, CoversMore
<1>9. CASE ~joins
  BY <1>2, <1>7, <1>9 DEF Covers, CoversMore
<1> QED
  BY <1>8, <1>9

\* The blocks lie in the buffer, none of them is empty, and every offset is in one.
Tile(blocks, length) ==
    /\ \A k \in 1 .. Len(blocks) : /\ blocks[k] \in [offset : Nat, size : Nat \ {0}]
                                   /\ blocks[k].offset + blocks[k].size <= length
    /\ \A o \in 0 .. length - 1 : \E k \in 1 .. Len(blocks) :
          o \in blocks[k].offset .. blocks[k].offset + blocks[k].size - 1

LEMMA BlocksTile ==
    ASSUME NEW length \in Nat, NEW compareSize \in Nat \ {0}, NEW blocks,
           blocks = Blocks(length, compareSize)
    PROVE  Tile(blocks, length)
<1> DEFINE n == (length + compareSize - 1) \div compareSize
           at(k) == (k - 1) * compareSize
           size(k) == IF length - at(k) > compareSize THEN compareSize ELSE length - at(k)
<1>1. n \in Nat
  OBVIOUS
<1>2. blocks = [k \in 1 .. n |-> [offset |-> at(k), size |-> size(k)]]
  BY DEF Blocks
<1>3. PICK top \in Nat, rest \in 0 .. compareSize - 1 :
        top = n * compareSize /\ length + compareSize - 1 = top + rest
  <2>1. PICK x \in Nat : x = length + compareSize - 1
    OBVIOUS
  <2>2. x \div compareSize \in Nat /\ x = (x \div compareSize) * compareSize + (x % compareSize)
        /\ x % compareSize \in 0 .. compareSize - 1
    OBVIOUS
  <2>3. (x \div compareSize) * compareSize \in Nat
    BY <2>2
  <2> QED
    BY <2>1, <2>2, <2>3
<1> HIDE DEF n
<1>4. Len(blocks) = n
  <2> HIDE DEF at, size
  <2> QED
    BY <1>1, <1>2
<1>5. \A k \in 1 .. n : blocks[k].offset = at(k) /\ blocks[k].size = size(k)
                        /\ blocks[k] = [offset |-> at(k), size |-> size(k)]
  <2> HIDE DEF at, size
  <2> QED
    BY <1>2
<1>6. ASSUME NEW k \in 1 .. n
      PROVE  at(k) \in Nat /\ at(k) <= top - compareSize
  <2>1. k - 1 \in Nat /\ n - 1 \in Int /\ k - 1 =< n - 1 /\ compareSize \in Nat /\ compareSize # 0
    BY <1>1
  <2>2. (k - 1) * compareSize =< (n - 1) * compareSize
    BY <2>1, MultipleOrder
  <2>3. (n - 1) * compareSize = n * compareSize - compareSize
    BY <1>1
  <2>4. (k - 1) * compareSize \in Nat
    BY <2>1
  <2> QED
    BY <1>3, <2>2, <2>3, <2>4
<1>7. ASSUME NEW k \in 1 .. n
      PROVE  /\ blocks[k] \in [offset : Nat, size : Nat \ {0}]
             /\ blocks[k].offset + blocks[k].size <= length
  <2>1. PICK offset \in Nat : offset = at(k) /\ offset <= top - compareSize
    BY <1>6
  <2>2. offset < length
    BY <1>3, <2>1
  <2>3. size(k) \in Nat \ {0} /\ offset + size(k) <= length
    <3> HIDE DEF at
    <3> QED
      BY <2>1, <2>2
  <2>4. PICK s \in Nat \ {0} : s = size(k)
    BY <2>3
  <2> HIDE DEF at, size
  <2>5. blocks[k] = [offset |-> offset, size |-> s] /\ offset + s <= length
    BY <1>5, <2>1, <2>3, <2>4
  <2> QED
    BY <2>5
<1>8. ASSUME NEW o \in 0 .. length - 1
      PROVE  \E k \in 1 .. n : o \in blocks[k].offset .. blocks[k].offset + blocks[k].size - 1
  <2>1. PICK d \in Nat, r \in 0 .. compareSize - 1 : o = d * compareSize + r
    <3>1. PICK x \in Nat : x = o
      OBVIOUS
    <3>2. /\ x \div compareSize \in Nat
          /\ x = (x \div compareSize) * compareSize + (x % compareSize)
          /\ x % compareSize \in 0 .. compareSize - 1
      OBVIOUS
    <3> QED
      BY <3>1, <3>2
  <2>2. d * compareSize \in Nat /\ d * compareSize <= o
    BY <2>1
  <2>3. d < n
    <3>1. d * compareSize < top
      BY <1>3, <2>2
    <3>2. (n =< d) <=> (n * compareSize =< d * compareSize)
      BY <1>1, MultipleOrder
    <3> QED
      BY <1>1, <1>3, <2>2, <3>1, <3>2
  <2>4. PICK k \in 1 .. n : k = d + 1
    BY <1>1, <2>3
  <2>5. PICK offset \in Nat : offset = at(k) /\ o = offset + r
    BY <2>1, <2>2, <2>4
  <2>6. o \in offset .. offset + size(k) - 1
    <3> HIDE DEF at
    <3> QED
      BY <2>5
  <2> HIDE DEF at, size
  <2> QED
    BY <1>5, <2>5, <2>6
<1> QED
  BY <1>4, <1>7, <1>8 DEF Tile

\* The blocks a scan finds.
Places(a, b, blocks, same) == {k \in 1 .. Len(blocks) : Compared(a, b, blocks[k], same)}

\* The hits are made of these blocks.
MadeOf(hits, n, blocks, places) ==
    /\ \A j \in places : Covers(hits, BlockAddresses(n, blocks[j]))
    /\ \A k \in DOMAIN hits : \E j \in places :
          BlockAddresses(n, blocks[j]) \subseteq Addresses(hits[k].map)

\* The hits of a scan cover the blocks it found, and each has one of them.
LEMMA BlocksCovered ==
    ASSUME NEW names, NEW flags, NEW snaps, NEW n \in NodesOf(MapsOf(names, flags), snaps),
           NEW other, NEW same, NEW blocks, Len(blocks) \in Nat,
           \A k \in 1 .. Len(blocks) : blocks[k] \in BlockSet,
           NEW hits, hits = HitsOfBlocks(n, other, blocks, same)
    PROVE  MadeOf(hits[Len(blocks)], Bare(n), blocks, Places(n, other, blocks, same))
<1> DEFINE N == NodesOf(MapsOf(names, flags), {NoSnap})
           Upto(k) == {j \in 1 .. k : Compared(n, other, blocks[j], same)}
<1>1. PICK m \in Nat : m = Len(blocks)
  OBVIOUS
<1>2. HitsAfter(hits, n, other, blocks, same) /\ \A k \in 0 .. m : hits[k] \in Seq(N)
  <2>1. \A k \in 1 .. Len(blocks) : blocks[k] \in [offset : Int, size : Int]
    BY DEF BlockSet
  <2> QED
    BY <1>1, <2>1, BlockSteps
<1>3. PICK x \in N : x = Bare(n)
  <2>1. n \in NodesOf(MapsOf(names, flags), snaps) /\ n.map \in MapsOf(names, flags)
    BY DEF NodesOf
  <2> QED
    BY <2>1, NodeWith
<1> DEFINE Made(k) == PartsOf(hits[k], x) /\ MadeOf(hits[k], x, blocks, Upto(k))
           T == {k \in Nat : k <= m => Made(k)}
<1>4. 0 \in T
  <2>1. hits[0] = <<>>
    BY <1>2 DEF HitsAfter
  <2>2. DOMAIN hits[0] = {} /\ Upto(0) = {}
    BY <2>1
  <2> QED
    BY <2>2 DEF PartsOf, MadeOf
<1>5. ASSUME NEW k \in Nat, k \in T PROVE k + 1 \in T
  <2> SUFFICES ASSUME k + 1 <= m
               PROVE  /\ PartsOf(hits[k + 1], x)
                      /\ MadeOf(hits[k + 1], x, blocks, Upto(k + 1))
    OBVIOUS
  <2>1. k \in 0 .. m /\ k + 1 \in 1 .. m /\ (k + 1) - 1 = k
    OBVIOUS
  <2>2. PartsOf(hits[k], x) /\ MadeOf(hits[k], x, blocks, Upto(k)) /\ hits[k] \in Seq(N)
    <3> HIDE DEF Made, N
    <3>1. Made(k)
      BY <1>5, <2>1
    <3>2. hits[k] \in Seq(N)
      BY <1>2, <2>1
    <3> QED
      BY <3>1, <3>2 DEF Made
  <2>3. PICK block, old, new :
          block = blocks[k + 1] /\ old = hits[k] /\ new = hits[k + 1]
    OBVIOUS
  <2>4. block \in BlockSet
    BY <1>1, <2>1, <2>3
  <2>5. new = IF Compared(n, other, block, same) THEN AddBlock(old, x, block) ELSE old
    BY <1>1, <1>2, <1>3, <2>1, <2>3 DEF HitsAfter
  <2>6. CASE Compared(n, other, block, same)
    <3>1. Upto(k + 1) = Upto(k) \cup {k + 1}
      BY <2>3, <2>6
    <3>2. PartsOf(new, x) /\ CoversMore(old, new, x, block)
      <4>1. x \in N /\ old \in Seq(N) /\ PartsOf(old, x) /\ new = AddBlock(old, x, block)
        BY <2>2, <2>3, <2>5, <2>6
      <4> QED
        BY <2>4, <4>1, AddBlockCovers
    <3>3. \A j \in Upto(k + 1) : Covers(new, BlockAddresses(x, blocks[j]))
      <4>1. \A j \in Upto(k) : Covers(old, BlockAddresses(x, blocks[j]))
        BY <2>2, <2>3 DEF MadeOf
      <4>2. \A j \in Upto(k) : Covers(new, BlockAddresses(x, blocks[j]))
        <5> HIDE DEF Upto
        <5> QED
          BY <3>2, <4>1 DEF Covers, CoversMore
      <4> HIDE DEF Upto
      <4> QED
        BY <2>3, <3>1, <3>2, <4>2 DEF CoversMore
    <3>4. ASSUME NEW i \in DOMAIN new
          PROVE  \E j \in Upto(k + 1) :
                    BlockAddresses(x, blocks[j]) \subseteq Addresses(new[i].map)
      <4>1. \A h \in DOMAIN old : \E j \in Upto(k) :
               BlockAddresses(x, blocks[j]) \subseteq Addresses(old[h].map)
        BY <2>2, <2>3 DEF MadeOf
      <4> HIDE DEF Upto
      <4> QED
        BY <2>3, <3>1, <3>2, <4>1 DEF CoversMore
    <3> QED
      BY <2>3, <3>2, <3>3, <3>4 DEF MadeOf
  <2>7. CASE ~Compared(n, other, block, same)
    <3>1. Upto(k + 1) = Upto(k)
      BY <2>3, <2>7
    <3> HIDE DEF Upto
    <3> QED
      BY <2>2, <2>3, <2>5, <2>7, <3>1
  <2> QED
    BY <2>6, <2>7
<1>6. m \in T
  <2> HIDE DEF T
  <2> QED
    BY <1>4, <1>5, NatSetInduction
<1>7. Made(m)
  <2> HIDE DEF Made
  <2> QED
    BY <1>6
<1>8. Upto(m) = Places(n, other, blocks, same)
  BY <1>1 DEF Places
<1> QED
  BY <1>1, <1>3, <1>7, <1>8

\* Two blocks are alike when all of their bytes are.
LEMMA BlockDiffers ==
    ASSUME NEW T, NEW x \in Seq(T), NEW y \in Seq(T), NEW offset \in Nat, NEW size \in Nat,
           offset + size <= Len(x), offset + size <= Len(y), NEW block,
           block.offset = offset, block.size = size
    PROVE  BlockOf(x, block) # BlockOf(y, block)
             <=> \E j \in offset + 1 .. offset + size : x[j] # y[j]
<1>1. ASSUME NEW z \in Seq(T), offset + size <= Len(z)
      PROVE  /\ BlockOf(z, block) \in Seq(T) /\ Len(BlockOf(z, block)) = size
             /\ \A i \in 1 .. size : BlockOf(z, block)[i] = z[offset + i]
  <2>1. PICK first \in Int, last \in Int : first = offset + 1 /\ last = offset + size
    OBVIOUS
  <2>2. \A i \in first .. last : z[i] \in T
    BY <1>1, <2>1
  <2>3. BlockOf(z, block) = SubSeq(z, first, last)
    BY <2>1 DEF BlockOf
  <2>4. /\ SubSeq(z, first, last) \in Seq(T)
        /\ Len(SubSeq(z, first, last)) = IF first <= last THEN last - first + 1 ELSE 0
        /\ \A i \in 1 .. last - first + 1 : SubSeq(z, first, last)[i] = z[first + i - 1]
    BY <2>2, SubSeqProperties
  <2>5. last - first + 1 = size /\ (IF first <= last THEN last - first + 1 ELSE 0) = size
    BY <2>1
  <2>6. \A i \in 1 .. size : first + i - 1 = offset + i
    BY <2>1
  <2> QED
    BY <2>3, <2>4, <2>5, <2>6
<1>2. PICK a \in Seq(T), b \in Seq(T) : a = BlockOf(x, block) /\ b = BlockOf(y, block)
  BY <1>1
<1>3. /\ Len(a) = size /\ Len(b) = size
      /\ \A i \in 1 .. size : a[i] = x[offset + i] /\ b[i] = y[offset + i]
  BY <1>1, <1>2
<1>4. ASSUME \A j \in offset + 1 .. offset + size : x[j] = y[j] PROVE a = b
  <2>1. \A i \in 1 .. size : offset + i \in offset + 1 .. offset + size
    OBVIOUS
  <2>2. \A i \in 1 .. Len(a) : a[i] = b[i]
    BY <1>3, <1>4, <2>1
  <2> QED
    BY <1>3, <2>2, SeqEqual
<1>5. ASSUME NEW j \in offset + 1 .. offset + size, x[j] # y[j] PROVE a # b
  <2>1. j - offset \in 1 .. size /\ offset + (j - offset) = j
    OBVIOUS
  <2> QED
    BY <1>3, <1>5, <2>1
<1> QED
  BY <1>2, <1>4, <1>5

\* The byte j of the buffer is another one in the other buffer.
DiffersAt(n, other, j) == span(n)[j] # span(other)[j]

\* Every hit of findChanged has the address of a byte that is another one, and
\* every such address is in a hit.
LEMMA ChangedScan ==
    ASSUME NEW names, NEW flags, NEW snaps, NEW n \in NodesOf(MapsOf(names, flags), snaps),
           NEW other, NEW T, span(n) \in Seq(T), span(other) \in Seq(T),
           Len(span(other)) = Len(span(n)), NEW compareSize \in Nat \ {0},
           NEW hits, hits = findChanged(n, other, compareSize)
    PROVE  /\ \A k \in DOMAIN hits : \E j \in 1 .. Len(span(n)) :
                 DiffersAt(n, other, j) /\ tbegin(n.map) + j - 1 \in Addresses(hits[k].map)
           /\ \A j \in 1 .. Len(span(n)) :
                 DiffersAt(n, other, j) => Covers(hits, {tbegin(n.map) + j - 1})
<1>1. PICK length \in Nat : length = Len(span(n))
  OBVIOUS
<1>2. PICK blocks, all : /\ blocks = Blocks(length, compareSize)
                         /\ all = HitsOfBlocks(n, other, blocks, FALSE)
  OBVIOUS
<1>3. PICK m \in Nat : m = Len(blocks)
  BY <1>1, <1>2, BlocksTyped
<1>4. /\ \A k \in 1 .. m : /\ blocks[k] \in [offset : Nat, size : Nat \ {0}]
                           /\ blocks[k].offset + blocks[k].size <= length
      /\ \A o \in 0 .. length - 1 : \E k \in 1 .. m :
            o \in blocks[k].offset .. blocks[k].offset + blocks[k].size - 1
  <2>1. Tile(blocks, length)
    BY <1>1, <1>2, BlocksTile
  <2> QED
    BY <1>3, <2>1 DEF Tile
<1>5. hits = all[m]
  BY <1>1, <1>2, <1>3 DEF findChanged, findBlocks, Compared, HitsOfBlocks
<1> DEFINE P == Places(n, other, blocks, FALSE)
<1>6. MadeOf(hits, Bare(n), blocks, P)
  <2>1. \A k \in 1 .. Len(blocks) : blocks[k] \in BlockSet
    BY <1>3, <1>4 DEF BlockSet
  <2>2. MadeOf(all[Len(blocks)], Bare(n), blocks, Places(n, other, blocks, FALSE))
    BY <1>2, <1>3, <2>1, BlocksCovered
  <2> QED
    BY <1>3, <1>5, <2>2
<1>7. PICK start \in Int : start = tbegin(n.map) /\ Bare(n).map = n.map
  <2>1. n \in NodesOf(MapsOf(names, flags), snaps) /\ n.map \in MapsOf(names, flags)
    BY DEF NodesOf
  <2>2. tbegin(n.map) \in Int
    BY <2>1 DEF MapsOf, tbegin
  <2>3. Bare(n).map = n.map
    BY <2>1 DEF Bare, NodesOf
  <2> QED
    BY <2>2, <2>3
<1>8. ASSUME NEW k \in 1 .. m
      PROVE  \E offset \in Nat, size \in Nat :
                /\ offset + size <= length
                /\ offset = blocks[k].offset /\ size = blocks[k].size
                /\ k \in P <=> \E j \in offset + 1 .. offset + size : DiffersAt(n, other, j)
                /\ BlockAddresses(Bare(n), blocks[k])
                     = start + offset .. start + offset + size - 1
  <2>1. PICK offset \in Nat, size \in Nat :
          offset = blocks[k].offset /\ size = blocks[k].size /\ offset + size <= length
    BY <1>4
  <2>2. BlockOf(span(n), blocks[k]) # BlockOf(span(other), blocks[k])
          <=> \E j \in offset + 1 .. offset + size : span(n)[j] # span(other)[j]
    <3>1. PICK x \in Seq(T), y \in Seq(T) : x = span(n) /\ y = span(other)
      OBVIOUS
    <3>2. PICK block : block = blocks[k]
      OBVIOUS
    <3>3. /\ offset + size <= Len(x) /\ offset + size <= Len(y)
          /\ block.offset = offset /\ block.size = size
      BY <1>1, <2>1, <3>1, <3>2
    <3>4. BlockOf(x, block) # BlockOf(y, block)
            <=> \E j \in offset + 1 .. offset + size : x[j] # y[j]
      BY <3>3, BlockDiffers
    <3> QED
      BY <3>1, <3>4, <3>2
  <2>3. k \in P <=> BlockOf(span(n), blocks[k]) # BlockOf(span(other), blocks[k])
    BY <1>3 DEF Compared, Places
  <2>4. BlockAddresses(Bare(n), blocks[k]) = start + offset .. start + offset + size - 1
    BY <1>7, <2>1 DEF BlockAddresses
  <2> QED
    BY <2>1, <2>2, <2>3, <2>4 DEF DiffersAt
<1> HIDE DEF P
<1>9. ASSUME NEW h \in DOMAIN hits
      PROVE  \E j \in 1 .. length :
                DiffersAt(n, other, j) /\ start + j - 1 \in Addresses(hits[h].map)
  <2>1. PICK k \in P : BlockAddresses(Bare(n), blocks[k]) \subseteq Addresses(hits[h].map)
    BY <1>6 DEF MadeOf
  <2>2. k \in 1 .. m
    BY <1>3 DEF P, Places
  <2>3. PICK offset \in Nat, size \in Nat :
          /\ offset + size <= length
          /\ \E j \in offset + 1 .. offset + size : DiffersAt(n, other, j)
          /\ BlockAddresses(Bare(n), blocks[k]) = start + offset .. start + offset + size - 1
    BY <1>8, <2>2
  <2>4. PICK j \in offset + 1 .. offset + size : DiffersAt(n, other, j)
    BY <2>3
  <2>5. j \in 1 .. length /\ start + j - 1 \in start + offset .. start + offset + size - 1
    BY <2>3, <2>4
  <2> QED
    BY <2>1, <2>3, <2>4, <2>5
<1>10. ASSUME NEW j \in 1 .. length, DiffersAt(n, other, j)
       PROVE  Covers(hits, {start + j - 1})
  <2>1. PICK o \in 0 .. length - 1 : o = j - 1
    OBVIOUS
  <2>2. PICK k \in 1 .. m : o \in blocks[k].offset .. blocks[k].offset + blocks[k].size - 1
    BY <1>4
  <2>3. PICK offset \in Nat, size \in Nat :
          /\ offset = blocks[k].offset /\ size = blocks[k].size
          /\ k \in P <=> \E i \in offset + 1 .. offset + size : DiffersAt(n, other, i)
          /\ BlockAddresses(Bare(n), blocks[k]) = start + offset .. start + offset + size - 1
    BY <1>8
  <2>4. j \in offset + 1 .. offset + size
        /\ start + j - 1 \in start + offset .. start + offset + size - 1
    <3>1. o \in offset .. offset + size - 1
      BY <2>2, <2>3
    <3> QED
      BY <2>1, <3>1
  <2>5. k \in P
    BY <1>10, <2>3, <2>4
  <2>6. Covers(hits, BlockAddresses(Bare(n), blocks[k]))
    BY <1>6, <2>5 DEF MadeOf
  <2>7. {start + j - 1} \subseteq BlockAddresses(Bare(n), blocks[k])
    BY <2>3, <2>4
  <2> QED
    BY <2>6, <2>7 DEF Covers
<1> QED
  BY <1>1, <1>7, <1>9, <1>10

LEMMA AddPageNodes ==
    ASSUME NEW names, NEW flags, NEW snaps,
           NEW regions \in Seq(NodesOf(MapsOf(names, flags), snaps)),
           NEW visit \in [node : NodesOf(MapsOf(names, flags), snaps), address : Int]
    PROVE  AddPage(regions, visit) \in Seq(NodesOf(MapsOf(names, flags), snaps))
<1> DEFINE M == MapsOf(names, flags)
           N == NodesOf(M, snaps)
           last == Len(regions)
           offset == visit.address - visit.node.map.parentAddress
           started == [visit.node EXCEPT !.map.relativeSize = PageSize,
                                         !.map.relativeAddress = offset]
<1>1. PageSize \in Int
  BY PageSizeAssumption DEF PageSizeAssumption
<1>2. last \in Nat /\ DOMAIN regions = 1 .. last
  OBVIOUS
<1>3. visit.node \in N /\ visit.address \in Int
  OBVIOUS
<1>4. visit.node.map \in M /\ visit.node.snap \in snaps
  <2> HIDE DEF M
  <2> QED
    BY <1>3 DEF NodesOf
<1>5. offset \in Int
  BY <1>3, <1>4 DEF MapsOf
<1>6. ASSUME last > 0 PROVE [regions EXCEPT ![last].map.relativeSize = @ + PageSize] \in Seq(N)
  <2>1. last \in DOMAIN regions
    BY <1>2, <1>6
  <2> HIDE DEF last
  <2>2. Lengthen(regions, last, PageSize) \in Seq(N)
    BY <1>1, <2>1, Lengthened
  <2> QED
    BY <2>2 DEF Lengthen
<1>7. started \in N
  <2>1. PICK o \in Int : o = offset
    BY <1>5
  <2>2. [[visit.node.map EXCEPT !.relativeSize = PageSize] EXCEPT !.relativeAddress = o] \in M
    BY <1>1, <1>4, <2>1 DEF MapsOf
  <2>3. started = [visit.node EXCEPT !.map =
            [[visit.node.map EXCEPT !.relativeSize = PageSize] EXCEPT !.relativeAddress = o]]
    <3> HIDE DEF M, offset
    <3> QED
      BY <1>3, <2>1 DEF NodesOf
  <2> HIDE DEF M, started
  <2> QED
    BY <1>3, <2>2, <2>3 DEF NodesOf
<1>8. Append(regions, started) \in Seq(N)
  <2>1. regions \in Seq(N)
    OBVIOUS
  <2> HIDE DEF N, started
  <2> QED
    BY <1>7, <2>1, AppendProperties
<1> HIDE DEF N, M
<1>9. AddPage(regions, visit) \in Seq(N)
  BY <1>2, <1>6, <1>8 DEF AddPage
<1> QED
  BY <1>9 DEF N, M

\* A node is visited at addresses, one per page.
VisitsOf(n) ==
    [k \in DOMAIN PageAddresses(n.map) |->
        [node |-> n, address |-> PageAddresses(n.map)[k]]]

LEMMA VisitsOfNode ==
    ASSUME NEW names, NEW flags, NEW snaps, NEW n \in NodesOf(MapsOf(names, flags), snaps)
    PROVE  VisitsOf(n) \in Seq([node : NodesOf(MapsOf(names, flags), snaps), address : Int])
<1> DEFINE N == NodesOf(MapsOf(names, flags), snaps)
           V == [node : N, address : Int]
           top == (n.map.relativeSize + PageSize - 1) \div PageSize
           start == tbegin(n.map)
<1>1. ASSUME NEW t \in Int, NEW T, NEW f, f = [k \in 1 .. t |-> f[k]],
             \A k \in 1 .. t : f[k] \in T
      PROVE  f \in Seq(T)
  <2>1. PICK m \in Nat : 1 .. t = 1 .. m
    <3>1. CASE t \in Nat
      BY <3>1
    <3>2. CASE ~(t \in Nat)
      <4>1. 1 .. t = 1 .. 0
        BY <3>2
      <4> QED
        BY <4>1
    <3> QED
      BY <3>1, <3>2
  <2>2. f \in [1 .. m -> T]
    BY <1>1, <2>1
  <2> QED
    BY <2>2
<1>2. n.map \in MapsOf(names, flags)
  BY DEF NodesOf
<1>3. start \in Int /\ n.map.relativeSize \in Int
  BY <1>2 DEF MapsOf, tbegin
<1>4. PageSize \in Nat \ {0}
  BY PageSizeAssumption DEF PageSizeAssumption
<1>5. top \in Int
  <2>1. PICK r \in Int : r = n.map.relativeSize + PageSize - 1
    BY <1>3, <1>4
  <2>2. r \div PageSize \in Int
    BY <1>4
  <2> QED
    BY <2>1, <2>2
<1>6. PageAddresses(n.map) = [k \in 1 .. top |-> start + (k - 1) * PageSize]
  BY DEF PageAddresses
<1> HIDE DEF top, start, N
<1>7. \A k \in 1 .. top : start + (k - 1) * PageSize \in Int
  BY <1>3, <1>4, <1>5
<1>8. n \in N
  BY DEF N
<1>9. /\ VisitsOf(n) = [k \in 1 .. top |-> VisitsOf(n)[k]]
      /\ \A k \in 1 .. top : VisitsOf(n)[k] \in V
  BY <1>6, <1>7, <1>8 DEF VisitsOf
<1> HIDE DEF V
<1>10. VisitsOf(n) \in Seq(V)
  BY <1>1, <1>5, <1>9
<1> QED
  BY <1>10 DEF V, N

\* The visits are those of the nodes, one after the other.
LEMMA VisitsTyped ==
    ASSUME NEW names, NEW flags, NEW snaps,
           NEW nodes \in Seq(NodesOf(MapsOf(names, flags), snaps)), NEW all,
           all = [i \in DOMAIN nodes |-> VisitsOf(nodes[i])]
    PROVE  /\ all \in Seq(Seq([node : NodesOf(MapsOf(names, flags), snaps), address : Int]))
           /\ DOMAIN all = DOMAIN nodes /\ Visits(nodes) = FlattenSeq(all)
           /\ Visits(nodes) \in Seq([node : NodesOf(MapsOf(names, flags), snaps),
                                     address : Int])
<1> DEFINE N == NodesOf(MapsOf(names, flags), snaps)
           V == [node : N, address : Int]
<1>1. \A i \in DOMAIN nodes : nodes[i] \in N
  <2>1. ASSUME NEW T, NEW seq \in Seq(T), NEW k \in DOMAIN seq PROVE seq[k] \in T
    OBVIOUS
  <2>2. nodes \in Seq(N)
    OBVIOUS
  <2> HIDE DEF N
  <2> QED
    BY <2>1, <2>2, Zenon
<1>2. \A i \in DOMAIN nodes : VisitsOf(nodes[i]) \in Seq(V)
  BY <1>1, VisitsOfNode
<1>3. all \in Seq(Seq(V))
  <2>1. DOMAIN nodes = 1 .. Len(nodes) /\ Len(nodes) \in Nat
    OBVIOUS
  <2> HIDE DEF V
  <2>2. [i \in 1 .. Len(nodes) |-> VisitsOf(nodes[i])] \in Seq(Seq(V))
    BY <1>2, <2>1, IsASeq
  <2> QED
    BY <2>1, <2>2
<1>4. Visits(nodes) = FlattenSeq(all)
  BY DEF Visits, VisitsOf
<1> HIDE DEF V
<1>5. FlattenSeq(all) \in Seq(V)
  BY <1>3, Flattened
<1> QED
  BY <1>3, <1>4, <1>5 DEF V

\* The regions that a sequence of visits makes.
Regions(visits, seen) ==
    CHOOSE h : h = [k \in 0 .. Len(visits) |->
                      IF k = 0 THEN <<>>
                      ELSE IF PageOf(visits[k].address) \in seen
                           THEN AddPage(h[k - 1], visits[k])
                           ELSE h[k - 1]]

RegionsAfter(regions, visits, seen) ==
    /\ regions[0] = <<>>
    /\ \A k \in 1 .. Len(visits) :
          regions[k] = IF PageOf(visits[k].address) \in seen
                       THEN AddPage(regions[k - 1], visits[k]) ELSE regions[k - 1]

LEMMA RegionSteps ==
    ASSUME NEW names, NEW flags, NEW snaps, NEW visits, NEW seen, Len(visits) \in Nat,
           \A k \in 1 .. Len(visits) :
              visits[k] \in [node : NodesOf(MapsOf(names, flags), snaps), address : Int],
           NEW regions, regions = Regions(visits, seen)
    PROVE  /\ RegionsAfter(regions, visits, seen)
           /\ \A k \in 0 .. Len(visits) :
                 regions[k] \in Seq(NodesOf(MapsOf(names, flags), snaps))
<1> DEFINE N == NodesOf(MapsOf(names, flags), snaps)
           V == [node : N, address : Int]
           S == Seq(N)
           empty == <<>>
           m == Len(visits)
           next(x, k) == IF PageOf(visits[k].address) \in seen
                         THEN AddPage(x, visits[k]) ELSE x
           step == [k \in 1 .. m |-> [x \in S |-> next(x, k)]]
           Defines(h) == h = [k \in 0 .. m |-> IF k = 0 THEN empty ELSE next(h[k - 1], k)]
           c == CHOOSE h : Defines(h)
<1>1. m \in Nat /\ \A k \in 1 .. m : visits[k] \in V
  OBVIOUS
<1>2. \A k \in 1 .. m : \A x \in S : next(x, k) \in S
  <2> HIDE DEF m
  <2> QED
    BY <1>1, AddPageNodes
<1>3. empty \in S
  OBVIOUS
<1>4. regions = c
  BY DEF Regions
<1> HIDE DEF m, S, empty, next
<1>5. step \in Steps(m, S) /\ \A k \in 1 .. m : \A x \in S : step[k][x] = next(x, k)
  BY <1>2 DEF Steps
<1> HIDE DEF step
<1>6. PICK g \in [0 .. m -> S] : g[0] = empty /\ \A k \in 1 .. m : g[k] = step[k][g[k - 1]]
  <2>1. m \in Nat /\ empty \in S /\ step \in Steps(m, S)
    BY <1>1, <1>3, <1>5
  <2>2. PICK g : Follows(g, m, S, empty, step)
    BY <2>1, PrefixFollows
  <2> QED
    BY <2>2 DEF Follows
<1>7. \A k \in 1 .. m : g[k - 1] \in S /\ g[k] = next(g[k - 1], k)
  <2>1. \A k \in 1 .. m : k - 1 \in 0 .. m
    BY <1>1
  <2> QED
    BY <1>5, <1>6, <2>1
<1>8. Defines(g)
  <2>1. \A k \in 0 .. m : g[k] = IF k = 0 THEN empty ELSE next(g[k - 1], k)
    BY <1>1, <1>6, <1>7
  <2> QED
    BY <1>6, <2>1
<1>9. Defines(c)
  <2> HIDE DEF Defines
  <2> QED
    BY <1>8
<1> HIDE DEF c
<1>10. c[0] = empty /\ \A k \in 1 .. m : c[k] = next(c[k - 1], k)
  BY <1>1, <1>9
<1>11. \A k \in 0 .. m : c[k] \in S
  <2>1. c[0] \in S /\ \A k \in 1 .. m : c[k - 1] \in S => c[k] \in S
    BY <1>2, <1>3, <1>10
  <2> QED
    BY <1>1, <2>1, PrefixInvariantAll
<1>12. RegionsAfter(c, visits, seen)
  BY <1>10 DEF RegionsAfter, next, empty, m
<1> QED
  BY <1>4, <1>11, <1>12 DEF m, S

\* The filter of the active pages returns nodes of the same kind.
LEMMA ActiveNodes ==
    ASSUME NEW names, NEW flags, NEW snaps,
           NEW nodes \in Seq(NodesOf(MapsOf(names, flags), snaps)), NEW seen
    PROVE  active(nodes, seen) \in Seq(NodesOf(MapsOf(names, flags), snaps))
<1> DEFINE V == [node : NodesOf(MapsOf(names, flags), snaps), address : Int]
<1>1. PICK all : all = [i \in DOMAIN nodes |-> VisitsOf(nodes[i])]
  OBVIOUS
<1>2. PICK visits, regions : visits = Visits(nodes) /\ regions = Regions(visits, seen)
  OBVIOUS
<1>3. visits \in Seq(V)
  BY <1>1, <1>2, VisitsTyped
<1>4. Len(visits) \in Nat /\ \A k \in 1 .. Len(visits) : visits[k] \in V
  <2> HIDE DEF V
  <2> QED
    BY <1>3
<1>5. \A k \in 0 .. Len(visits) : regions[k] \in Seq(NodesOf(MapsOf(names, flags), snaps))
  BY <1>2, <1>4, RegionSteps
<1>6. active(nodes, seen) = regions[Len(visits)]
  BY <1>2 DEF active, Regions
<1> QED
  BY <1>4, <1>5, <1>6

-----------------------------------------------------------------------------
(* What the filter of the active pages keeps.                               *)

PageAt(address) == address .. address + PageSize - 1

\* The addresses of a page are those its number says.
LEMMA PageFacts ==
    ASSUME NEW d \in Int, NEW address, address = d * PageSize
    PROVE  /\ address \in Int /\ PageOf(address) = d
           /\ \A a \in Int : a \in PageAt(address) <=> PageOf(a) = d
<1>1. PICK size \in Nat \ {0} : size = PageSize
  BY PageSizeAssumption DEF PageSizeAssumption
<1>2. address \in Int /\ address = d * size
  BY <1>1
<1>3. ASSUME NEW a \in Int PROVE a \in PageAt(address) <=> PageOf(a) = d
  <2>1. PICK q \in Int, r \in 0 .. size - 1 : a = q * size + r /\ q = a \div size
    <3>1. a \div size \in Int /\ a = (a \div size) * size + (a % size) /\ a % size \in 0 .. size - 1
      OBVIOUS
    <3> QED
      BY <3>1
  <2>2. a \in address .. address + size - 1 <=> q = d
    <3>1. CASE q = d
      BY <1>2, <2>1, <3>1
    <3>2. CASE q < d
      <4>1. (q + 1) * size =< d * size
        BY <3>2, MultipleOrder
      <4>2. (q + 1) * size = q * size + size
        OBVIOUS
      <4> QED
        BY <1>2, <2>1, <3>2, <4>1, <4>2
    <3>3. CASE d < q
      <4>1. (d + 1) * size =< q * size
        BY <3>3, MultipleOrder
      <4>2. (d + 1) * size = d * size + size
        OBVIOUS
      <4> QED
        BY <1>2, <2>1, <3>3, <4>1, <4>2
    <3> QED
      BY <3>1, <3>2, <3>3
  <2> QED
    BY <1>1, <2>1, <2>2 DEF PageAt, PageOf
<1>4. address \in PageAt(address)
  BY <1>1, <1>2 DEF PageAt
<1> QED
  BY <1>2, <1>3, <1>4

\* A visit of a page of the node.
PageVisit(visit, n) ==
    /\ visit.node = n
    /\ \E d \in Int : visit.address = d * PageSize
    /\ PageAt(visit.address) \subseteq Addresses(n.map)
    /\ pbegin(n.map) <= visit.address /\ visit.address + PageSize <= pend(n.map)

\* A node of whole pages is visited page by page.
LEMMA VisitsCover ==
    ASSUME NEW names, NEW flags, NEW snaps, NEW n \in NodesOf(MapsOf(names, flags), snaps),
           PagesOfRegion(n)
    PROVE  /\ \A k \in DOMAIN VisitsOf(n) : PageVisit(VisitsOf(n)[k], n)
           /\ \A a \in Addresses(n.map) :
                 \E k \in DOMAIN VisitsOf(n) : a \in PageAt(VisitsOf(n)[k].address)
<1> DEFINE top == (n.map.relativeSize + PageSize - 1) \div PageSize
           at(k) == tbegin(n.map) + (k - 1) * PageSize
<1>1. PICK size \in Nat \ {0} : size = PageSize
  BY PageSizeAssumption DEF PageSizeAssumption
<1>2. n.map \in MapsOf(names, flags)
  BY DEF NodesOf
<1>3. PICK parent \in Int, limit \in Int, start \in Int, length \in Int :
        /\ parent = pbegin(n.map) /\ limit = pend(n.map) /\ start = tbegin(n.map)
        /\ length = n.map.relativeSize /\ tend(n.map) = start + length
  BY <1>2 DEF MapsOf, pbegin, pend, tbegin, tend
<1>4. parent <= start /\ start + length <= limit /\ start % size = 0 /\ length % size = 0
  BY <1>1, <1>3 DEF PagesOfRegion, WithinRegion
<1>5. ASSUME NEW x \in Int, x % size = 0 PROVE \E q \in Int : x = q * size
  <2>1. x \div size \in Int /\ x = (x \div size) * size + (x % size)
    OBVIOUS
  <2> QED
    BY <1>5, <2>1
<1>6. PICK first \in Int, count \in Int : start = first * size /\ length = count * size
  BY <1>4, <1>5
<1>7. top = count
  <2>1. PICK x \in Int : x = count * size + (size - 1)
    OBVIOUS
  <2>2. x = n.map.relativeSize + PageSize - 1
    BY <1>1, <1>3, <1>6, <2>1
  <2>3. PICK q \in Int, r \in 0 .. size - 1 : x = q * size + r /\ q = x \div size
    <3>1. x \div size \in Int /\ x = (x \div size) * size + (x % size) /\ x % size \in 0 .. size - 1
      OBVIOUS
    <3> QED
      BY <3>1
  <2>4. q = count
    <3>1. CASE q < count
      <4>1. (q + 1) * size =< count * size
        BY <3>1, MultipleOrder
      <4>2. (q + 1) * size = q * size + size
        OBVIOUS
      <4> QED
        BY <2>1, <2>3, <4>1, <4>2
    <3>2. CASE count < q
      <4>1. (count + 1) * size =< q * size
        BY <3>2, MultipleOrder
      <4>2. (count + 1) * size = count * size + size
        OBVIOUS
      <4> QED
        BY <2>1, <2>3, <4>1, <4>2
    <3> QED
      BY <3>1, <3>2
  <2> QED
    BY <1>1, <2>2, <2>3, <2>4
<1>8. VisitsOf(n) = [k \in 1 .. count |-> [node |-> n, address |-> at(k)]]
  <2>1. PageAddresses(n.map) = [k \in 1 .. top |-> at(k)]
    BY DEF PageAddresses
  <2> HIDE DEF top, at
  <2> QED
    BY <1>7, <2>1 DEF VisitsOf
<1>9. \A k \in 1 .. count : at(k) = start + (k - 1) * size
  BY <1>1, <1>3
<1> HIDE DEF at
<1>10. DOMAIN VisitsOf(n) = 1 .. count
       /\ \A k \in 1 .. count : VisitsOf(n)[k].node = n
                                /\ VisitsOf(n)[k].address = start + (k - 1) * size
  BY <1>8, <1>9
<1>11. Addresses(n.map) = start .. start + length - 1
  BY <1>3 DEF Addresses
<1>12. ASSUME NEW k \in 1 .. count PROVE PageVisit(VisitsOf(n)[k], n)
  <2>1. PICK address \in Int : address = start + (k - 1) * size
    OBVIOUS
  <2>2. address = (first + (k - 1)) * size /\ first + (k - 1) \in Int
    BY <1>6, <2>1
  <2>3. start <= address /\ address + size <= start + length
    <3>1. 0 * size =< (k - 1) * size /\ k * size =< count * size
      BY MultipleOrder
    <3>2. k * size = (k - 1) * size + size /\ 0 * size = 0 /\ (k - 1) * size \in Int
      OBVIOUS
    <3> QED
      BY <1>6, <2>1, <3>1, <3>2
  <2>4. PICK visit : visit = VisitsOf(n)[k]
    OBVIOUS
  <2>5. visit.node = n /\ visit.address = address
    BY <1>10, <2>1, <2>4
  <2>6. PageAt(visit.address) \subseteq Addresses(n.map)
    BY <1>1, <1>11, <2>3, <2>5 DEF PageAt
  <2>7. pbegin(n.map) <= visit.address /\ visit.address + PageSize <= pend(n.map)
    BY <1>1, <1>3, <1>4, <2>3, <2>5
  <2> QED
    BY <1>1, <2>2, <2>4, <2>5, <2>6, <2>7 DEF PageVisit
<1>13. ASSUME NEW a \in Addresses(n.map)
       PROVE  \E k \in DOMAIN VisitsOf(n) : a \in PageAt(VisitsOf(n)[k].address)
  <2>1. PICK offset \in Int : a = start + offset /\ 0 <= offset /\ offset < length
    BY <1>11
  <2>2. PICK q \in Int, r \in 0 .. size - 1 : offset = q * size + r
    <3>1. /\ offset \div size \in Int /\ offset = (offset \div size) * size + (offset % size)
          /\ offset % size \in 0 .. size - 1
      OBVIOUS
    <3> QED
      BY <3>1
  <2>3. 0 <= q /\ q < count
    <3>1. ASSUME q < 0 PROVE FALSE
      <4>1. (q + 1) * size =< 0 * size /\ (q + 1) * size = q * size + size /\ 0 * size = 0
        BY <3>1, MultipleOrder
      <4> QED
        BY <2>1, <2>2, <4>1
    <3>2. ASSUME count <= q PROVE FALSE
      <4>1. count * size =< q * size
        BY <3>2, MultipleOrder
      <4> QED
        BY <1>6, <2>1, <2>2, <4>1
    <3> QED
      BY <3>1, <3>2
  <2>4. PICK k \in 1 .. count : k = q + 1
    BY <2>3
  <2>5. VisitsOf(n)[k].address = start + q * size
    BY <1>10, <2>4
  <2>6. a \in PageAt(VisitsOf(n)[k].address)
    BY <1>1, <2>1, <2>2, <2>5 DEF PageAt
  <2> QED
    BY <1>10, <2>6
<1> QED
  BY <1>10, <1>12, <1>13

\* The regions so far keep to their own.
InRegions(regions) ==
    \A i \in DOMAIN regions : WithinRegion(regions[i]) /\ regions[i].map.relativeSize \in Nat

\* The last region ends where the page visited starts, if their offsets tell.
Extends(regions, visit) ==
    /\ Len(regions) > 0
    /\ rend(regions[Len(regions)].map) = visit.address - visit.node.map.parentAddress

\* The last region ends with the page visited.
EndsWith(regions, visit) ==
    /\ Len(regions) > 0
    /\ SameRegion(regions[Len(regions)], visit.node)
    /\ tend(regions[Len(regions)].map) = visit.address + PageSize

\* A page is added to what the regions hold.
PageAdded(regions, longer, visit) ==
    /\ InRegions(longer) /\ EndsWith(longer, visit)
    /\ Held(longer) = Held(regions) \cup PageAt(visit.address)

LEMMA AddPageHolds ==
    ASSUME NEW names, NEW flags, NEW snaps,
           NEW regions \in Seq(NodesOf(MapsOf(names, flags), snaps)), InRegions(regions),
           NEW visit \in [node : NodesOf(MapsOf(names, flags), snaps), address : Int],
           NEW n, PageVisit(visit, n),
           Extends(regions, visit) => SameRegion(regions[Len(regions)], visit.node),
           NEW longer, longer = AddPage(regions, visit)
    PROVE  PageAdded(regions, longer, visit)
<1> DEFINE M == MapsOf(names, flags)
           N == NodesOf(M, snaps)
           last == Len(regions)
           joins == last > 0 /\ rend(regions[last].map)
                                  = visit.address - visit.node.map.parentAddress
<1>1. PICK size \in Nat \ {0} : size = PageSize
  BY PageSizeAssumption DEF PageSizeAssumption
<1>2. last \in Nat /\ DOMAIN regions = 1 .. last
  OBVIOUS
<1>3. visit.node \in N /\ visit.address \in Int
  OBVIOUS
<1>4. visit.node.map \in M
  <2> HIDE DEF M
  <2> QED
    BY <1>3 DEF NodesOf
<1>5. PICK address \in Int, parent \in Int, parentSize \in Int :
        /\ address = visit.address /\ parent = visit.node.map.parentAddress
        /\ parentSize = visit.node.map.parentSize
  BY <1>3, <1>4 DEF MapsOf
<1>6. parent <= address /\ address + size <= parent + parentSize
  BY <1>1, <1>5 DEF PageVisit, pbegin, pend
<1>7. PageAt(visit.address) = address .. address + size - 1
  BY <1>1, <1>5 DEF PageAt
<1>8. CASE joins
  <2>1. last \in DOMAIN regions
    BY <1>2, <1>8
  <2>2. regions[last].map \in M
    <3>1. regions[last] \in N
      BY <2>1
    <3> HIDE DEF M
    <3> QED
      BY <3>1 DEF NodesOf
  <2>3. SameRegion(regions[last], visit.node)
    BY <1>8 DEF Extends
  <2>4. PICK old : old = regions[last].map
    OBVIOUS
  <2>5. PICK start \in Int, had \in Nat :
          /\ start = old.relativeAddress /\ had = old.relativeSize
          /\ old.parentAddress = parent /\ old.parentSize \in Int
          /\ parent + old.parentSize = parent + parentSize
          /\ 0 <= start
    <3>1. /\ old.relativeAddress \in Int /\ old.parentAddress \in Int /\ old.parentSize \in Int
          /\ old.relativeSize \in Nat
      BY <2>1, <2>2, <2>4 DEF MapsOf, InRegions
    <3>2. /\ old.parentAddress = parent
          /\ old.parentAddress + old.parentSize = parent + parentSize
      BY <1>5, <2>3, <2>4 DEF SameRegion, pbegin, pend
    <3>3. old.parentAddress <= old.parentAddress + old.relativeAddress
      BY <2>1, <2>4 DEF InRegions, WithinRegion, pbegin, tbegin
    <3> QED
      BY <3>1, <3>2, <3>3
  <2>6. parent + start + had = address
    <3>1. rend(old) = start + had
      BY <2>5 DEF rend
    <3>2. rend(old) = address - parent
      BY <1>5, <1>8, <2>4
    <3> QED
      BY <3>1, <3>2
  <2>7. PICK sum \in Nat : sum = had + size
    OBVIOUS
  <2>8. /\ DOMAIN longer = DOMAIN regions
        /\ \A k \in DOMAIN regions : k # last => longer[k] = regions[k]
        /\ longer[last].map = [old EXCEPT !.relativeSize = sum]
    <3>1. longer = Lengthen(regions, last, PageSize)
      BY <1>8 DEF AddPage, Lengthen
    <3>2. PageSize \in Int
      BY <1>1
    <3> HIDE DEF last
    <3> QED
      BY <1>1, <2>1, <2>4, <2>5, <2>7, <3>1, <3>2, Lengthened
  <2>9. PICK new : new = longer[last].map
    OBVIOUS
  <2>10. /\ new.parentAddress = parent /\ new.parentSize = old.parentSize
         /\ new.relativeAddress = start /\ new.relativeSize = sum
    BY <2>2, <2>4, <2>5, <2>8, <2>9 DEF MapsOf
  <2>11. /\ pbegin(new) = parent /\ pend(new) = parent + parentSize
         /\ tbegin(new) = parent + start /\ tend(new) = address + size
    <3>1. pbegin(new) = parent /\ pend(new) = parent + parentSize
      BY <2>5, <2>10 DEF pbegin, pend
    <3>2. tbegin(new) = parent + start /\ tend(new) = parent + start + sum
      BY <2>10 DEF tbegin, tend
    <3> QED
      BY <2>6, <2>7, <3>1, <3>2
  <2>12. /\ Addresses(old) = parent + start .. address - 1
         /\ Addresses(new) = parent + start .. address + size - 1
    <3>1. tbegin(old) = parent + start /\ tend(old) = address
      BY <2>5, <2>6 DEF tbegin, tend
    <3> QED
      BY <2>11, <3>1 DEF Addresses
  <2>13. Addresses(new) = Addresses(old) \cup PageAt(visit.address)
    <3>1. PICK low \in Int : low = parent + start /\ low <= address
      BY <2>5, <2>6
    <3>2. low .. address + size - 1 = (low .. address - 1) \cup (address .. address + size - 1)
      BY <3>1
    <3> QED
      BY <1>7, <2>12, <3>1, <3>2
  <2>14. Len(longer) = last
    <3>1. longer \in Seq(N)
      BY AddPageNodes
    <3>2. ASSUME NEW T, NEW s \in Seq(T), NEW m \in Nat, DOMAIN s = 1 .. m PROVE Len(s) = m
      BY <3>2
    <3> HIDE DEF N, last
    <3> QED
      BY <1>2, <2>8, <3>1, <3>2
  <2>15. InRegions(longer)
    <3>1. WithinRegion(longer[last]) /\ longer[last].map.relativeSize \in Nat
      BY <1>6, <2>5, <2>9, <2>10, <2>11 DEF WithinRegion
    <3> QED
      BY <2>8, <3>1 DEF InRegions
  <2>16. EndsWith(longer, visit)
    <3>1. /\ pbegin(visit.node.map) = parent /\ pend(visit.node.map) = parent + parentSize
      BY <1>5 DEF pbegin, pend
    <3> QED
      BY <1>1, <1>5, <1>8, <2>9, <2>11, <2>14, <3>1 DEF EndsWith, SameRegion
  <2>17. ASSUME NEW a
         PROVE  a \in Held(longer) <=> a \in Held(regions) \cup PageAt(visit.address)
    <3>1. /\ a \in Held(longer) <=> \E k \in DOMAIN regions : a \in Addresses(longer[k].map)
          /\ a \in Held(regions) <=> \E k \in DOMAIN regions : a \in Addresses(regions[k].map)
      BY <2>8 DEF Held
    <3>2. Addresses(longer[last].map) = Addresses(regions[last].map) \cup PageAt(visit.address)
      BY <2>4, <2>9, <2>13
    <3>3. \A k \in DOMAIN regions : k # last =>
             Addresses(longer[k].map) = Addresses(regions[k].map)
      BY <2>8
    <3> HIDE DEF last
    <3> QED
      BY <2>1, <3>1, <3>2, <3>3
  <2>18. Held(longer) = Held(regions) \cup PageAt(visit.address)
    BY <2>17
  <2> QED
    BY <2>15, <2>16, <2>18 DEF PageAdded
<1>9. CASE ~joins
  <2>1. PICK offset \in Int : offset = visit.address - visit.node.map.parentAddress
    BY <1>5
  <2>2. PICK added : added = [visit.node EXCEPT !.map.relativeSize = PageSize,
                                                !.map.relativeAddress = offset]
    OBVIOUS
  <2>3. longer = Append(regions, added)
    BY <1>9, <2>1, <2>2 DEF AddPage
  <2>4. /\ DOMAIN longer = 1 .. last + 1 /\ longer[last + 1] = added /\ Len(longer) = last + 1
        /\ \A k \in DOMAIN regions : longer[k] = regions[k]
    <3>1. ASSUME NEW T, NEW seq \in Seq(T), NEW e
          PROVE  /\ DOMAIN Append(seq, e) = 1 .. Len(seq) + 1
                 /\ Len(Append(seq, e)) = Len(seq) + 1
                 /\ Append(seq, e)[Len(seq) + 1] = e
                 /\ \A k \in DOMAIN seq : Append(seq, e)[k] = seq[k]
      OBVIOUS
    <3> QED
      BY <2>3, <3>1
  <2>5. PICK new : new = added.map
    OBVIOUS
  <2>6. /\ new.parentAddress = parent /\ new.parentSize = parentSize
        /\ new.relativeAddress = offset /\ new.relativeSize = size
    <3>1. new = [[visit.node.map EXCEPT !.relativeSize = PageSize] EXCEPT !.relativeAddress = offset]
      <4> HIDE DEF M
      <4> QED
        BY <1>3, <2>2, <2>5 DEF NodesOf
    <3> QED
      BY <1>1, <1>4, <1>5, <3>1 DEF MapsOf
  <2>7. /\ pbegin(new) = parent /\ pend(new) = parent + parentSize
         /\ tbegin(new) = address /\ tend(new) = address + size
    <3>1. pbegin(new) = parent /\ pend(new) = parent + parentSize
      BY <2>6 DEF pbegin, pend
    <3>2. tbegin(new) = parent + offset /\ tend(new) = parent + offset + size
      BY <2>6 DEF tbegin, tend
    <3>3. parent + offset = address
      BY <1>5, <2>1
    <3> QED
      BY <3>1, <3>2, <3>3
  <2>8. Addresses(new) = PageAt(visit.address)
    BY <1>7, <2>7 DEF Addresses
  <2>9. InRegions(longer)
    <3>1. WithinRegion(longer[last + 1]) /\ longer[last + 1].map.relativeSize \in Nat
      BY <1>6, <2>4, <2>5, <2>6, <2>7 DEF WithinRegion
    <3> QED
      BY <1>2, <2>4, <3>1 DEF InRegions
  <2>10. EndsWith(longer, visit)
    <3>1. /\ pbegin(visit.node.map) = parent /\ pend(visit.node.map) = parent + parentSize
      BY <1>5 DEF pbegin, pend
    <3> QED
      BY <1>1, <1>2, <1>5, <2>4, <2>5, <2>7, <3>1 DEF EndsWith, SameRegion
  <2>11. ASSUME NEW a
         PROVE  a \in Held(longer) <=> a \in Held(regions) \cup PageAt(visit.address)
    <3>1. /\ a \in Held(longer) <=> \E k \in 1 .. last + 1 : a \in Addresses(longer[k].map)
          /\ a \in Held(regions) <=> \E k \in DOMAIN regions : a \in Addresses(regions[k].map)
      BY <2>4 DEF Held
    <3>2. Addresses(longer[last + 1].map) = PageAt(visit.address)
      BY <2>4, <2>5, <2>8
    <3>3. /\ \A k \in DOMAIN regions : Addresses(longer[k].map) = Addresses(regions[k].map)
          /\ \A k \in DOMAIN regions : k \in 1 .. last + 1
          /\ \A k \in 1 .. last + 1 : k \in DOMAIN regions \/ k = last + 1
          /\ last + 1 \in 1 .. last + 1
      BY <1>2, <2>4
    <3> HIDE DEF last
    <3> QED
      BY <3>1, <3>2, <3>3
  <2>12. Held(longer) = Held(regions) \cup PageAt(visit.address)
    BY <2>11
  <2> QED
    BY <2>9, <2>10, <2>12 DEF PageAdded
<1> QED
  BY <1>8, <1>9

\* When the one visit ends where the other starts, both by their offsets and both
\* seen, they are in one region.
Unconfused(v, w, seen) ==
    (/\ PageOf(v.address) \in seen /\ PageOf(w.address) \in seen
     /\ v.address + PageSize - pbegin(v.node.map) = w.address - pbegin(w.node.map))
    => SameRegion(v.node, w.node)

NotConfused(V, seen) == {p \in V \X V : Unconfused(p[1], p[2], seen)}

LEMMA VisitsOrdered ==
    ASSUME NEW names, NEW flags, NEW snaps,
           NEW nodes \in Seq(NodesOf(MapsOf(names, flags), snaps)), NEW seen,
           \A i \in DOMAIN nodes : PagesOfRegion(nodes[i]), ~Confusable(nodes, seen)
    PROVE  Ordered(Visits(nodes), NotConfused([node : NodesOf(MapsOf(names, flags), snaps),
                                               address : Int], seen))
<1> DEFINE N == NodesOf(MapsOf(names, flags), snaps)
           V == [node : N, address : Int]
           R == NotConfused(V, seen)
<1>1. PICK all : all = [i \in DOMAIN nodes |-> VisitsOf(nodes[i])]
  OBVIOUS
<1>2. /\ all \in Seq(Seq(V)) /\ DOMAIN all = DOMAIN nodes /\ Visits(nodes) = FlattenSeq(all)
      /\ \A i \in DOMAIN nodes : all[i] = VisitsOf(nodes[i])
  BY <1>1, VisitsTyped
<1>3. \A i \in DOMAIN nodes : nodes[i] \in N
  <2>1. ASSUME NEW T, NEW seq \in Seq(T), NEW k \in DOMAIN seq PROVE seq[k] \in T
    OBVIOUS
  <2>2. nodes \in Seq(N)
    OBVIOUS
  <2> HIDE DEF N
  <2> QED
    BY <2>1, <2>2, Zenon
<1>4. ASSUME NEW i \in DOMAIN nodes, NEW k \in DOMAIN all[i]
      PROVE  all[i][k] \in V /\ PageVisit(all[i][k], nodes[i])
  <2>1. all[i] \in Seq(V)
    BY <1>2, <1>3, VisitsOfNode
  <2>2. ASSUME NEW T, NEW seq \in Seq(T), NEW j \in DOMAIN seq PROVE seq[j] \in T
    OBVIOUS
  <2>3. all[i][k] \in V
    <3> HIDE DEF V
    <3> QED
      BY <2>1, <2>2, Zenon
  <2> QED
    BY <1>2, <1>3, <2>3, VisitsCover
<1>5. ASSUME NEW i \in DOMAIN nodes PROVE Ordered(all[i], R)
  <2>1. ASSUME NEW p \in DOMAIN all[i], NEW q \in DOMAIN all[i]
        PROVE  <<all[i][p], all[i][q]>> \in R
    <3>1. PICK v, w : v = all[i][p] /\ w = all[i][q]
      OBVIOUS
    <3>2. v \in V /\ w \in V /\ v.node = w.node
      BY <1>4, <3>1 DEF PageVisit
    <3>3. Unconfused(v, w, seen)
      BY <3>2 DEF Unconfused, SameRegion
    <3> HIDE DEF V
    <3> QED
      BY <3>1, <3>2, <3>3 DEF NotConfused
  <2> QED
    BY <2>1 DEF Ordered
<1>6. ASSUME NEW i \in DOMAIN nodes, NEW j \in DOMAIN nodes, i < j
      PROVE  Related(all[i], all[j], R)
  <2>1. ASSUME NEW p \in DOMAIN all[i], NEW q \in DOMAIN all[j]
        PROVE  <<all[i][p], all[j][q]>> \in R
    <3>1. PICK v, w : v = all[i][p] /\ w = all[j][q]
      OBVIOUS
    <3>2. v \in V /\ w \in V /\ PageVisit(v, nodes[i]) /\ PageVisit(w, nodes[j])
      BY <1>4, <3>1
    <3>3. Unconfused(v, w, seen)
      <4> SUFFICES ASSUME PageOf(v.address) \in seen, PageOf(w.address) \in seen,
                          v.address + PageSize - pbegin(v.node.map)
                            = w.address - pbegin(w.node.map),
                          ~SameRegion(v.node, w.node)
                   PROVE  FALSE
        BY DEF Unconfused
      <4>1. v.node = nodes[i] /\ w.node = nodes[j]
        BY <3>2 DEF PageVisit
      <4>2. PICK d \in Int : v.address = d * PageSize
        BY <3>2 DEF PageVisit
      <4>3. PICK e \in Int : w.address = e * PageSize
        BY <3>2 DEF PageVisit
      <4>4. /\ PageOf(v.address) = d /\ v.address \in Int
            /\ PageOf(w.address) = e /\ w.address \in Int
        BY <4>2, <4>3, PageFacts
      <4>5. v.address \in PageAt(v.address) /\ w.address \in PageAt(w.address)
        BY <4>2, <4>3, <4>4, PageFacts
      <4>6. d \in SeenPages(nodes[i], seen) /\ e \in SeenPages(nodes[j], seen)
        BY <3>2, <4>2, <4>3, <4>4, <4>5 DEF SeenPages, PageVisit
      <4>7. (d + 1) * PageSize = v.address + PageSize
        BY <4>2, PageSizeAssumption DEF PageSizeAssumption
      <4>8. (d + 1) * PageSize - pbegin(nodes[i].map) = e * PageSize - pbegin(nodes[j].map)
        <5>1. PICK size \in Int : size = PageSize
          BY PageSizeAssumption DEF PageSizeAssumption
        <5>2. nodes[i].map \in MapsOf(names, flags) /\ nodes[j].map \in MapsOf(names, flags)
          <6> HIDE DEF V
          <6> QED
            BY <1>3 DEF NodesOf
        <5>3. PICK b \in Int, c \in Int : b = pbegin(nodes[i].map) /\ c = pbegin(nodes[j].map)
          BY <5>2 DEF MapsOf, pbegin
        <5>4. PICK x \in Int, y \in Int : x = v.address /\ y = w.address
          BY <4>4
        <5>5. x + size - b = y - c /\ (d + 1) * size = x + size /\ y = e * size
          BY <4>1, <4>3, <4>7, <5>1, <5>3, <5>4
        <5>6. (d + 1) * size - b = e * size - c
          BY <5>5
        <5> QED
          BY <5>1, <5>3, <5>6
      <4> QED
        BY <1>6, <4>1, <4>6, <4>8 DEF Confusable
    <3> HIDE DEF V
    <3> QED
      BY <3>1, <3>2, <3>3 DEF NotConfused
  <2> QED
    BY <2>1 DEF Related
<1> HIDE DEF V, R
<1>7. Ordered(FlattenSeq(all), R)
  BY <1>2, <1>5, <1>6, FlattenedOrder
<1> QED
  BY <1>2, <1>7 DEF V, R

\* A page that seems to continue the last region does.
LEMMA ContinuesRegion ==
    ASSUME NEW names, NEW flags, NEW snaps,
           NEW regions \in Seq(NodesOf(MapsOf(names, flags), snaps)),
           NEW v \in [node : NodesOf(MapsOf(names, flags), snaps), address : Int],
           NEW w \in [node : NodesOf(MapsOf(names, flags), snaps), address : Int],
           NEW seen, PageOf(v.address) \in seen, PageOf(w.address) \in seen,
           EndsWith(regions, v), Extends(regions, w), Unconfused(v, w, seen)
    PROVE  SameRegion(regions[Len(regions)], w.node)
<1> DEFINE M == MapsOf(names, flags)
           N == NodesOf(M, snaps)
<1>1. PICK last : last = regions[Len(regions)]
  OBVIOUS
<1>2. last \in N /\ v.node \in N /\ w.node \in N /\ v.address \in Int /\ w.address \in Int
  BY <1>1 DEF EndsWith
<1>3. last.map \in M /\ v.node.map \in M /\ w.node.map \in M
  <2> HIDE DEF M
  <2> QED
    BY <1>2 DEF NodesOf
<1>4. /\ last.map.parentAddress \in Int /\ last.map.relativeAddress \in Int
      /\ last.map.relativeSize \in Int
      /\ v.node.map.parentAddress \in Int /\ w.node.map.parentAddress \in Int
  BY <1>3 DEF MapsOf
<1>5. SameRegion(last, v.node) /\ last.map.parentAddress = v.node.map.parentAddress
  BY <1>1 DEF EndsWith, SameRegion, pbegin
<1>6. tend(last.map) = v.address + PageSize
      /\ rend(last.map) = w.address - w.node.map.parentAddress
  BY <1>1 DEF EndsWith, Extends
<1>7. tend(last.map) = last.map.parentAddress + rend(last.map)
  BY <1>4 DEF tend, rend
<1>8. v.address + PageSize - pbegin(v.node.map) = w.address - pbegin(w.node.map)
  <2>1. PICK x \in Int, y \in Int, z \in Int :
          x = v.node.map.parentAddress /\ y = w.node.map.parentAddress /\ z = w.address
    BY <1>2, <1>4
  <2>2. PICK u \in Int, size \in Int : u = v.address /\ size = PageSize
    BY <1>2, PageSizeAssumption DEF PageSizeAssumption
  <2>3. u + size = x + (z - y)
    BY <1>5, <1>6, <1>7, <2>1, <2>2
  <2>4. u + size - x = z - y
    BY <2>3
  <2> QED
    BY <2>1, <2>2, <2>4 DEF pbegin
<1>9. SameRegion(v.node, w.node)
  BY <1>8 DEF Unconfused
<1> QED
  BY <1>1, <1>5, <1>9 DEF SameRegion

\* The visits of pages seen.
SeenVisits(visits, seen, k) == {j \in 1 .. k : PageOf(visits[j].address) \in seen}

\* The regions hold the pages seen on the first k visits, and end with one of them.
HoldVisits(regions, visits, seen, k) ==
    /\ InRegions(regions)
    /\ Held(regions) = UNION {PageAt(visits[j].address) : j \in SeenVisits(visits, seen, k)}
    /\ Len(regions) > 0 => \E j \in SeenVisits(visits, seen, k) : EndsWith(regions, visits[j])

LEMMA RegionsHold ==
    ASSUME NEW names, NEW flags, NEW snaps, NEW visits, NEW seen, NEW m \in Nat,
           m = Len(visits),
           \A k \in 1 .. m :
              /\ visits[k] \in [node : NodesOf(MapsOf(names, flags), snaps), address : Int]
              /\ \E n : PageVisit(visits[k], n),
           \A j, k \in 1 .. m : j < k => Unconfused(visits[j], visits[k], seen),
           NEW regions, regions = Regions(visits, seen)
    PROVE  HoldVisits(regions[m], visits, seen, m)
<1> DEFINE N == NodesOf(MapsOf(names, flags), snaps)
           V == [node : N, address : Int]
           Hold(k) == HoldVisits(regions[k], visits, seen, k)
           T == {k \in Nat : k <= m => Hold(k)}
<1>1. RegionsAfter(regions, visits, seen) /\ \A k \in 0 .. m : regions[k] \in Seq(N)
  BY RegionSteps
<1>2. 0 \in T
  <2>1. regions[0] = <<>> /\ SeenVisits(visits, seen, 0) = {}
    BY <1>1 DEF RegionsAfter, SeenVisits
  <2>2. PICK empty : empty = regions[0]
    OBVIOUS
  <2>3. DOMAIN empty = {} /\ Len(empty) = 0
    BY <2>1, <2>2
  <2>4. InRegions(empty) /\ Held(empty) = {}
    BY <2>3 DEF InRegions, Held
  <2> QED
    BY <2>1, <2>2, <2>3, <2>4 DEF HoldVisits
<1>3. ASSUME NEW k \in Nat, k \in T PROVE k + 1 \in T
  <2> SUFFICES ASSUME k + 1 <= m PROVE HoldVisits(regions[k + 1], visits, seen, k + 1)
    OBVIOUS
  <2>1. k \in 0 .. m /\ k + 1 \in 1 .. m /\ (k + 1) - 1 = k /\ \A j \in 1 .. k : j \in 1 .. m /\ j < k + 1
    OBVIOUS
  <2>2. HoldVisits(regions[k], visits, seen, k)
    <3> HIDE DEF Hold
    <3>1. Hold(k)
      BY <1>3, <2>1
    <3> QED
      BY <3>1 DEF Hold
  <2>3. PICK visit, old, new :
          visit = visits[k + 1] /\ old = regions[k] /\ new = regions[k + 1]
    OBVIOUS
  <2>4. /\ visit \in V /\ old \in Seq(N)
        /\ new = IF PageOf(visit.address) \in seen THEN AddPage(old, visit) ELSE old
    <3>1. visit \in V
      BY <2>1, <2>3
    <3> HIDE DEF N, V
    <3>2. old \in Seq(N)
      BY <1>1, <2>1, <2>3
    <3> QED
      BY <1>1, <2>1, <2>3, <3>1, <3>2 DEF RegionsAfter
  <2>5. PICK n : PageVisit(visit, n)
    BY <2>1, <2>3
  <2>6. CASE PageOf(visit.address) \in seen
    <3>1. Extends(old, visit) => SameRegion(old[Len(old)], visit.node)
      <4> SUFFICES ASSUME Extends(old, visit) PROVE SameRegion(old[Len(old)], visit.node)
        OBVIOUS
      <4>1. PICK j \in SeenVisits(visits, seen, k) : EndsWith(old, visits[j])
        BY <2>2, <2>3 DEF HoldVisits, Extends
      <4>2. j \in 1 .. m /\ j < k + 1 /\ PageOf(visits[j].address) \in seen
        BY <2>1 DEF SeenVisits
      <4>3. PICK v : v = visits[j]
        OBVIOUS
      <4>4. v \in V /\ Unconfused(v, visit, seen) /\ EndsWith(old, v)
            /\ PageOf(v.address) \in seen
        BY <2>1, <2>3, <4>1, <4>2, <4>3
      <4> HIDE DEF V
      <4>5. visit \in V /\ old \in Seq(N)
        BY <2>4
      <4> QED
        BY <2>6, <4>4, <4>5, ContinuesRegion DEF V
    <3>2. PageAdded(old, new, visit)
      <4>1. InRegions(old)
        BY <2>2, <2>3 DEF HoldVisits
      <4>2. new = AddPage(old, visit)
        BY <2>4, <2>6
      <4>3. visit \in V /\ old \in Seq(N)
        BY <2>4
      <4> QED
        BY <2>5, <3>1, <4>1, <4>2, <4>3, AddPageHolds
    <3>3. SeenVisits(visits, seen, k + 1) = SeenVisits(visits, seen, k) \cup {k + 1}
      BY <2>3, <2>6 DEF SeenVisits
    <3>4. Held(new) = UNION {PageAt(visits[j].address) : j \in SeenVisits(visits, seen, k + 1)}
      <4>1. Held(old) = UNION {PageAt(visits[j].address) : j \in SeenVisits(visits, seen, k)}
        BY <2>2, <2>3 DEF HoldVisits
      <4>2. Held(new) = Held(old) \cup PageAt(visits[k + 1].address)
        BY <2>3, <3>2 DEF PageAdded
      <4> QED
        BY <3>3, <4>1, <4>2
    <3>5. k + 1 \in SeenVisits(visits, seen, k + 1) /\ EndsWith(new, visits[k + 1])
      BY <2>3, <3>2, <3>3 DEF PageAdded
    <3>6. InRegions(new)
      BY <3>2 DEF PageAdded
    <3> QED
      BY <2>3, <3>4, <3>5, <3>6 DEF HoldVisits
  <2>7. CASE ~(PageOf(visit.address) \in seen)
    <3>1. SeenVisits(visits, seen, k + 1) = SeenVisits(visits, seen, k)
      BY <2>3, <2>7 DEF SeenVisits
    <3> QED
      BY <2>2, <2>3, <2>4, <2>7, <3>1 DEF HoldVisits
  <2> QED
    BY <2>6, <2>7
<1>4. m \in T
  <2> HIDE DEF T
  <2> QED
    BY <1>2, <1>3, NatSetInduction
<1> HIDE DEF Hold
<1>5. Hold(m)
  BY <1>4
<1> QED
  BY <1>5 DEF Hold

\* The filter keeps the pages seen, each in its region.
LEMMA ActiveKeeps ==
    ASSUME NEW names, NEW flags, NEW snaps,
           NEW nodes \in Seq(NodesOf(MapsOf(names, flags), snaps)), NEW seen,
           \A i \in DOMAIN nodes : PagesOfRegion(nodes[i]), ~Confusable(nodes, seen)
    PROVE  KeepsSeen(nodes, seen, active(nodes, seen))
<1> DEFINE N == NodesOf(MapsOf(names, flags), snaps)
           V == [node : N, address : Int]
           R == NotConfused(V, seen)
<1>1. PICK all : all = [i \in DOMAIN nodes |-> VisitsOf(nodes[i])]
  OBVIOUS
<1>2. PICK visits, regions : visits = Visits(nodes) /\ regions = Regions(visits, seen)
  OBVIOUS
<1>3. /\ all \in Seq(Seq(V)) /\ DOMAIN all = DOMAIN nodes /\ visits = FlattenSeq(all)
      /\ visits \in Seq(V) /\ \A i \in DOMAIN nodes : all[i] = VisitsOf(nodes[i])
  BY <1>1, <1>2, VisitsTyped
<1>4. \A i \in DOMAIN nodes : nodes[i] \in N
  <2>1. ASSUME NEW T, NEW seq \in Seq(T), NEW k \in DOMAIN seq PROVE seq[k] \in T
    OBVIOUS
  <2>2. nodes \in Seq(N)
    OBVIOUS
  <2> HIDE DEF N
  <2> QED
    BY <2>1, <2>2, Zenon
<1>5. ASSUME NEW i \in DOMAIN nodes
      PROVE  /\ \A k \in DOMAIN all[i] : PageVisit(all[i][k], nodes[i])
             /\ \A a \in Addresses(nodes[i].map) :
                   \E k \in DOMAIN all[i] : a \in PageAt(all[i][k].address)
  <2>1. PICK n \in N : n = nodes[i]
    BY <1>4
  <2>2. PagesOfRegion(n) /\ all[i] = VisitsOf(n)
    BY <1>3, <2>1
  <2> QED
    BY <2>1, <2>2, VisitsCover
<1>6. PICK m \in Nat : /\ m = Len(visits) /\ DOMAIN visits = 1 .. m
                       /\ \A k \in 1 .. m : visits[k] \in V
  <2> HIDE DEF V
  <2> QED
    BY <1>3
<1>7. /\ \A i \in DOMAIN nodes : \A k \in DOMAIN all[i] : \E j \in 1 .. m : visits[j] = all[i][k]
      /\ \A j \in 1 .. m : \E i \in DOMAIN nodes : \E k \in DOMAIN all[i] : visits[j] = all[i][k]
  <2> HIDE DEF V
  <2>1. /\ \A i \in DOMAIN all : Within(all[i], FlattenSeq(all))
        /\ \A j \in DOMAIN FlattenSeq(all) : \E i \in DOMAIN all : \E k \in DOMAIN all[i] :
              FlattenSeq(all)[j] = all[i][k]
    BY <1>3, Flattened, FlattenedElements
  <2>2. /\ \A i \in DOMAIN nodes : Within(all[i], visits)
        /\ \A j \in 1 .. m : \E i \in DOMAIN nodes : \E k \in DOMAIN all[i] :
              visits[j] = all[i][k]
    BY <1>3, <1>6, <2>1, Zenon
  <2>3. ASSUME NEW i \in DOMAIN nodes, NEW k \in DOMAIN all[i]
        PROVE  \E j \in 1 .. m : visits[j] = all[i][k]
    <3>1. PICK j \in DOMAIN visits : visits[j] = all[i][k]
      BY <2>2 DEF Within
    <3> QED
      BY <1>6, <3>1
  <2> QED
    BY <2>2, <2>3
<1>8. \A j, k \in 1 .. m : j < k => Unconfused(visits[j], visits[k], seen)
  <2>1. Ordered(visits, R)
    BY <1>2, VisitsOrdered
  <2> HIDE DEF V
  <2> QED
    BY <1>6, <2>1 DEF Ordered, NotConfused
<1>9. \A k \in 1 .. m : \E i \in DOMAIN nodes : PageVisit(visits[k], nodes[i])
  BY <1>5, <1>7
<1>10. active(nodes, seen) = regions[m]
  BY <1>2, <1>6 DEF active, Regions
<1>11. HoldVisits(regions[m], visits, seen, m)
  <2>1. \A k \in 1 .. m : visits[k] \in V /\ \E n : PageVisit(visits[k], n)
    BY <1>6, <1>9
  <2> QED
    BY <1>2, <1>6, <1>8, <2>1, RegionsHold
<1>12. ASSUME NEW a PROVE a \in Held(regions[m]) <=> a \in Held(nodes) /\ PageOf(a) \in seen
  <2>1. a \in Held(regions[m])
          <=> \E j \in 1 .. m : PageOf(visits[j].address) \in seen /\ a \in PageAt(visits[j].address)
    BY <1>11 DEF HoldVisits, SeenVisits
  <2>2. ASSUME NEW j \in 1 .. m, a \in PageAt(visits[j].address)
        PROVE  PageOf(a) = PageOf(visits[j].address) /\ a \in Held(nodes)
    <3>1. PICK i \in DOMAIN nodes : PageVisit(visits[j], nodes[i])
      BY <1>9
    <3>2. PICK d \in Int : visits[j].address = d * PageSize
      BY <3>1 DEF PageVisit
    <3>3. PICK address : address = visits[j].address
      OBVIOUS
    <3>4. address \in Int /\ a \in PageAt(address) /\ address = d * PageSize
      BY <2>2, <3>2, <3>3, PageFacts
    <3>5. a \in Int
      BY <3>4, PageSizeAssumption DEF PageAt, PageSizeAssumption
    <3>6. PageOf(a) = d /\ PageOf(address) = d
      BY <3>4, <3>5, PageFacts
    <3>7. a \in Addresses(nodes[i].map)
      BY <2>2, <3>1 DEF PageVisit
    <3> QED
      BY <3>3, <3>6, <3>7 DEF Held
  <2>3. ASSUME a \in Held(nodes) PROVE \E j \in 1 .. m : a \in PageAt(visits[j].address)
    <3>1. PICK i \in DOMAIN nodes : a \in Addresses(nodes[i].map)
      BY <2>3 DEF Held
    <3>2. PICK k \in DOMAIN all[i] : a \in PageAt(all[i][k].address)
      BY <1>5, <3>1
    <3> QED
      BY <1>7, <3>2
  <2> QED
    BY <2>1, <2>2, <2>3
<1>13. Held(regions[m]) = {a \in Held(nodes) : PageOf(a) \in seen}
  BY <1>12
<1>14. \A i \in DOMAIN regions[m] : WithinRegion(regions[m][i])
  BY <1>11 DEF HoldVisits, InRegions
<1> QED
  BY <1>10, <1>13, <1>14 DEF KeepsSeen
=============================================================================
