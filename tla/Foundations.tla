----------------------------- MODULE Foundations ------------------------------
(***************************************************************************)
(* What the theorems about recursive definitions rest on: induction, sums    *)
(* over finite sets, multiples.  The library's induction theorems take the   *)
(* property as an operator; here it is the set of the numbers that have it,  *)
(* and the induction is the existence of a least number outside that set.    *)
(***************************************************************************)
EXTENDS Integers, FiniteSetsExt, FiniteSetTheorems, WellFoundedInduction, TLAPS

\* A set with 0 in it, and with n + 1 whenever n is, has every natural number.
LEMMA NatSetInduction ==
    ASSUME NEW S, 0 \in S, \A n \in Nat : n \in S => n + 1 \in S
    PROVE  Nat \subseteq S
<1> DEFINE T == Nat \ S
           R == {p \in Nat \X Nat : p[1] < p[2]}
<1>1. IsWellFoundedOn(R, Nat)
  BY NatLessThanWellFounded DEF OpToRel
<1>2. SUFFICES ASSUME T # {} PROVE FALSE
  OBVIOUS
<1>3. PICK x \in T : \A y \in T : ~(<<y, x>> \in R)
  <2> HIDE DEF R
  <2> QED
    BY <1>1, <1>2, WFMin
<1>4. x # 0 /\ x - 1 \in Nat /\ <<x - 1, x>> \in R
  BY <1>3
<1>5. x - 1 \in S
  BY <1>3, <1>4
<1> QED
  BY <1>3, <1>4, <1>5

\* A function on 0 .. n may be defined by its value at 0 and, for the others, by
\* the value before: step[k] makes the value at k of the value at k - 1.
Steps(n, S) == [1 .. n -> [S -> S]]

LEMMA PrefixRecursion ==
    ASSUME NEW n \in Nat, NEW S, NEW base \in S, NEW step \in Steps(n, S)
    PROVE  \E g \in [0 .. n -> S] :
              g[0] = base /\ \A k \in 1 .. n : g[k] = step[k][g[k - 1]]
<1> DEFINE Defined(g, m) == g[0] = base /\ \A k \in 1 .. m : g[k] = step[k][g[k - 1]]
           T == {m \in Nat : m =< n => \E g \in [0 .. m -> S] : Defined(g, m)}
<1>1. 0 \in T
  <2>1. [k \in 0 .. 0 |-> base] \in [0 .. 0 -> S]
        /\ Defined([k \in 0 .. 0 |-> base], 0)
    OBVIOUS
  <2> QED
    BY <2>1
<1>2. ASSUME NEW m \in Nat, m \in T PROVE m + 1 \in T
  <2> SUFFICES ASSUME m + 1 =< n PROVE \E g \in [0 .. m + 1 -> S] : Defined(g, m + 1)
    OBVIOUS
  <2>1. PICK g \in [0 .. m -> S] : Defined(g, m)
    BY <1>2
  <2> DEFINE h == [k \in 0 .. m + 1 |-> IF k =< m THEN g[k] ELSE step[m + 1][g[m]]]
  <2>2. step[m + 1] \in [S -> S] /\ g[m] \in S
    BY <2>1 DEF Steps
  <2>3. h \in [0 .. m + 1 -> S]
    BY <2>1, <2>2
  <2>4. ASSUME NEW k \in 1 .. m + 1 PROVE h[k] = step[k][h[k - 1]]
    BY <2>1, <2>2
  <2>5. h[0] = base
    BY <2>1
  <2> HIDE DEF h
  <2> QED
    BY <2>3, <2>4, <2>5
<1>3. n \in T
  <2> HIDE DEF T
  <2> QED
    BY <1>1, <1>2, NatSetInduction
<1> QED
  BY <1>3

\* The same for a reader that need not see what such a function is.
Follows(g, n, S, base, step) ==
    g \in [0 .. n -> S] /\ g[0] = base /\ \A k \in 1 .. n : g[k] = step[k][g[k - 1]]

LEMMA PrefixFollows ==
    ASSUME NEW n \in Nat, NEW S, NEW base \in S, NEW step \in Steps(n, S)
    PROVE  \E g : Follows(g, n, S, base, step)
  BY PrefixRecursion DEF Follows

\* What the first value has, and every value takes over from the one before, every
\* value has.
LEMMA PrefixInvariant ==
    ASSUME NEW n \in Nat, NEW S, NEW c, c[0] \in S,
           \A k \in 1 .. n : c[k - 1] \in S => c[k] \in S
    PROVE  c[n] \in S
<1> DEFINE T == {k \in Nat : k =< n => c[k] \in S}
<1>1. 0 \in T
  OBVIOUS
<1>2. ASSUME NEW k \in Nat, k \in T PROVE k + 1 \in T
  <2> SUFFICES ASSUME k + 1 =< n PROVE c[k + 1] \in S
    OBVIOUS
  <2>1. k + 1 \in 1 .. n /\ (k + 1) - 1 = k
    OBVIOUS
  <2> QED
    BY <1>2, <2>1
<1>3. n \in T
  <2> HIDE DEF T
  <2> QED
    BY <1>1, <1>2, NatSetInduction
<1> QED
  BY <1>3

\* The same of every value.
LEMMA PrefixInvariantAll ==
    ASSUME NEW n \in Nat, NEW S, NEW c, c[0] \in S,
           \A k \in 1 .. n : c[k - 1] \in S => c[k] \in S
    PROVE  \A i \in 0 .. n : c[i] \in S
<1>1. TAKE i \in 0 .. n
<1>2. i \in Nat /\ \A k \in 1 .. i : k \in 1 .. n
  OBVIOUS
<1> QED
  BY <1>2, PrefixInvariant

\* A function from a finite set into the natural numbers has a greatest value.
LEMMA FiniteMax ==
    ASSUME NEW S, IsFiniteSet(S), S # {}, NEW f \in [S -> Nat]
    PROVE  \E x \in S : \A y \in S : f[x] >= f[y]
<1> DEFINE Maximal(T, x) == x \in T /\ \A y \in T : f[x] >= f[y]
           N == {n \in Nat : \A T \in SUBSET S :
                    Cardinality(T) = n + 1 => \E x \in T : Maximal(T, x)}
<1>1. \A T \in SUBSET S : IsFiniteSet(T) /\ Cardinality(T) \in Nat
  BY FS_Subset, FS_CardinalityType
<1>2. 0 \in N
  <2>1. ASSUME NEW T \in SUBSET S, Cardinality(T) = 1 PROVE \E x \in T : Maximal(T, x)
    <3>1. PICK x : T = {x}
      BY <1>1, <2>1, FS_Singleton
    <3> QED
      BY <3>1
  <2> QED
    BY <2>1
<1>3. ASSUME NEW n \in Nat, n \in N PROVE n + 1 \in N
  <2>1. ASSUME NEW T \in SUBSET S, Cardinality(T) = n + 2
        PROVE  \E x \in T : Maximal(T, x)
    <3>1. PICK z : z \in T
      BY <2>1, FS_EmptySet
    <3>2. T \ {z} \in SUBSET S /\ Cardinality(T \ {z}) = n + 1
      BY <1>1, <2>1, <3>1, FS_RemoveElement
    <3>3. PICK x \in T \ {z} : Maximal(T \ {z}, x)
      BY <1>3, <3>2
    <3>4. f[z] \in Nat /\ \A y \in T : f[y] \in Nat
      BY <3>1
    <3>5. CASE f[x] >= f[z]
      <4>1. Maximal(T, x)
        BY <3>3, <3>5
      <4> QED
        BY <4>1, <3>3
    <3>6. CASE f[z] > f[x]
      <4>1. Maximal(T, z)
        BY <3>1, <3>3, <3>4, <3>6
      <4> QED
        BY <4>1, <3>1
    <3> QED
      BY <3>3, <3>4, <3>5, <3>6
  <2> QED
    BY <2>1
<1>4. Cardinality(S) - 1 \in Nat
  BY <1>1, FS_EmptySet
<1>5. Cardinality(S) - 1 \in N
  <2> HIDE DEF N
  <2> QED
    BY <1>2, <1>3, <1>4, NatSetInduction
<1>6. S \in SUBSET S /\ Cardinality(S) = (Cardinality(S) - 1) + 1
  BY <1>1
<1>7. \E x \in S : Maximal(S, x)
  BY <1>4, <1>5, <1>6
<1> QED
  BY <1>7

\* Max and Min are what their names say.
LEMMA MaxOfFinite ==
    ASSUME NEW S \in SUBSET Nat, IsFiniteSet(S), S # {}
    PROVE  Max(S) \in S /\ \A y \in S : Max(S) >= y
<1>1. PICK x \in S : \A y \in S : [z \in S |-> z][x] >= [z \in S |-> z][y]
  <2>1. [z \in S |-> z] \in [S -> Nat]
    OBVIOUS
  <2> QED
    BY <2>1, FiniteMax
<1>2. \A y \in S : x >= y
  BY <1>1
<1> QED
  BY <1>2 DEF Max

-----------------------------------------------------------------------------
(* Sums.                                                                    *)

\* What SumFunctionOnSet takes out of a set first, and its recursion over subsets.
First(s) == CHOOSE x \in s : TRUE

Summing(it, f, S) ==
    it = [s \in SUBSET S |-> IF s = {} THEN 0 ELSE f[First(s)] + it[s \ {First(s)}]]

LEMMA FirstRemoved ==
    ASSUME NEW s, IsFiniteSet(s), s # {}
    PROVE  /\ First(s) \in s
           /\ IsFiniteSet(s \ {First(s)})
           /\ Cardinality(s) \in Nat /\ Cardinality(s) # 0
           /\ Cardinality(s \ {First(s)}) = Cardinality(s) - 1
<1>1. First(s) \in s
  BY DEF First
<1> QED
  BY <1>1, FS_RemoveElement, FS_CardinalityType, FS_EmptySet

LEMMA SummingExists ==
    ASSUME NEW D, NEW f \in [D -> Nat], NEW S \in SUBSET D, IsFiniteSet(S)
    PROVE  \E it \in [SUBSET S -> Nat] : Summing(it, f, S)
<1> DEFINE n == Cardinality(S)
           F == [SUBSET S -> Nat]
           next(g) == [s \in SUBSET S |->
                         IF s = {} THEN 0 ELSE f[First(s)] + g[s \ {First(s)}]]
           step == [k \in 1 .. n |-> [g \in F |-> next(g)]]
           zero == [s \in SUBSET S |-> 0]
<1>0. \A s \in SUBSET S : IsFiniteSet(s) /\ Cardinality(s) \in 0 .. n
  BY FS_Subset, FS_CardinalityType
<1>1. \A s \in SUBSET S : s # {} => First(s) \in s /\ f[First(s)] \in Nat
  BY DEF First
<1>2. ASSUME NEW g \in F PROVE next(g) \in F
  BY <1>1, <1>2
<1>3. zero \in F
  OBVIOUS
<1>4. step \in Steps(n, F)
  <2> HIDE DEF next, F
  <2> QED
    BY <1>2 DEF Steps
<1>a. \A k \in 1 .. n : \A g \in F : step[k][g] = next(g)
  <2> HIDE DEF next, F
  <2> QED
    OBVIOUS
<1>5. n \in Nat
  BY FS_CardinalityType
<1> HIDE DEF n, F, step, next, zero
<1>6. PICK g \in [0 .. n -> F] :
          g[0] = zero /\ \A k \in 1 .. n : g[k] = step[k][g[k - 1]]
  BY <1>3, <1>4, <1>5, PrefixRecursion
<1>7. g[0] = zero /\ \A k \in 1 .. n : g[k] = next(g[k - 1])
  <2>1. \A k \in 1 .. n : g[k - 1] \in F
    BY <1>5
  <2> QED
    BY <1>a, <1>6, <2>1
<1> DEFINE it == [s \in SUBSET S |-> g[Cardinality(s)][s]]
<1>8. it \in [SUBSET S -> Nat]
  BY <1>0, <1>6 DEF n, F
<1>9. ASSUME NEW s \in SUBSET S
      PROVE  it[s] = IF s = {} THEN 0 ELSE f[First(s)] + it[s \ {First(s)}]
  <2>1. CASE s = {}
    BY <1>7, <2>1, FS_EmptySet DEF zero
  <2>2. CASE s # {}
    <3> DEFINE t == s \ {First(s)}
    <3>1. /\ Cardinality(s) \in 1 .. n /\ Cardinality(t) = Cardinality(s) - 1
          /\ t \in SUBSET S
      BY <1>0, <1>5, <2>2, FirstRemoved
    <3>2. it[s] = next(g[Cardinality(s) - 1])[s]
      BY <1>7, <3>1
    <3>3. it[s] = f[First(s)] + g[Cardinality(s) - 1][t]
      BY <2>2, <3>2 DEF next
    <3> QED
      BY <2>2, <3>1, <3>3
  <2> QED
    BY <2>1, <2>2
<1>10. Summing(it, f, S)
  <2> HIDE DEF it
  <2> QED
    BY <1>8, <1>9 DEF Summing
<1> QED
  BY <1>8, <1>10

\* The recursion gives a subset the same sum whatever set it is taken from.
LEMMA SummingUnique ==
    ASSUME NEW D, NEW f \in [D -> Nat], NEW S \in SUBSET D, NEW T \in SUBSET S,
           IsFiniteSet(S), NEW it, NEW jt, Summing(it, f, S), Summing(jt, f, T)
    PROVE  it[T] = jt[T]
<1> DEFINE N == {n \in Nat : \A s \in SUBSET T : Cardinality(s) = n => it[s] = jt[s]}
<1>0. \A s \in SUBSET T : s \in SUBSET S /\ IsFiniteSet(s) /\ Cardinality(s) \in Nat
  BY FS_Subset, FS_CardinalityType
<1>1. 0 \in N
  BY <1>0, FS_EmptySet DEF Summing
<1>2. ASSUME NEW n \in Nat, n \in N PROVE n + 1 \in N
  <2>1. ASSUME NEW s \in SUBSET T, Cardinality(s) = n + 1 PROVE it[s] = jt[s]
    <3>1. s # {} /\ s \in SUBSET S
      BY <1>0, <2>1, FS_EmptySet
    <3>2. s \ {First(s)} \in SUBSET T /\ Cardinality(s \ {First(s)}) = n
      BY <1>0, <2>1, <3>1, FirstRemoved
    <3>3. it[s \ {First(s)}] = jt[s \ {First(s)}]
      BY <1>2, <3>2
    <3> QED
      BY <2>1, <3>1, <3>3 DEF Summing
  <2> QED
    BY <2>1
<1>3. Cardinality(T) \in N
  <2>1. Cardinality(T) \in Nat
    BY <1>0
  <2> HIDE DEF N
  <2> QED
    BY <1>1, <1>2, <2>1, NatSetInduction
<1> QED
  BY <1>3

\* The sum over a set: what SumFunctionOnSet takes out first, and the rest.
LEMMA SumRecursion ==
    ASSUME NEW D, NEW f \in [D -> Nat], NEW S \in SUBSET D, IsFiniteSet(S)
    PROVE  SumFunctionOnSet(f, S) = IF S = {} THEN 0
                           ELSE f[First(S)] + SumFunctionOnSet(f, S \ {First(S)})
<1>1. ASSUME NEW T \in SUBSET S
      PROVE  \E it : Summing(it, f, T) /\ SumFunctionOnSet(f, T) = it[T]
  <2>1. IsFiniteSet(T) /\ T \in SUBSET D
    BY FS_Subset
  <2>2. PICK jt \in [SUBSET T -> Nat] : Summing(jt, f, T)
    BY <2>1, SummingExists
  <2>3. Summing(CHOOSE it : Summing(it, f, T), f, T)
    BY <2>2
  <2>4. SumFunctionOnSet(f, T) = (CHOOSE it : Summing(it, f, T))[T]
    BY DEF SumFunctionOnSet, FoldFunctionOnSet, MapThenFoldSet, Summing, First
  <2> QED
    BY <2>3, <2>4
<1>2. PICK it : Summing(it, f, S) /\ SumFunctionOnSet(f, S) = it[S]
  BY <1>1
<1>3. CASE S = {}
  BY <1>2, <1>3 DEF Summing
<1>4. CASE S # {}
  <2>0. it[S] = f[First(S)] + it[S \ {First(S)}]
    BY <1>2, <1>4 DEF Summing
  <2>1. PICK jt : /\ Summing(jt, f, S \ {First(S)})
                  /\ SumFunctionOnSet(f, S \ {First(S)}) = jt[S \ {First(S)}]
    BY <1>1
  <2>2. it[S \ {First(S)}] = jt[S \ {First(S)}]
    BY <1>2, <2>1, SummingUnique
  <2> QED
    BY <1>2, <1>4, <2>0, <2>1, <2>2
<1> QED
  BY <1>3, <1>4

\* It is a sum: a natural number, and any of the elements may be added last.
LEMMA SumProperties ==
    ASSUME NEW D, NEW f \in [D -> Nat], NEW S \in SUBSET D, IsFiniteSet(S)
    PROVE  /\ SumFunctionOnSet(f, S) \in Nat
           /\ \A x \in S : SumFunctionOnSet(f, S) = f[x] + SumFunctionOnSet(f, S \ {x})
<1> DEFINE Sums(T) == /\ SumFunctionOnSet(f, T) \in Nat
                      /\ \A x \in T : SumFunctionOnSet(f, T) = f[x] + SumFunctionOnSet(f, T \ {x})
           N == {n \in Nat : \A T \in SUBSET S : Cardinality(T) =< n => Sums(T)}
<1>0. \A T \in SUBSET S : T \in SUBSET D /\ IsFiniteSet(T) /\ Cardinality(T) \in Nat
  BY FS_Subset, FS_CardinalityType
<1>1. 0 \in N
  <2>1. ASSUME NEW T \in SUBSET S, Cardinality(T) =< 0 PROVE Sums(T)
    <3>1. T = {}
      BY <1>0, <2>1, FS_EmptySet
    <3>2. SumFunctionOnSet(f, T) = 0
      BY <1>0, <3>1, SumRecursion
    <3> QED
      BY <3>1, <3>2
  <2> QED
    BY <2>1
<1>2. ASSUME NEW n \in Nat, n \in N PROVE n + 1 \in N
  <2>1. ASSUME NEW T \in SUBSET S, Cardinality(T) = n + 1 PROVE Sums(T)
    <3> DEFINE x == First(T)
    <3>1. T # {} /\ x \in T /\ T \ {x} \in SUBSET S /\ Cardinality(T \ {x}) = n
      BY <1>0, <2>1, FS_EmptySet, FirstRemoved
    <3>2. SumFunctionOnSet(f, T) = f[x] + SumFunctionOnSet(f, T \ {x}) /\ f[x] \in Nat
      BY <1>0, <3>1, SumRecursion
    <3>3. SumFunctionOnSet(f, T \ {x}) \in Nat
      BY <1>2, <3>1
    <3> HIDE DEF x
    <3>4. ASSUME NEW y \in T, y # x PROVE SumFunctionOnSet(f, T) = f[y] + SumFunctionOnSet(f, T \ {y})
      <4>1. SumFunctionOnSet(f, T \ {x}) = f[y] + SumFunctionOnSet(f, (T \ {x}) \ {y})
        BY <1>2, <3>1, <3>4
      <4>2. /\ T \ {y} \in SUBSET S /\ Cardinality(T \ {y}) =< n
            /\ x \in T \ {y} /\ (T \ {y}) \ {x} = (T \ {x}) \ {y}
        BY <1>0, <2>1, <3>1, <3>4, FS_RemoveElement
      <4>3. SumFunctionOnSet(f, T \ {y}) = f[x] + SumFunctionOnSet(f, (T \ {x}) \ {y})
        BY <1>2, <4>2
      <4>4. (T \ {x}) \ {y} \in SUBSET S /\ Cardinality((T \ {x}) \ {y}) =< n
        <5> DEFINE U == T \ {x}
        <5>1. U \in SUBSET S /\ Cardinality(U) = n /\ IsFiniteSet(U) /\ y \in U
          BY <1>0, <3>1, <3>4
        <5> HIDE DEF U
        <5>2. U \ {y} \in SUBSET S /\ Cardinality(U \ {y}) = n - 1
          BY <5>1, FS_RemoveElement
        <5> QED
          BY <5>2 DEF U
      <4>5. SumFunctionOnSet(f, (T \ {x}) \ {y}) \in Nat /\ f[y] \in Nat
        BY <1>2, <3>4, <4>4
      <4> QED
        BY <3>2, <4>1, <4>3, <4>5
    <3> QED
      BY <3>2, <3>3, <3>4
  <2>2. ASSUME NEW T \in SUBSET S, Cardinality(T) =< n + 1 PROVE Sums(T)
    <3> HIDE DEF Sums
    <3> QED
      BY <1>0, <1>2, <2>1, <2>2
  <2> QED
    BY <2>2
<1>3. Cardinality(S) \in N
  <2>1. Cardinality(S) \in Nat
    BY <1>0
  <2> HIDE DEF N
  <2> QED
    BY <1>1, <1>2, <2>1, NatSetInduction
<1>4. Cardinality(S) =< Cardinality(S) /\ S \in SUBSET S
  BY <1>0
<1> QED
  BY <1>3, <1>4

\* The sum depends on the values in the set alone.
LEMMA SumAgrees ==
    ASSUME NEW D, NEW f \in [D -> Nat], NEW E, NEW g \in [E -> Nat],
           NEW S \in SUBSET D, S \in SUBSET E, IsFiniteSet(S), \A x \in S : f[x] = g[x]
    PROVE  SumFunctionOnSet(f, S) = SumFunctionOnSet(g, S)
<1> DEFINE N == {n \in Nat : \A T \in SUBSET S :
                   Cardinality(T) = n => SumFunctionOnSet(f, T) = SumFunctionOnSet(g, T)}
<1>0. \A T \in SUBSET S : /\ T \in SUBSET D /\ T \in SUBSET E
                          /\ IsFiniteSet(T) /\ Cardinality(T) \in Nat
  BY FS_Subset, FS_CardinalityType
<1>1. 0 \in N
  <2>1. ASSUME NEW T \in SUBSET S, Cardinality(T) = 0
        PROVE  SumFunctionOnSet(f, T) = SumFunctionOnSet(g, T)
    <3>1. T = {}
      BY <1>0, <2>1, FS_EmptySet
    <3> QED
      BY <1>0, <3>1, SumRecursion
  <2> QED
    BY <2>1
<1>2. ASSUME NEW n \in Nat, n \in N PROVE n + 1 \in N
  <2>1. ASSUME NEW T \in SUBSET S, Cardinality(T) = n + 1
        PROVE  SumFunctionOnSet(f, T) = SumFunctionOnSet(g, T)
    <3>1. PICK x : x \in T
      BY <1>0, <2>1, FS_EmptySet
    <3>2. T \ {x} \in SUBSET S /\ Cardinality(T \ {x}) = n
      BY <1>0, <2>1, <3>1, FS_RemoveElement
    <3>3. SumFunctionOnSet(f, T \ {x}) = SumFunctionOnSet(g, T \ {x})
      BY <1>2, <3>2
    <3>4. SumFunctionOnSet(f, T) = f[x] + SumFunctionOnSet(f, T \ {x})
      BY <1>0, <3>1, SumProperties
    <3>5. SumFunctionOnSet(g, T) = g[x] + SumFunctionOnSet(g, T \ {x})
      BY <1>0, <3>1, SumProperties
    <3> QED
      BY <3>1, <3>3, <3>4, <3>5
  <2> QED
    BY <2>1
<1>3. Cardinality(S) \in N
  <2>1. Cardinality(S) \in Nat
    BY <1>0
  <2> HIDE DEF N
  <2> QED
    BY <1>1, <1>2, <2>1, NatSetInduction
<1> QED
  BY <1>3

\* A set without one of its elements.
LEMMA OneLess ==
    ASSUME NEW V, IsFiniteSet(V), NEW x \in V, NEW n \in Nat, Cardinality(V) = n + 1
    PROVE  Cardinality(V \ {x}) = n
<1>1. Cardinality(V \ {x}) = Cardinality(V) - 1
  BY FS_RemoveElement
<1> QED
  BY <1>1

\* A larger set of natural numbers has a larger sum.
LEMMA SumGrows ==
    ASSUME NEW D, NEW f \in [D -> Nat], NEW S \in SUBSET D, IsFiniteSet(S),
           NEW T \in SUBSET S
    PROVE  SumFunctionOnSet(f, T) =< SumFunctionOnSet(f, S)
<1> DEFINE N == {n \in Nat : \A U \in SUBSET S : T \subseteq U /\ Cardinality(U \ T) = n =>
                    SumFunctionOnSet(f, T) =< SumFunctionOnSet(f, U)}
<1>0. \A U \in SUBSET S :
          /\ U \in SUBSET D /\ IsFiniteSet(U) /\ IsFiniteSet(U \ T)
          /\ Cardinality(U \ T) \in Nat /\ SumFunctionOnSet(f, U) \in Nat
  <2>1. \A U \in SUBSET S : U \in SUBSET D /\ IsFiniteSet(U) /\ IsFiniteSet(U \ T)
    BY FS_Subset
  <2> QED
    BY <2>1, FS_CardinalityType, SumProperties
<1>1. 0 \in N
  <2>1. ASSUME NEW U \in SUBSET S, T \subseteq U, Cardinality(U \ T) = 0
        PROVE  SumFunctionOnSet(f, T) =< SumFunctionOnSet(f, U)
    <3>1. U \ T = {}
      BY <1>0, <2>1, FS_EmptySet
    <3>2. U = T
      BY <2>1, <3>1
    <3>3. SumFunctionOnSet(f, T) = SumFunctionOnSet(f, U)
      BY <3>2, Zenon
    <3>4. SumFunctionOnSet(f, U) \in Nat
      BY <1>0
    <3> QED
      BY <3>3, <3>4
  <2> QED
    BY <2>1
<1>2. ASSUME NEW n \in Nat, n \in N PROVE n + 1 \in N
  <2>1. ASSUME NEW U \in SUBSET S, T \subseteq U, Cardinality(U \ T) = n + 1
        PROVE  SumFunctionOnSet(f, T) =< SumFunctionOnSet(f, U)
    <3>1. PICK x : x \in U \ T
      BY <1>0, <2>1, FS_EmptySet
    <3>2. /\ U \ {x} \in SUBSET S /\ T \subseteq U \ {x}
          /\ (U \ {x}) \ T = (U \ T) \ {x}
      BY <2>1, <3>1
    <3>3. Cardinality((U \ T) \ {x}) = n
      <4>1. IsFiniteSet(U \ T)
        BY <1>0, Zenon
      <4>2. Cardinality(U \ T) = n + 1 /\ x \in U \ T
        BY <2>1, <3>1, Zenon
      <4>3. ASSUME NEW V, IsFiniteSet(V), x \in V, Cardinality(V) = n + 1
            PROVE  Cardinality(V \ {x}) = n
        BY <4>3, OneLess
      <4> QED
        BY <4>1, <4>2, <4>3, Zenon
    <3>a. Cardinality((U \ {x}) \ T) = n
      BY <3>2, <3>3, Zenon
    <3>4. SumFunctionOnSet(f, T) =< SumFunctionOnSet(f, U \ {x})
      BY <1>2, <3>2, <3>a
    <3>b. U \in SUBSET D /\ IsFiniteSet(U) /\ x \in U
      BY <1>0, <3>1
    <3>5. SumFunctionOnSet(f, U) = f[x] + SumFunctionOnSet(f, U \ {x})
      <4>1. \A z \in U : SumFunctionOnSet(f, U) = f[z] + SumFunctionOnSet(f, U \ {z})
        BY <3>b, SumProperties
      <4> QED
        BY <3>b, <4>1
    <3>6. /\ f[x] \in Nat /\ SumFunctionOnSet(f, U \ {x}) \in Nat
          /\ SumFunctionOnSet(f, T) \in Nat
      BY <1>0, <3>1, <3>2
    <3> QED
      BY <3>4, <3>5, <3>6
  <2> QED
    BY <2>1
<1>3. Cardinality(S \ T) \in N
  <2>1. Cardinality(S \ T) \in Nat
    BY <1>0
  <2> HIDE DEF N
  <2> QED
    BY <1>1, <1>2, <2>1, NatSetInduction
<1> QED
  BY <1>3

-----------------------------------------------------------------------------
(* Multiples.                                                               *)

Multiple(n, a) == \E q \in Nat : n = q * a

\* Of two numbers of one sign the larger has the larger multiple.
LEMMA MultipleOrder ==
    ASSUME NEW a \in Nat, a # 0, NEW p \in Int, NEW q \in Int
    PROVE  (p =< q) <=> (p * a =< q * a)
<1>1. ASSUME NEW d \in Nat, NEW n \in Int PROVE n * a =< (n + d) * a
  <2>1. (n + d) * a = n * a + d * a
    OBVIOUS
  <2>2. d * a \in Nat /\ n * a \in Int
    OBVIOUS
  <2> QED
    BY <2>1, <2>2
<1>2. ASSUME p =< q PROVE p * a =< q * a
  <2>1. q - p \in Nat /\ p + (q - p) = q
    BY <1>2
  <2> QED
    BY <1>1, <2>1
<1>3. ASSUME q < p PROVE q * a < p * a
  <2>1. p - (q + 1) \in Nat /\ (q + 1) + (p - (q + 1)) = p
    BY <1>3
  <2>2. (q + 1) * a =< p * a
    BY <1>1, <2>1
  <2>3. (q + 1) * a = q * a + a
    OBVIOUS
  <2> QED
    BY <2>2, <2>3
<1> QED
  BY <1>2, <1>3

\* Division with a rest.
LEMMA Division ==
    ASSUME NEW n \in Nat, NEW a \in Nat, a # 0
    PROVE  \E d \in Nat : n = d * a + (n % a) /\ n % a \in 0 .. a - 1
<1>1. n \div a \in Nat /\ n = (n \div a) * a + (n % a) /\ n % a \in 0 .. a - 1
  OBVIOUS
<1> QED
  BY <1>1

\* A multiple of a multiple.
LEMMA MultipleOfMultiple ==
    ASSUME NEW m \in Nat, NEW b \in Nat, NEW a \in Nat, Multiple(m, b), Multiple(b, a)
    PROVE  Multiple(m, a)
<1>1. PICK p \in Nat : m = p * b
  BY DEF Multiple
<1>2. PICK q \in Nat : b = q * a
  BY DEF Multiple
<1>3. p * (q * a) = (p * q) * a /\ p * q \in Nat
  OBVIOUS
<1> QED
  BY <1>1, <1>2, <1>3 DEF Multiple

\* The remainder of a multiple.
LEMMA MultipleRemainder ==
    ASSUME NEW m \in Nat, NEW a \in Nat, a # 0
    PROVE  Multiple(m, a) <=> m % a = 0
<1>1. ASSUME Multiple(m, a) PROVE m % a = 0
  <2>1. PICK q \in Nat : m = q * a
    BY <1>1 DEF Multiple
  <2>2. ASSUME NEW r \in 0 .. a - 1, m = q * a + r PROVE r = m % a
    BY <2>2
  <2> QED
    BY <2>1, <2>2
<1>2. ASSUME m % a = 0 PROVE Multiple(m, a)
  <2>1. PICK d \in Nat : m = d * a + (m % a)
    BY Division
  <2>2. m = d * a
    BY <1>2, <2>1
  <2> QED
    BY <2>2 DEF Multiple
<1> QED
  BY <1>1, <1>2

\* Division undoes what makes a number of its parts.
LEMMA DivisionIs ==
    ASSUME NEW a \in Nat, a # 0, NEW q \in Nat, NEW b \in 0 .. a - 1, NEW n,
           n = q * a + b
    PROVE  n \in Nat /\ n \div a = q /\ n % a = b
<1>1. q * a \in Nat
  OBVIOUS
<1>2. n \in Nat
  BY <1>1
<1>3. n \div a = q
  BY <1>2
<1>4. n % a = b
  BY <1>2, <1>3
<1> QED
  BY <1>2, <1>3, <1>4
=============================================================================
