---------------------------- MODULE Layout_proofs -----------------------------
(***************************************************************************)
(* Theorems about the layout of structs in TypeRegistry, for every list of   *)
(* primitive types whose sizes divide one another and every use of the       *)
(* registry: what end() divides by, where it puts the fields, and when the   *)
(* fields it has put share bytes.                                            *)
(***************************************************************************)
EXTENDS TypeRegistry_proofs, Foundations

-----------------------------------------------------------------------------
\* calculateOffset gives the first multiple of the alignment from the offset on.
LEMMA RoundUp ==
    ASSUME NEW c \in Nat, NEW a \in Nat, a # 0
    PROVE  /\ calculateOffset(c, a) \in Nat
           /\ calculateOffset(c, a) >= c
           /\ Multiple(calculateOffset(c, a), a)
           /\ \A m \in Nat : Multiple(m, a) /\ m >= c => m >= calculateOffset(c, a)
<1> DEFINE r == calculateOffset(c, a)
<1>0. PICK d \in Nat : c = d * a + (c % a) /\ c % a \in 0 .. a - 1
  BY Division
<1>1. c = d * a + (c % a) /\ c % a \in 0 .. a - 1 /\ d * a \in Nat
  BY <1>0
<1>2. r = IF c % a = 0 THEN c ELSE c + (a - (c % a))
  <2>1. c % a = 0 <=> a - (c % a) = a
    BY <1>1
  <2> QED
    BY <1>1, <2>1 DEF calculateOffset
<1>3. r \in Nat /\ r >= c /\ r < c + a
  BY <1>1, <1>2
<1>4. Multiple(r, a)
  <2>1. CASE c % a = 0
    <3>1. r = c /\ c = d * a
      BY <1>1, <1>2, <2>1
    <3>2. r = d * a
      BY <3>1
    <3> HIDE DEF r
    <3> QED
      BY <3>2 DEF Multiple
  <2>2. CASE c % a # 0
    <3>1. (d + 1) * a = d * a + a
      BY <1>1
    <3>2. r = (d + 1) * a /\ d + 1 \in Nat
      BY <1>1, <1>2, <2>2, <3>1
    <3> QED
      BY <3>2 DEF Multiple
  <2> QED
    BY <2>1, <2>2
<1> HIDE DEF r
<1>5. ASSUME NEW m \in Nat, Multiple(m, a), m >= c PROVE m >= r
  <2>1. PICK p \in Nat : m = p * a
    BY <1>5 DEF Multiple
  <2>2. PICK q \in Nat : r = q * a
    BY <1>4 DEF Multiple
  <2>3. (p + 1) * a = p * a + a
    OBVIOUS
  <2>4. ~((p + 1) * a =< q * a)
    BY <1>3, <1>5, <2>1, <2>2, <2>3
  <2>5. ~(p + 1 =< q)
    BY <2>4, MultipleOrder
  <2>6. q =< p
    BY <2>5
  <2>7. q * a =< p * a
    BY <2>6, MultipleOrder
  <2> QED
    BY <2>1, <2>2, <2>7
<1> QED
  BY <1>3, <1>4, <1>5 DEF r

\* What fits before a multiple of its alignment still fits when it is aligned.
LEMMA AlignedFits ==
    ASSUME NEW c \in Nat, NEW a \in Nat, a # 0, NEW s \in Nat, Multiple(s, a),
           NEW edge \in Nat, Multiple(edge, a), c + s =< edge
    PROVE  calculateOffset(c, a) + s =< edge
<1>1. PICK p \in Nat : s = p * a
  BY DEF Multiple
<1>2. PICK q \in Nat : edge = q * a
  BY DEF Multiple
<1>3. p * a =< q * a
  BY <1>1, <1>2
<1>4. p =< q
  BY <1>3, MultipleOrder
<1>5. (q - p) * a = q * a - p * a
  OBVIOUS
<1>6. edge - s = (q - p) * a /\ q - p \in Nat
  BY <1>1, <1>2, <1>4, <1>5
<1>7. edge - s \in Nat /\ Multiple(edge - s, a) /\ edge - s >= c
  <2>1. Multiple(edge - s, a)
    BY <1>6 DEF Multiple
  <2>2. edge - s >= c
    OBVIOUS
  <2> QED
    BY <2>1, <2>2
<1>8. edge - s >= calculateOffset(c, a) /\ calculateOffset(c, a) \in Nat
  BY <1>7, RoundUp
<1> QED
  BY <1>8

-----------------------------------------------------------------------------
(* The running offset of end().                                             *)

\* What end() takes for granted: fields with names in an order, and types of a size.
Sized(fields) ==
    /\ DOMAIN fields \in SUBSET Nat /\ IsFiniteSet(DOMAIN fields) /\ DOMAIN fields # {}
    /\ \A f \in DOMAIN fields : heap[fields[f].target].size \in Nat

LastOffset(fields) == Max(DOMAIN fields) + 1

LEMMA LastName ==
    ASSUME NEW fields, Sized(fields)
    PROVE  /\ LastOffset(fields) \in Nat
           /\ \A f \in DOMAIN fields : f \in Nat /\ f + 1 =< LastOffset(fields)
<1>1. Max(DOMAIN fields) \in DOMAIN fields /\ \A f \in DOMAIN fields : Max(DOMAIN fields) >= f
  BY MaxOfFinite DEF Sized
<1> QED
  BY <1>1 DEF LastOffset, Sized

\* The running offset starts at 0 and moves on by the sizes of the fields.
LEMMA CumulativeIs ==
    ASSUME NEW fields, Sized(fields)
    PROVE  /\ Cumulative(fields) \in [0 .. LastOffset(fields) -> Nat]
           /\ Cumulative(fields)[0] = 0
           /\ \A k \in 1 .. LastOffset(fields) :
                 Cumulative(fields)[k] =
                    IF k - 1 \in DOMAIN fields
                    THEN Cumulative(fields)[k - 1] + heap[fields[k - 1].target].size
                    ELSE Cumulative(fields)[k - 1]
<1> DEFINE n == LastOffset(fields)
           names == DOMAIN fields
           next(k, x) == IF k - 1 \in names THEN Advance(x, heap[fields[k - 1].target])
                         ELSE x
           step == [k \in 1 .. n |-> [x \in Nat |-> next(k, x)]]
           Defines(g) == g = [k \in 0 .. n |-> IF k = 0 THEN 0 ELSE next(k, g[k - 1])]
<1>1. n \in Nat
  BY LastName
<1>2. \A k \in 1 .. n : \A x \in Nat : next(k, x) \in Nat
  BY DEF Sized, Advance
<1>3. step \in Steps(n, Nat)
  <2> HIDE DEF next, n
  <2> QED
    BY <1>2 DEF Steps
<1>4. \A k \in 1 .. n : \A x \in Nat : step[k][x] = next(k, x)
  <2> HIDE DEF next, n
  <2> QED
    OBVIOUS
<1>5. PICK g \in [0 .. n -> Nat] : g[0] = 0 /\ \A k \in 1 .. n : g[k] = step[k][g[k - 1]]
  <2> HIDE DEF n, step
  <2> DEFINE S == Nat
             zero == 0
  <2>1. zero \in S /\ step \in Steps(n, S)
    BY <1>3
  <2> HIDE DEF S, zero
  <2>2. \E g \in [0 .. n -> S] :
           g[0] = zero /\ \A k \in 1 .. n : g[k] = step[k][g[k - 1]]
    BY <1>1, <2>1, PrefixRecursion
  <2> QED
    BY <2>2 DEF S, zero
<1>6. Defines(g)
  <2> HIDE DEF n, step, next
  <2>1. \A k \in 1 .. n : g[k - 1] \in Nat
    BY <1>1
  <2>2. \A k \in 1 .. n : g[k] = next(k, g[k - 1])
    BY <1>4, <1>5, <2>1
  <2> QED
    BY <1>1, <1>5, <2>2
<1>7. Cumulative(fields) = CHOOSE c : Defines(c)
  BY DEF Cumulative, LastOffset
<1>8. Defines(Cumulative(fields))
  BY <1>6, <1>7
<1> DEFINE c == Cumulative(fields)
<1> HIDE DEF c, n, next
<1>9. c[0] = 0 /\ \A k \in 1 .. n : c[k] = next(k, c[k - 1])
  BY <1>1, <1>8 DEF c
<1>10. \A k \in 0 .. n : c[k] \in Nat
  <2> DEFINE T == {k \in Nat : k =< n => c[k] \in Nat}
  <2>1. 0 \in T
    BY <1>9
  <2>2. ASSUME NEW k \in Nat, k \in T PROVE k + 1 \in T
    <3> SUFFICES ASSUME k + 1 =< n PROVE c[k + 1] \in Nat
      OBVIOUS
    <3>1. k + 1 \in 1 .. n /\ (k + 1) - 1 = k /\ c[k] \in Nat
      BY <1>1, <2>2
    <3>2. c[k + 1] = next(k + 1, c[(k + 1) - 1])
      BY <1>9, <3>1
    <3> QED
      BY <1>2, <3>1, <3>2
  <2>3. Nat \subseteq T
    <3> HIDE DEF T
    <3> QED
      BY <2>1, <2>2, NatSetInduction
  <2> QED
    BY <1>1, <2>3
<1>11. c \in [0 .. n -> Nat]
  BY <1>8, <1>10 DEF c
<1> QED
  BY <1>9, <1>11 DEF c, n, next, Advance

\* It never decreases.
LEMMA CumulativeGrows ==
    ASSUME NEW fields, Sized(fields), NEW j \in Nat, NEW k \in Nat, j =< k,
           k =< LastOffset(fields)
    PROVE  Cumulative(fields)[j] =< Cumulative(fields)[k]
<1> DEFINE c == Cumulative(fields)
           n == LastOffset(fields)
           T == {d \in Nat : j + d =< n => c[j] =< c[j + d]}
<1>1. n \in Nat /\ c \in [0 .. n -> Nat]
  BY LastName, CumulativeIs
<1>2. \A i \in 1 .. n : c[i] >= c[i - 1]
  <2> SUFFICES ASSUME NEW i \in 1 .. n PROVE c[i] >= c[i - 1]
    OBVIOUS
  <2>1. c[i] = IF i - 1 \in DOMAIN fields
               THEN c[i - 1] + heap[fields[i - 1].target].size ELSE c[i - 1]
    BY CumulativeIs
  <2>2. c[i - 1] \in Nat
    BY <1>1
  <2>3. i - 1 \in DOMAIN fields => heap[fields[i - 1].target].size \in Nat
    BY DEF Sized
  <2> HIDE DEF c, n
  <2> QED
    BY <2>1, <2>2, <2>3
<1> HIDE DEF c, n
<1>3. 0 \in T
  BY <1>1
<1>4. ASSUME NEW d \in Nat, d \in T PROVE d + 1 \in T
  <2> SUFFICES ASSUME j + (d + 1) =< n PROVE c[j] =< c[j + (d + 1)]
    OBVIOUS
  <2>1. j + (d + 1) \in 1 .. n /\ (j + (d + 1)) - 1 = j + d
    BY <1>1
  <2>2. c[j + (d + 1)] >= c[j + d]
    BY <1>2, <2>1
  <2>3. c[j] =< c[j + d]
    BY <1>1, <1>4
  <2>4. c[j] \in Nat /\ c[j + d] \in Nat /\ c[j + (d + 1)] \in Nat
    BY <1>1
  <2> QED
    BY <2>2, <2>3, <2>4
<1>5. k - j \in T
  <2> HIDE DEF T
  <2> QED
    BY <1>3, <1>4, NatSetInduction
<1>6. j + (k - j) = k
  OBVIOUS
<1> QED
  BY <1>5, <1>6 DEF c, n

\* It is the sum of the sizes of the fields before.
LEMMA CumulativeSums ==
    ASSUME NEW fields, Sized(fields), NEW k \in Nat, k =< LastOffset(fields)
    PROVE  Cumulative(fields)[k] =
             SumFunctionOnSet([f \in DOMAIN fields |-> heap[fields[f].target].size],
                              FieldsBefore(fields, k))
<1> DEFINE c == Cumulative(fields)
           n == LastOffset(fields)
           size == [f \in DOMAIN fields |-> heap[fields[f].target].size]
           sum(i) == SumFunctionOnSet(size, FieldsBefore(fields, i))
           T == {i \in Nat : i =< n => c[i] = sum(i)}
<1>1. n \in Nat /\ c \in [0 .. n -> Nat]
  BY LastName, CumulativeIs
<1>2. size \in [DOMAIN fields -> Nat]
  BY DEF Sized
<1>3. \A i \in Nat : FieldsBefore(fields, i) \in SUBSET DOMAIN fields
                     /\ IsFiniteSet(FieldsBefore(fields, i))
  BY FS_Subset DEF Sized, FieldsBefore
<1>4. 0 \in T
  <2>1. FieldsBefore(fields, 0) = {}
    BY DEF FieldsBefore, Sized
  <2>2. SumFunctionOnSet(size, FieldsBefore(fields, 0)) = 0
    <3> HIDE DEF size
    <3> QED
      BY <1>2, <1>3, <2>1, SumRecursion
  <2>3. c[0] = 0
    BY CumulativeIs
  <2> QED
    BY <2>2, <2>3
<1>5. ASSUME NEW i \in Nat, i \in T PROVE i + 1 \in T
  <2> SUFFICES ASSUME i + 1 =< n PROVE c[i + 1] = sum(i + 1)
    OBVIOUS
  <2>1. c[i] = sum(i)
    BY <1>1, <1>5
  <2>2. i + 1 \in 1 .. n /\ (i + 1) - 1 = i
    BY <1>1
  <2>3. CASE i \in DOMAIN fields
    <3>1. /\ i \in FieldsBefore(fields, i + 1)
          /\ FieldsBefore(fields, i + 1) \ {i} = FieldsBefore(fields, i)
      BY <2>3 DEF FieldsBefore, Sized
    <3>2. \A x \in FieldsBefore(fields, i + 1) :
              sum(i + 1) = size[x] + SumFunctionOnSet(size, FieldsBefore(fields, i + 1) \ {x})
      <4> HIDE DEF size
      <4> QED
        BY <1>2, <1>3, SumProperties
    <3>3. sum(i + 1) = size[i] + sum(i)
      <4> HIDE DEF size
      <4> QED
        BY <3>1, <3>2
    <3>4. c[i + 1] = c[i] + size[i]
      BY <2>2, <2>3, CumulativeIs
    <3>5. c[i] \in Nat /\ size[i] \in Nat
      BY <1>1, <1>2, <2>2, <2>3
    <3> QED
      BY <2>1, <3>3, <3>4, <3>5
  <2>4. CASE i \notin DOMAIN fields
    <3>1. FieldsBefore(fields, i + 1) = FieldsBefore(fields, i)
      BY <2>4 DEF FieldsBefore, Sized
    <3>2. sum(i + 1) = sum(i)
      BY <3>1, Zenon
    <3>3. c[i + 1] = c[i]
      BY <2>2, <2>4, CumulativeIs
    <3> QED
      BY <2>1, <3>2, <3>3
  <2> QED
    BY <2>3, <2>4
<1>6. k \in T
  <2> HIDE DEF T
  <2> QED
    BY <1>4, <1>5, NatSetInduction
<1> QED
  BY <1>6

-----------------------------------------------------------------------------
(* What end() divides by, and where it puts the fields.                     *)

Alignments == {0, PtrSize} \cup {Primitives[i].size : i \in DOMAIN Primitives}

\* A type's size is a multiple of its alignment, which is one of those the
\* primitives and the pointers have, and none only for v0 and what is made of it or
\* of a struct that is not ended.
Measured ==
    \A i \in DOMAIN heap :
        /\ heap[i].size \in Nat
        /\ heap[i].alignment \in Alignments
        /\ Multiple(heap[i].size, heap[i].alignment)
        /\ heap[i].alignment = 0 => i \in hollow

\* A struct has finitely many fields, which lie inside it.
FieldsInside ==
    \A i \in DOMAIN heap :
        /\ DOMAIN heap[i].fields \in SUBSET Nat
        /\ IsFiniteSet(DOMAIN heap[i].fields)
        /\ \A f \in DOMAIN heap[i].fields :
              LET here == heap[i].fields[f]
              IN  /\ here.offset \in Nat /\ here.size \in Nat
                  /\ here.offset + here.size =< heap[i].size

\* A field with bytes is aligned as its type wants it.
FieldsAligned ==
    \A i \in DOMAIN heap : \A f \in DOMAIN heap[i].fields :
        LET here == heap[i].fields[f]
        IN  (here.size > 0 /\ heap[here.target].kind # "struct") =>
               /\ heap[here.target].alignment # 0
               /\ Multiple(here.offset, heap[here.target].alignment)

\* A field that end() has put comes after the bytes of the fields before it; one
\* that it has not put yet has none.
FieldsSpread ==
    \A i \in DOMAIN heap : \A f \in DOMAIN heap[i].fields :
        LET fields == heap[i].fields
        IN  \/ fields[f].offset = 0 /\ fields[f].size = 0
            \/ fields[f].offset >= SumFunctionOnSet(Sizes(fields), FieldsBefore(fields, f))

BuildersBuildStructs == \A b \in builders : heap[b].kind = "struct"

LayoutInv ==
    /\ Measured /\ FieldsInside /\ FieldsAligned /\ FieldsSpread
    /\ BuildersBuildStructs

LEMMA AlignmentsAre == Alignments \in SUBSET Nat
<1>1. \A i \in DOMAIN Primitives : Primitives[i] \in [name : STRING, size : Nat]
  <2>1. \A S : Primitives \in Seq(S) => \A i \in DOMAIN Primitives : Primitives[i] \in S
    OBVIOUS
  <2> QED
    BY <2>1, RegistryAssumption, Zenon DEF RegistryAssumption
<1>2. \A i \in DOMAIN Primitives : Primitives[i].size \in Nat
  BY <1>1
<1> QED
  BY <1>2, RegistryAssumption DEF RegistryAssumption, Alignments

\* Of two alignments the smaller divides the larger.
LEMMA AlignmentsDivide ==
    ASSUME NEW a \in Alignments, NEW b \in Alignments, a # 0, b # 0, a =< b
    PROVE  Multiple(b, a)
<1>1. b % a = 0
  BY AlignmentAssumption DEF AlignmentAssumption, Alignments
<1> QED
  BY <1>1, AlignmentsAre, MultipleRemainder

\* The alignment of a struct is a multiple of those of its fields.
LEMMA FinalAlignmentIs ==
    ASSUME NEW fields, Sized(fields),
           \A f \in DOMAIN fields : heap[fields[f].target].alignment \in Alignments \ {0}
    PROVE  /\ FinalAlignment(fields) \in Alignments \ {0}
           /\ \A f \in DOMAIN fields :
                 Multiple(FinalAlignment(fields), heap[fields[f].target].alignment)
<1> DEFINE alignments == {heap[fields[f].target].alignment : f \in DOMAIN fields}
<1>1. alignments \in SUBSET (Alignments \ {0}) /\ alignments # {}
  BY DEF Sized
<1>2. alignments \in SUBSET Nat
  BY <1>1, AlignmentsAre
<1>3. IsFiniteSet(alignments)
  <2> DEFINE g == [f \in DOMAIN fields |-> heap[fields[f].target].alignment]
  <2>1. g \in Surjection(DOMAIN fields, alignments)
    BY DEF Surjection
  <2> HIDE DEF alignments, g
  <2> QED
    BY <2>1, FS_Surjection DEF Sized
<1>4. Max(alignments) \in alignments /\ \A a \in alignments : Max(alignments) >= a
  <2> HIDE DEF alignments
  <2> QED
    BY <1>1, <1>2, <1>3, MaxOfFinite
<1>5. FinalAlignment(fields) = Max(alignments)
  BY DEF FinalAlignment
<1>6. \A a \in alignments : Multiple(Max(alignments), a)
  <2> HIDE DEF alignments
  <2> SUFFICES ASSUME NEW a \in alignments PROVE Multiple(Max(alignments), a)
    OBVIOUS
  <2>1. a =< Max(alignments)
    BY <1>2, <1>4
  <2> QED
    BY <1>1, <1>4, <2>1, AlignmentsDivide
<1> QED
  BY <1>1, <1>4, <1>5, <1>6

\* end() puts every field at the first offset its alignment allows from the end
\* of the fields before it on, and all of them inside the struct.
LEMMA EndLaysOut ==
    ASSUME RegistryInv, LayoutInv, NEW b, end(b)
    PROVE  LET fields == heap[b].fields
               data == LaidOut(heap[b])
               type(f) == heap[fields[f].target]
           IN  /\ data.size \in Nat /\ data.alignment \in Alignments \ {0}
               /\ Multiple(data.size, data.alignment)
               /\ DOMAIN data.fields = DOMAIN fields
               /\ \A f \in DOMAIN fields :
                     LET here == data.fields[f]
                     IN  /\ here.target = fields[f].target /\ here.size = type(f).size
                         /\ here.offset \in Nat /\ here.size \in Nat
                         /\ here.offset + here.size =< data.size
                         /\ type(f).alignment # 0
                         /\ Multiple(here.offset, type(f).alignment)
                         /\ here.offset >= SumFunctionOnSet(Sizes(data.fields),
                                                   FieldsBefore(data.fields, f))
<1> DEFINE fields == heap[b].fields
           type(f) == heap[fields[f].target]
           cumulative == Cumulative(fields)
           alignment == FinalAlignment(fields)
           last == LastOffset(fields)
           size == StructSize(cumulative[last], alignment)
           laid == [f \in DOMAIN fields |->
                      [target |-> fields[f].target,
                       offset |-> calculateOffset(cumulative[f], type(f).alignment),
                       size   |-> type(f).size]]
           data == LaidOut(heap[b])
<1>1. b \in DOMAIN heap /\ Shaped(heap[b])
  BY DEF end, RegistryInv, RegistryTypeOK, HeapShaped
<1>2. \A f \in DOMAIN fields : fields[f].target \in DOMAIN heap
  BY <1>1 DEF RegistryInv, TargetsMade
<1>3. \A f \in DOMAIN fields : /\ type(f).size \in Nat
                               /\ type(f).alignment \in Alignments \ {0}
                               /\ Multiple(type(f).size, type(f).alignment)
  BY <1>2 DEF end, FailsOn, LayoutInv, Measured
<1>4. Sized(fields)
  BY <1>1, <1>3 DEF Sized, LayoutInv, FieldsInside, end
<1>5. data.size = size /\ data.alignment = alignment /\ data.fields = laid
  <2>1. data = [heap[b] EXCEPT !.size = size, !.alignment = alignment, !.fields = laid]
    BY DEF LaidOut, LastOffset
  <2> HIDE DEF data, size, alignment, laid
  <2> QED
    BY <1>1, <2>1 DEF Shaped
<1>6. /\ alignment \in Alignments \ {0}
      /\ \A f \in DOMAIN fields : Multiple(alignment, type(f).alignment)
  BY <1>3, <1>4, FinalAlignmentIs
<1>7. /\ last \in Nat /\ cumulative \in [0 .. last -> Nat]
      /\ \A f \in DOMAIN fields : f \in Nat /\ f + 1 =< last
  BY <1>4, LastName, CumulativeIs
<1>8. size \in Nat /\ size >= cumulative[last] /\ Multiple(size, alignment)
  <2>1. cumulative[last] \in Nat /\ alignment \in Nat /\ alignment # 0
    BY <1>6, <1>7, AlignmentsAre
  <2> HIDE DEF cumulative, last, alignment
  <2> QED
    BY <2>1, RoundUp DEF StructSize
<1>9. ASSUME NEW f \in DOMAIN fields
      PROVE  LET here == laid[f]
             IN  /\ here.target = fields[f].target /\ here.size = type(f).size
                 /\ here.offset \in Nat /\ here.size \in Nat
                 /\ here.offset + here.size =< size
                 /\ type(f).alignment # 0
                 /\ Multiple(here.offset, type(f).alignment)
                 /\ here.offset >= SumFunctionOnSet(Sizes(laid), FieldsBefore(laid, f))
  <2> DEFINE a == type(f).alignment
             s == type(f).size
             c == cumulative[f]
  <2>1. laid[f] = [target |-> fields[f].target, offset |-> calculateOffset(c, a),
                   size |-> s]
    OBVIOUS
  <2>2. a \in Nat /\ a # 0 /\ s \in Nat /\ Multiple(s, a) /\ c \in Nat
    <3>1. a \in Nat /\ a # 0
      BY <1>3, AlignmentsAre
    <3>2. s \in Nat /\ Multiple(s, a)
      BY <1>3
    <3>3. c \in Nat
      <4>1. f \in 0 .. last
        BY <1>7
      <4> HIDE DEF cumulative, last
      <4> QED
        BY <1>7, <4>1
    <3> QED
      BY <3>1, <3>2, <3>3
  <2>3. Multiple(size, a)
    <3>1. Multiple(alignment, a) /\ alignment \in Nat
      BY <1>6, AlignmentsAre
    <3> HIDE DEF size, alignment, a
    <3> QED
      BY <1>8, <2>2, <3>1, MultipleOfMultiple
  <2>4. c + s =< size
    <3>1. f + 1 \in 1 .. last /\ (f + 1) - 1 = f
      BY <1>7
    <3>2. cumulative[f + 1] = c + s
      <4>1. cumulative[f + 1] = IF (f + 1) - 1 \in DOMAIN fields
                THEN cumulative[(f + 1) - 1] + heap[fields[(f + 1) - 1].target].size
                ELSE cumulative[(f + 1) - 1]
        <5> HIDE DEF fields
        <5> QED
          BY <1>4, <3>1, CumulativeIs
      <4> HIDE DEF fields, cumulative
      <4> QED
        BY <3>1, <4>1
    <3>3. cumulative[f + 1] =< cumulative[last]
      <4>1. f + 1 \in Nat /\ last \in Nat /\ f + 1 =< last /\ last =< LastOffset(fields)
        BY <1>7
      <4> HIDE DEF fields, last
      <4> QED
        BY <1>4, <4>1, CumulativeGrows
    <3>4. cumulative[last] \in Nat
      BY <1>7
    <3> HIDE DEF cumulative, size, last, c, s
    <3> QED
      BY <1>8, <2>2, <3>2, <3>3, <3>4
  <2>5. calculateOffset(c, a) + s =< size
    <3> HIDE DEF c, a, s, size
    <3> QED
      BY <1>8, <2>2, <2>3, <2>4, AlignedFits
  <2>6. /\ calculateOffset(c, a) \in Nat /\ calculateOffset(c, a) >= c
        /\ Multiple(calculateOffset(c, a), a)
    <3> HIDE DEF c, a
    <3> QED
      BY <2>2, RoundUp
  <2>7. c = SumFunctionOnSet(Sizes(laid), FieldsBefore(laid, f))
    <3>1. Sizes(laid) = [g \in DOMAIN fields |-> heap[fields[g].target].size]
      BY DEF Sizes
    <3>2. FieldsBefore(laid, f) = FieldsBefore(fields, f)
      BY DEF FieldsBefore
    <3>3. f \in Nat /\ f =< last
      BY <1>7
    <3>4. c = SumFunctionOnSet([g \in DOMAIN fields |-> heap[fields[g].target].size],
                               FieldsBefore(fields, f))
      <4> HIDE DEF fields
      <4> QED
        BY <1>4, <3>3, CumulativeSums
    <3> HIDE DEF laid, fields
    <3> QED
      BY <3>1, <3>2, <3>4, Zenon
  <2>8. s = type(f).size /\ a = type(f).alignment
    OBVIOUS
  <2> HIDE DEF a, s, c, laid, type, fields
  <2>9. /\ laid[f].target = fields[f].target /\ laid[f].size = s
        /\ laid[f].offset = calculateOffset(c, a)
    BY <2>1
  <2> HIDE DEF size
  <2> QED
    BY <2>2, <2>5, <2>6, <2>7, <2>8, <2>9
<1>10. DOMAIN laid = DOMAIN fields
  OBVIOUS
<1> HIDE DEF data, laid, alignment, size
<1> QED
  BY <1>5, <1>6, <1>8, <1>9, <1>10 DEF data

-----------------------------------------------------------------------------
(* Every step keeps the layout.                                             *)

LEMMA InitLayout == Init => LayoutInv
<1> SUFFICES ASSUME Init PROVE LayoutInv
  OBVIOUS
<1>1. \A i \in DOMAIN heap : /\ i \in DOMAIN Primitives
                             /\ heap[i].size = Primitives[i].size
                             /\ heap[i].alignment = Primitives[i].size
                             /\ heap[i].fields = <<>>
  BY DEF Init, TypeData
<1>2. \A i \in DOMAIN heap : heap[i].size \in Alignments /\ heap[i].size \in Nat
  BY <1>1, AlignmentsAre DEF Alignments
<1>3. \A n \in Nat : Multiple(n, n)
  <2>1. \A n \in Nat : n = 1 * n
    OBVIOUS
  <2> QED
    BY <2>1 DEF Multiple
<1>4. Measured
  BY <1>1, <1>2, <1>3 DEF Measured, Init
<1>5. \A i \in DOMAIN heap : DOMAIN heap[i].fields = {}
  BY <1>1
<1>6. FieldsInside
  BY <1>5, FS_EmptySet DEF FieldsInside
<1>7. FieldsAligned /\ FieldsSpread
  BY <1>5 DEF FieldsAligned, FieldsSpread
<1>8. BuildersBuildStructs
  BY DEF BuildersBuildStructs, Init
<1> QED
  BY <1>4, <1>6, <1>7, <1>8 DEF LayoutInv

\* A type that is made has no fields yet.
LEMMA MakeLayout ==
    ASSUME RegistryInv, LayoutInv, NEW data, Make(data), data.fields = <<>>,
           data.size \in Nat, data.alignment \in Alignments,
           Multiple(data.size, data.alignment),
           data.alignment = 0 => Len(heap) + 1 \in hollow',
           hollow \subseteq hollow', builders' \subseteq builders \cup {Len(heap) + 1},
           Len(heap) + 1 \in builders' => data.kind = "struct"
    PROVE  LayoutInv'
<1> DEFINE new == Len(heap) + 1
<1>1. /\ DOMAIN heap' = DOMAIN heap \cup {new} /\ new \notin DOMAIN heap
      /\ \A i \in DOMAIN heap : heap'[i] = heap[i]
      /\ heap'[new] = data
  BY HeapGrows
<1>2. /\ \A i \in DOMAIN heap : \A f \in DOMAIN heap[i].fields :
            heap[i].fields[f].target \in DOMAIN heap
      /\ builders \subseteq DOMAIN heap
  BY DEF RegistryInv, TargetsMade, RegistryTypeOK
<1>3. DOMAIN <<>> = {}
  OBVIOUS
<1>4. data.alignment = 0 => new \in hollow'
  OBVIOUS
<1>5. builders' \subseteq builders \cup {new} /\ (new \in builders' => data.kind = "struct")
  OBVIOUS
<1> HIDE DEF new
<1>6. Measured'
  BY <1>1, <1>4 DEF LayoutInv, Measured
<1>7. FieldsInside'
  BY <1>1, <1>3, FS_EmptySet DEF LayoutInv, FieldsInside
<1>8. FieldsAligned'
  BY <1>1, <1>2, <1>3 DEF LayoutInv, FieldsAligned
<1>9. FieldsSpread'
  BY <1>1, <1>3 DEF LayoutInv, FieldsSpread
<1>10. BuildersBuildStructs'
  BY <1>1, <1>2, <1>5 DEF LayoutInv, BuildersBuildStructs
<1> QED
  BY <1>6, <1>7, <1>8, <1>9, <1>10 DEF LayoutInv

\* A builder changes one struct, which no layout that was recorded depends on.
LEMMA UpdateLayout ==
    ASSUME RegistryInv, LayoutInv, NEW b \in builders, NEW data,
           heap' = [heap EXCEPT ![b] = data], data.kind = heap[b].kind,
           builders' = builders, hollow \ {b} \subseteq hollow',
           data.size \in Nat, data.alignment \in Alignments,
           Multiple(data.size, data.alignment), data.alignment = 0 => b \in hollow',
           DOMAIN data.fields \in SUBSET Nat, IsFiniteSet(DOMAIN data.fields),
           \A f \in DOMAIN data.fields :
              LET here == data.fields[f]
              IN  /\ here.offset \in Nat /\ here.size \in Nat
                  /\ here.offset + here.size =< data.size
                  /\ (here.size > 0 /\ heap[here.target].kind # "struct") =>
                        /\ heap[here.target].alignment # 0
                        /\ Multiple(here.offset, heap[here.target].alignment)
                  /\ \/ here.offset = 0 /\ here.size = 0
                     \/ here.offset >= SumFunctionOnSet(Sizes(data.fields),
                                                        FieldsBefore(data.fields, f)),
           \A f \in DOMAIN data.fields : data.fields[f].target \in DOMAIN heap
    PROVE  LayoutInv'
<1>1. b \in DOMAIN heap /\ heap[b].kind = "struct"
  BY DEF RegistryInv, RegistryTypeOK, LayoutInv, BuildersBuildStructs
<1>2. /\ DOMAIN heap' = DOMAIN heap
      /\ heap'[b] = data /\ \A i \in DOMAIN heap \ {b} : heap'[i] = heap[i]
  BY <1>1
<1>3. /\ \A i \in DOMAIN heap : heap'[i].kind = heap[i].kind
      /\ \A i \in DOMAIN heap : heap[i].kind # "struct" => heap'[i] = heap[i]
  BY <1>1, <1>2
<1>4. Measured'
  BY <1>2 DEF LayoutInv, Measured
<1>5. FieldsInside'
  BY <1>2 DEF LayoutInv, FieldsInside
<1>6. FieldsAligned'
  <2> SUFFICES ASSUME NEW i \in DOMAIN heap, NEW f \in DOMAIN heap'[i].fields,
                      heap'[i].fields[f].size > 0,
                      heap'[heap'[i].fields[f].target].kind # "struct"
               PROVE  LET t == heap'[i].fields[f].target
                      IN  /\ heap'[t].alignment # 0
                          /\ Multiple(heap'[i].fields[f].offset, heap'[t].alignment)
    BY <1>2 DEF FieldsAligned
  <2> DEFINE t == heap'[i].fields[f].target
  <2>1. t \in DOMAIN heap
    BY <1>2 DEF RegistryInv, TargetsMade
  <2>2. heap[t].kind # "struct" /\ heap'[t] = heap[t]
    BY <1>3, <2>1
  <2>3. CASE i = b
    BY <1>2, <2>2, <2>3
  <2>4. CASE i # b
    BY <1>2, <2>2, <2>4 DEF LayoutInv, FieldsAligned
  <2> QED
    BY <2>3, <2>4
<1>7. FieldsSpread'
  <2> SUFFICES ASSUME NEW i \in DOMAIN heap, NEW f \in DOMAIN heap'[i].fields
               PROVE  LET fields == heap'[i].fields
                      IN  \/ fields[f].offset = 0 /\ fields[f].size = 0
                          \/ fields[f].offset >= SumFunctionOnSet(Sizes(fields),
                                                        FieldsBefore(fields, f))
    BY <1>2 DEF FieldsSpread
  <2>1. CASE i = b
    BY <1>2, <2>1
  <2>2. CASE i # b
    <3>1. heap'[i] = heap[i]
      BY <1>2, <2>2
    <3> QED
      BY <3>1 DEF LayoutInv, FieldsSpread
  <2> QED
    BY <2>1, <2>2
<1>8. BuildersBuildStructs'
  BY <1>3 DEF LayoutInv, BuildersBuildStructs, RegistryInv, RegistryTypeOK
<1> QED
  BY <1>4, <1>5, <1>6, <1>7, <1>8 DEF LayoutInv

\* A field without bytes adds nothing to the sums of the others.
LEMMA FieldLayout ==
    ASSUME RegistryInv, LayoutInv, NEW b, NEW i, NEW f \in FieldNames, field(b, i, f)
    PROVE  LayoutInv'
<1> DEFINE old == heap[b].fields
           fields == [g \in DOMAIN old \cup {f} |->
                        IF g = f THEN [target |-> i, offset |-> 0, size |-> 0]
                                 ELSE old[g]]
           data == [heap[b] EXCEPT !.fields = fields]
<1>1. /\ b \in DOMAIN heap /\ b \in builders /\ i \in DOMAIN heap /\ Shaped(heap[b])
      /\ f \notin DOMAIN old /\ f \in Nat
  BY RegistryAssumption DEF field, RegistryInv, RegistryTypeOK, HeapShaped,
                            RegistryAssumption
<1>2. heap' = [heap EXCEPT ![b] = data] /\ builders' = builders /\ hollow' = hollow
  BY <1>1 DEF field
<1>3. /\ data.fields = fields /\ data.kind = heap[b].kind
      /\ data.size = heap[b].size /\ data.alignment = heap[b].alignment
  <2> HIDE DEF fields
  <2> QED
    BY <1>1 DEF Shaped
<1>4. /\ DOMAIN old \in SUBSET Nat /\ IsFiniteSet(DOMAIN old) /\ data.size \in Nat
      /\ \A g \in DOMAIN old :
            /\ old[g].offset \in Nat /\ old[g].size \in Nat
            /\ old[g].offset + old[g].size =< data.size
            /\ old[g].target \in DOMAIN heap
  BY <1>1, <1>3 DEF LayoutInv, FieldsInside, Measured, RegistryInv, TargetsMade
<1>5. /\ DOMAIN fields = DOMAIN old \cup {f} /\ \A g \in DOMAIN old : fields[g] = old[g]
      /\ fields[f].target = i /\ fields[f].offset = 0 /\ fields[f].size = 0
  BY <1>1
<1>6. DOMAIN fields \in SUBSET Nat /\ IsFiniteSet(DOMAIN fields)
  BY <1>1, <1>4, <1>5, FS_AddElement
<1> HIDE DEF fields, data
<1>7. ASSUME NEW g \in DOMAIN old
      PROVE  SumFunctionOnSet(Sizes(fields), FieldsBefore(fields, g)) =
                SumFunctionOnSet(Sizes(old), FieldsBefore(old, g))
  <2> DEFINE before == FieldsBefore(old, g)
             now == FieldsBefore(fields, g)
             sum(S) == SumFunctionOnSet(Sizes(fields), S)
  <2>1. /\ Sizes(old) \in [DOMAIN old -> Nat] /\ Sizes(fields) \in [DOMAIN fields -> Nat]
        /\ \A h \in DOMAIN old : Sizes(fields)[h] = Sizes(old)[h]
        /\ Sizes(fields)[f] = 0
    BY <1>4, <1>5 DEF Sizes
  <2>2. /\ before \in SUBSET DOMAIN old /\ before \in SUBSET DOMAIN fields
        /\ now \in SUBSET DOMAIN fields /\ IsFiniteSet(before) /\ IsFiniteSet(now)
    BY <1>4, <1>5, <1>6, FS_Subset DEF FieldsBefore
  <2>3. sum(before) = SumFunctionOnSet(Sizes(old), before)
    <3>1. \A h \in before : Sizes(fields)[h] = Sizes(old)[h]
      BY <2>1, <2>2
    <3> HIDE DEF before
    <3> QED
      BY <2>1, <2>2, <3>1, SumAgrees
  <2>4. ASSUME f < g PROVE sum(now) = sum(before)
    <3>1. f \in now /\ now \ {f} = before
      BY <1>1, <1>4, <1>5, <2>4 DEF FieldsBefore
    <3> HIDE DEF before, now
    <3>2. \A x \in now : sum(now) = Sizes(fields)[x] + sum(now \ {x})
      BY <2>1, <2>2, SumProperties
    <3>3. sum(now) = Sizes(fields)[f] + sum(now \ {f})
      BY <3>1, <3>2, Zenon
    <3>4. sum(now \ {f}) = sum(before)
      BY <3>1, Zenon
    <3>5. sum(before) \in Nat
      BY <2>1, <2>2, SumProperties
    <3> QED
      BY <2>1, <3>3, <3>4, <3>5
  <2>5. ASSUME ~(f < g) PROVE sum(now) = sum(before)
    <3>1. now = before
      BY <1>1, <1>4, <1>5, <2>5 DEF FieldsBefore
    <3> HIDE DEF before, now
    <3> QED
      BY <3>1
  <2> QED
    BY <2>3, <2>4, <2>5
<1>8. ASSUME NEW g \in DOMAIN fields
      PROVE  LET here == fields[g]
             IN  /\ here.offset \in Nat /\ here.size \in Nat
                 /\ here.offset + here.size =< data.size
                 /\ (here.size > 0 /\ heap[here.target].kind # "struct") =>
                       /\ heap[here.target].alignment # 0
                       /\ Multiple(here.offset, heap[here.target].alignment)
                 /\ \/ here.offset = 0 /\ here.size = 0
                    \/ here.offset >= SumFunctionOnSet(Sizes(fields),
                                                       FieldsBefore(fields, g))
                 /\ here.target \in DOMAIN heap
  <2>1. CASE g = f
    BY <1>1, <1>4, <1>5, <2>1
  <2>2. CASE g # f
    <3>1. g \in DOMAIN old /\ fields[g] = old[g]
      BY <1>5, <2>2
    <3>2. (old[g].size > 0 /\ heap[old[g].target].kind # "struct") =>
             /\ heap[old[g].target].alignment # 0
             /\ Multiple(old[g].offset, heap[old[g].target].alignment)
      BY <1>1, <3>1 DEF LayoutInv, FieldsAligned
    <3>3. \/ old[g].offset = 0 /\ old[g].size = 0
          \/ old[g].offset >= SumFunctionOnSet(Sizes(old), FieldsBefore(old, g))
      BY <1>1, <3>1 DEF LayoutInv, FieldsSpread
    <3> HIDE DEF old
    <3> QED
      BY <1>4, <1>7, <3>1, <3>2, <3>3
  <2> QED
    BY <2>1, <2>2
<1>9. /\ data.alignment \in Alignments /\ Multiple(data.size, data.alignment)
      /\ data.alignment = 0 => b \in hollow'
  BY <1>1, <1>2, <1>3 DEF LayoutInv, Measured
<1> QED
  BY <1>1, <1>2, <1>3, <1>4, <1>6, <1>8, <1>9, UpdateLayout

LEMMA EndLayout ==
    ASSUME RegistryInv, LayoutInv, NEW b, end(b)
    PROVE  LayoutInv'
<1> DEFINE data == LaidOut(heap[b])
<1>1. /\ b \in builders /\ b \in DOMAIN heap /\ heap' = [heap EXCEPT ![b] = data]
      /\ builders' = builders /\ hollow' = hollow \ {b} /\ Shaped(heap[b])
  BY DEF end, RegistryInv, RegistryTypeOK, HeapShaped
<1>2. data.kind = heap[b].kind
  BY <1>1 DEF LaidOut, Shaped
<1>3. /\ data.size \in Nat /\ data.alignment \in Alignments \ {0}
      /\ Multiple(data.size, data.alignment)
      /\ DOMAIN data.fields = DOMAIN heap[b].fields
      /\ \A f \in DOMAIN heap[b].fields :
            LET here == data.fields[f]
                type == heap[heap[b].fields[f].target]
            IN  /\ here.target = heap[b].fields[f].target
                /\ here.offset \in Nat /\ here.size \in Nat
                /\ here.offset + here.size =< data.size
                /\ type.alignment # 0 /\ Multiple(here.offset, type.alignment)
                /\ here.offset >= SumFunctionOnSet(Sizes(data.fields),
                                                   FieldsBefore(data.fields, f))
  BY EndLaysOut
<1>4. /\ DOMAIN heap[b].fields \in SUBSET Nat /\ IsFiniteSet(DOMAIN heap[b].fields)
      /\ \A f \in DOMAIN heap[b].fields : heap[b].fields[f].target \in DOMAIN heap
  BY <1>1 DEF LayoutInv, FieldsInside, RegistryInv, TargetsMade
<1> HIDE DEF data
<1> QED
  BY <1>1, <1>2, <1>3, <1>4, UpdateLayout

LEMMA NextLayout == RegistryInv /\ LayoutInv /\ [Next]_vars => LayoutInv'
<1> SUFFICES ASSUME RegistryInv, LayoutInv, [Next]_vars PROVE LayoutInv'
  OBVIOUS
<1>1. ASSUME NEW name, defStruct(name) PROVE LayoutInv'
  <2> DEFINE data == TypeData("struct", Name(name), 0, 0, 0)
  <2>1. /\ data.fields = <<>> /\ data.size = 0 /\ data.alignment = 0
        /\ data.kind = "struct"
    BY DEF TypeData
  <2>2. Multiple(0, 0) /\ 0 \in Alignments
    BY DEF Multiple, Alignments
  <2>3. /\ Make(data) /\ builders' = builders \cup {Len(heap) + 1}
        /\ hollow' = hollow \cup {Len(heap) + 1}
    BY <1>1 DEF defStruct
  <2> HIDE DEF data
  <2> QED
    BY <2>1, <2>2, <2>3, MakeLayout
<1>2. ASSUME NEW i, ptrTo(i) PROVE LayoutInv'
  <2> DEFINE data == TypeData("pointer", Suffixed(heap[i].name, Star), PtrSize, PtrSize, i)
  <2>1. data.fields = <<>> /\ data.size = PtrSize /\ data.alignment = PtrSize
    BY DEF TypeData
  <2>2. PtrSize \in Nat \ {0} /\ PtrSize \in Alignments
    BY RegistryAssumption DEF RegistryAssumption, Alignments
  <2>3. PtrSize = 1 * PtrSize
    BY <2>2
  <2>4. Multiple(PtrSize, PtrSize)
    BY <2>3 DEF Multiple
  <2>5. Make(data) /\ builders' = builders /\ hollow' = hollow
    BY <1>2 DEF ptrTo
  <2>6. Len(heap) + 1 \notin builders
    <3>1. builders \subseteq DOMAIN heap /\ DOMAIN heap = 1 .. Len(heap)
          /\ Len(heap) \in Nat
      BY DEF RegistryInv, RegistryTypeOK, HeapShaped
    <3> QED
      BY <3>1
  <2> HIDE DEF data
  <2> QED
    BY <2>1, <2>2, <2>4, <2>5, <2>6, MakeLayout
<1>3. ASSUME NEW i, NEW length \in Lengths, arrOf(i, length) PROVE LayoutInv'
  <2> DEFINE data == TypeData("array", Suffixed(heap[i].name, length),
                              heap[i].size * length, heap[i].alignment, 0)
  <2>1. /\ data.fields = <<>> /\ data.size = heap[i].size * length
        /\ data.alignment = heap[i].alignment
    BY DEF TypeData
  <2>2. i \in DOMAIN heap
    BY <1>3 DEF arrOf, RegistryInv, RegistryTypeOK
  <2>3. /\ heap[i].size \in Nat /\ heap[i].alignment \in Alignments
        /\ Multiple(heap[i].size, heap[i].alignment)
        /\ heap[i].alignment = 0 => i \in hollow
    BY <2>2 DEF LayoutInv, Measured
  <2>4. length \in Nat
    BY RegistryAssumption DEF RegistryAssumption
  <2>5. heap[i].size * length \in Nat /\ heap[i].size * length = length * heap[i].size
    BY <2>3, <2>4
  <2>6. Multiple(heap[i].size * length, heap[i].alignment)
    <3>1. heap[i].alignment \in Nat
      BY <2>3, AlignmentsAre
    <3>2. Multiple(heap[i].size * length, heap[i].size)
      BY <2>4, <2>5 DEF Multiple
    <3> QED
      BY <2>3, <2>5, <3>1, <3>2, MultipleOfMultiple
  <2>7. Make(data) /\ builders' = builders
    BY <1>3 DEF arrOf
  <2>8. hollow \subseteq hollow' /\ (i \in hollow => Len(heap) + 1 \in hollow')
    BY <1>3 DEF arrOf
  <2>9. Len(heap) + 1 \notin builders
    <3>1. builders \subseteq DOMAIN heap /\ DOMAIN heap = 1 .. Len(heap)
          /\ Len(heap) \in Nat
      BY DEF RegistryInv, RegistryTypeOK, HeapShaped
    <3> QED
      BY <3>1
  <2> HIDE DEF data
  <2> QED
    BY <2>1, <2>3, <2>5, <2>6, <2>7, <2>8, <2>9, MakeLayout
<1>4. ASSUME UNCHANGED <<heap, hollow>>, builders' \subseteq builders PROVE LayoutInv'
  BY <1>4 DEF LayoutInv, Measured, FieldsInside, FieldsAligned, FieldsSpread,
              BuildersBuildStructs
<1>5. ASSUME NEW name, struct_(name) PROVE LayoutInv'
  BY <1>4, <1>5 DEF struct_
<1>6. ASSUME NEW b, endFails(b) \/ DropBuilder(b) PROVE LayoutInv'
  BY <1>4, <1>6 DEF endFails, DropBuilder, Crash
<1>7. ASSUME NEW i, UseFails(i) PROVE LayoutInv'
  BY <1>4, <1>7 DEF UseFails, Crash
<1>8. CASE DropRegistry \/ UNCHANGED vars
  BY <1>4, <1>8 DEF DropRegistry, vars
<1> QED
  BY <1>1, <1>2, <1>3, <1>5, <1>6, <1>7, <1>8, FieldLayout, EndLayout DEF Next

THEOREM LayoutInvariant == Spec => [](RegistryInv /\ LayoutInv)
<1>1. Init => RegistryInv /\ LayoutInv
  BY InitRegistryInv, InitLayout
<1>2. RegistryInv /\ LayoutInv /\ [Next]_vars => (RegistryInv /\ LayoutInv)'
  BY NextRegistryInv, NextLayout
<1> QED
  BY <1>1, <1>2, PTL DEF Spec

-----------------------------------------------------------------------------
(* What follows.                                                            *)

\* However end() came to its offsets, every field of every struct lies inside it,
\* where the alignment of its type allows: bytesAtField reads inside the snapshot.
THEOREM FieldsInsideCorrect == Spec => []FieldsInsideStruct
<1>1. RegistryInv /\ LayoutInv => FieldsInsideStruct
  <2> SUFFICES ASSUME RegistryInv, LayoutInv, NEW i \in DOMAIN heap,
                      NEW f \in DOMAIN heap[i].fields
               PROVE  LET here == heap[i].fields[f]
                      IN  /\ here.offset + here.size <= heap[i].size
                          /\ (here.size > 0 /\ heap[here.target].kind # "struct") =>
                                here.offset % heap[here.target].alignment = 0
    BY DEF FieldsInsideStruct
  <2> DEFINE here == heap[i].fields[f]
             a == heap[here.target].alignment
  <2>1. here.offset \in Nat /\ here.offset + here.size <= heap[i].size
    BY DEF LayoutInv, FieldsInside
  <2>2. ASSUME here.size > 0, heap[here.target].kind # "struct"
        PROVE  here.offset % a = 0
    <3>1. a # 0 /\ Multiple(here.offset, a)
      BY <2>2 DEF LayoutInv, FieldsAligned
    <3>2. a \in Nat
      BY AlignmentsAre DEF LayoutInv, Measured, RegistryInv, TargetsMade
    <3> HIDE DEF here, a
    <3> QED
      BY <2>1, <3>1, <3>2, MultipleRemainder
  <2> QED
    BY <2>1, <2>2
<1> QED
  BY <1>1, LayoutInvariant, PTL

LEMMA OverlapIsPadded ==
    ASSUME LayoutInv, NEW i \in DOMAIN heap, NEW fields, fields = heap[i].fields,
           NEW f \in DOMAIN fields, NEW g \in DOMAIN fields, f < g,
           Overlap(fields[f], fields[g])
    PROVE  Padded(fields, f)
<1> DEFINE sum(S) == SumFunctionOnSet(Sizes(fields), S)
           before == FieldsBefore(fields, f)
           upto == before \cup {f}
           long == FieldsBefore(fields, g)
<1>1. /\ DOMAIN fields \in SUBSET Nat /\ IsFiniteSet(DOMAIN fields)
      /\ \A h \in DOMAIN fields : fields[h].offset \in Nat /\ fields[h].size \in Nat
  BY DEF LayoutInv, FieldsInside
<1>2. Sizes(fields) \in [DOMAIN fields -> Nat] /\ Sizes(fields)[f] = fields[f].size
  BY <1>1 DEF Sizes
<1>3. /\ before \in SUBSET DOMAIN fields /\ long \in SUBSET DOMAIN fields
      /\ upto \in SUBSET long /\ upto \in SUBSET DOMAIN fields
      /\ upto \ {f} = before /\ f \in upto
  BY <1>1 DEF FieldsBefore
<1>4. IsFiniteSet(before) /\ IsFiniteSet(upto) /\ IsFiniteSet(long)
  BY <1>1, <1>3, FS_Subset
<1>5. /\ \/ fields[f].offset = 0 /\ fields[f].size = 0
         \/ fields[f].offset >= sum(before)
      /\ \/ fields[g].offset = 0 /\ fields[g].size = 0
         \/ fields[g].offset >= sum(long)
  BY DEF LayoutInv, FieldsSpread
<1>6. /\ fields[f].offset < fields[g].offset + fields[g].size
      /\ fields[g].offset < fields[f].offset + fields[f].size
  BY DEF Overlap
<1> HIDE DEF before, upto, long
<1>7. /\ sum(before) \in Nat /\ sum(long) \in Nat
      /\ sum(before) + fields[f].size =< sum(long)
  <2>1. sum(upto) = Sizes(fields)[f] + sum(upto \ {f})
    BY <1>2, <1>3, <1>4, SumProperties
  <2>2. sum(upto \ {f}) = sum(before)
    BY <1>3, Zenon
  <2>3. sum(upto) =< sum(long)
    BY <1>2, <1>3, <1>4, SumGrows
  <2>4. sum(before) \in Nat /\ sum(long) \in Nat
    BY <1>2, <1>3, <1>4, SumProperties
  <2>5. fields[f].size \in Nat
    BY <1>1
  <2> QED
    BY <1>2, <2>1, <2>2, <2>3, <2>4, <2>5
<1>8. fields[f].offset > sum(before)
  BY <1>1, <1>5, <1>6, <1>7
<1> QED
  BY <1>8 DEF Padded, before

\* Two fields share bytes only when padding was put before the first of them, or
\* before a field before it, which end() leaves out of the offsets that follow.
THEOREM OverlapsNeedPadding == Spec => []OverlapNeedsPadding
<1>1. LayoutInv => OverlapNeedsPadding
  <2> SUFFICES ASSUME LayoutInv, NEW i \in DOMAIN heap,
                      NEW f \in DOMAIN heap[i].fields, NEW g \in DOMAIN heap[i].fields,
                      f < g, Overlap(heap[i].fields[f], heap[i].fields[g])
               PROVE  \E h \in DOMAIN heap[i].fields : h <= f /\ Padded(heap[i].fields, h)
    BY DEF OverlapNeedsPadding
  <2>1. DOMAIN heap[i].fields \in SUBSET Nat
    BY DEF LayoutInv, FieldsInside
  <2>2. f <= f
    BY <2>1
  <2>3. Padded(heap[i].fields, f)
    BY OverlapIsPadded
  <2> QED
    BY <2>2, <2>3
<1> QED
  BY <1>1, LayoutInvariant, PTL

DivisionExplained ==
    crash.why = "division_by_zero" =>
       LET fields == heap[crash.at].fields
       IN  DOMAIN fields = {} \/ \E f \in DOMAIN fields : fields[f].target \in hollow

\* end() divides by zero only for a struct without fields, or for a field of type
\* v0, of a struct that is not ended, or of an array made of such a type; and with
\* the null pointers explained every crash of the registry is.
THEOREM CrashesExplainedCorrect == Spec => []CrashesExplained
<1>1. Init => DivisionExplained
  BY DEF Init, DivisionExplained, NoCrash
<1>2. RegistryInv /\ LayoutInv /\ DivisionExplained /\ [Next]_vars => DivisionExplained'
  <2> SUFFICES ASSUME RegistryInv, LayoutInv, DivisionExplained, [Next]_vars
               PROVE  DivisionExplained'
    OBVIOUS
  <2>1. ASSUME NEW b, endFails(b) PROVE DivisionExplained'
    <3> SUFFICES ASSUME crash'.why = "division_by_zero" PROVE DivisionExplained'
      BY DEF DivisionExplained
    <3>1. \/ DOMAIN heap[b].fields = {}
          \/ \E f \in DOMAIN heap[b].fields :
                heap[heap[b].fields[f].target].alignment = 0
      <4>1. crash' # [why |-> "null_pointer", at |-> b]
        OBVIOUS
      <4> QED
        BY <2>1, <4>1 DEF endFails, FailsOn, Crash
    <3>2. /\ b \in DOMAIN heap /\ crash'.at = b /\ heap' = heap /\ hollow' = hollow
      BY <2>1 DEF endFails, Crash, RegistryInv, RegistryTypeOK
    <3>3. \A f \in DOMAIN heap[b].fields :
             heap[heap[b].fields[f].target].alignment = 0 =>
                heap[b].fields[f].target \in hollow
      BY <3>2 DEF RegistryInv, TargetsMade, LayoutInv, Measured
    <3> QED
      BY <3>1, <3>2, <3>3 DEF DivisionExplained
  <2>2. ASSUME NEW i, UseFails(i) PROVE DivisionExplained'
    BY <2>2 DEF UseFails, Crash, DivisionExplained
  <2>3. ASSUME Running, crash' = crash PROVE DivisionExplained'
    BY <2>3 DEF Running, NoCrash, DivisionExplained
  <2>4. CASE UNCHANGED vars
    BY <2>4 DEF vars, DivisionExplained
  <2> QED
    BY <2>1, <2>2, <2>3, <2>4 DEF Next, defStruct, struct_, field, end,
       DropBuilder, ptrTo, arrOf, DropRegistry
<1>3. Spec => []DivisionExplained
  BY <1>1, <1>2, LayoutInvariant, PTL DEF Spec
<1>4. NullExplained /\ DivisionExplained => CrashesExplained
  BY DEF NullExplained, DivisionExplained, CrashesExplained
<1> QED
  BY <1>3, <1>4, NullPointersExplained, PTL
===============================================================================
