------------------------- MODULE TypeRegistry_proofs --------------------------
(***************************************************************************)
(* Theorems about TypeRegistry, for every list of primitive types and every  *)
(* use of the registry: which weak pointers still find their data.           *)
(***************************************************************************)
EXTENDS TypeRegistry, SequenceTheorems, TLAPS

\* heap is a sequence of records with the fields of TypeData.
Shaped(data) ==
    data = [kind |-> data.kind, name |-> data.name, size |-> data.size,
            alignment |-> data.alignment, target |-> data.target,
            fields |-> data.fields]

HeapShaped ==
    /\ heap \in Seq({heap[i] : i \in DOMAIN heap})
    /\ \A i \in DOMAIN heap : Shaped(heap[i])

\* Nothing is pointed to that was never made.
TargetsMade ==
    /\ \A i \in DOMAIN heap : heap[i].kind = "pointer" => heap[i].target \in DOMAIN heap
    /\ \A i \in DOMAIN heap : \A f \in DOMAIN heap[i].fields :
          heap[i].fields[f].target \in DOMAIN heap

\* Until an emplace finds its key taken, the registry owns all there is.
AllRegistered == ~dropped => registered = DOMAIN heap

RegistryInv ==
    /\ HeapShaped /\ TargetsMade /\ AllRegistered
    /\ RegistryTypeOK

LEMMA SeqOfItsElements ==
    ASSUME NEW S, NEW seq \in Seq(S), NEW T, \A i \in DOMAIN seq : seq[i] \in T
    PROVE  seq \in Seq(T)
  OBVIOUS

LEMMA InitRegistryInv == Init => RegistryInv
<1> SUFFICES ASSUME Init PROVE RegistryInv
  OBVIOUS
<1>1. PICK n \in Nat : DOMAIN Primitives = 1 .. n
  BY RegistryAssumption DEF RegistryAssumption
<1>2. heap = [i \in 1 .. n |->
                TypeData("primitive", Name(Primitives[i].name),
                         Primitives[i].size, Primitives[i].size, 0)]
  BY <1>1 DEF Init
<1>3. heap \in Seq({heap[i] : i \in DOMAIN heap}) /\ DOMAIN heap = 1 .. n
  <2>1. DOMAIN heap = 1 .. n
    BY <1>2
  <2>2. \A S : (\A i \in 1 .. n : heap[i] \in S) => heap \in Seq(S)
    BY <1>1, <1>2
  <2> QED
    BY <2>1, <2>2
<1>4. \A i \in DOMAIN heap : heap[i].kind = "primitive" /\ heap[i].fields = <<>>
  BY <1>2, <1>3 DEF TypeData
<1>5. HeapShaped
  BY <1>2, <1>3 DEF HeapShaped, Shaped, TypeData
<1>6. TargetsMade
  BY <1>4 DEF TargetsMade
<1>7. /\ registered = DOMAIN heap /\ handles = DOMAIN heap /\ builders = {}
      /\ hollow \subseteq DOMAIN heap
  BY <1>1, <1>3 DEF Init
<1>8. ASSUME NEW i \in registered, NEW j \in registered, SameKey(heap[i], heap[j])
      PROVE  i = j
  <2>1. i \in DOMAIN Primitives /\ j \in DOMAIN Primitives
    BY <1>1, <1>3, <1>7
  <2>2. Primitives[i].name = Primitives[j].name
    BY <1>1, <1>2, <1>8, <2>1 DEF SameKey, TypeData, Name
  <2> QED
    BY <2>1, <2>2, RegistryAssumption DEF RegistryAssumption
<1> QED
  BY <1>5, <1>6, <1>7, <1>8 DEF RegistryInv, AllRegistered, RegistryTypeOK

-----------------------------------------------------------------------------
\* A type that is made is added to those there are.
LEMMA HeapGrows ==
    ASSUME RegistryInv, NEW data, Make(data)
    PROVE  LET new == Len(heap) + 1
           IN  /\ DOMAIN heap' = DOMAIN heap \cup {new} /\ new \notin DOMAIN heap
               /\ \A i \in DOMAIN heap : heap'[i] = heap[i]
               /\ heap'[new] = data
               /\ heap' \in Seq({heap'[i] : i \in DOMAIN heap'})
<1> DEFINE new == Len(heap) + 1
<1>1. /\ Len(heap) \in Nat /\ DOMAIN heap = 1 .. Len(heap)
  BY DEF RegistryInv, HeapShaped
<1> DEFINE S == {heap[i] : i \in DOMAIN heap} \cup {data}
<1>2. heap \in Seq(S)
  <2>1. \A i \in DOMAIN heap : heap[i] \in S
    OBVIOUS
  <2> QED
    BY <2>1 DEF RegistryInv, HeapShaped
<1>3. heap' = Append(heap, data)
  BY DEF Make
<1>4. /\ Len(heap') = Len(heap) + 1 /\ heap' \in Seq(S)
      /\ \A i \in 1 .. Len(heap) : heap'[i] = heap[i]
      /\ heap'[Len(heap) + 1] = data
  <2> HIDE DEF S
  <2>1. data \in S
    BY DEF S
  <2> QED
    BY <1>2, <1>3, <2>1, AppendProperties
<1>5. /\ DOMAIN heap' = DOMAIN heap \cup {new} /\ new \notin DOMAIN heap
  BY <1>1, <1>4
<1>6. S = {heap'[i] : i \in DOMAIN heap'}
  BY <1>1, <1>4, <1>5
<1> QED
  BY <1>1, <1>4, <1>5, <1>6

\* A type that is made is registered when its key is free, and everything else
\* stays what it was.
LEMMA MakeKeeps ==
    ASSUME RegistryInv, NEW data, Shaped(data), Make(data),
           data.kind = "pointer" => data.target \in DOMAIN heap,
           data.fields = <<>>,
           builders' \subseteq builders \cup {Len(heap) + 1},
           handles' \subseteq handles \cup {Len(heap) + 1},
           hollow' \subseteq hollow \cup {Len(heap) + 1}
    PROVE  RegistryInv'
<1> DEFINE new == Len(heap) + 1
<1>1. /\ DOMAIN heap' = DOMAIN heap \cup {new} /\ new \notin DOMAIN heap
      /\ \A i \in DOMAIN heap : heap'[i] = heap[i]
      /\ heap'[new] = data
      /\ heap' \in Seq({heap'[i] : i \in DOMAIN heap'})
  BY HeapGrows
<1> HIDE DEF new
<1>2. HeapShaped'
  BY <1>1 DEF HeapShaped, RegistryInv, Shaped
<1>3. TargetsMade'
  BY <1>1 DEF TargetsMade, RegistryInv
<1>4. /\ registered' = IF \E i \in registered : SameKey(heap[i], data)
                       THEN registered ELSE registered \cup {new}
      /\ dropped' = (dropped \/ \E i \in registered : SameKey(heap[i], data))
  BY DEF Make, Emplace, new
<1>5. AllRegistered'
  BY <1>1, <1>4 DEF AllRegistered, RegistryInv
<1>6. /\ registered' \subseteq DOMAIN heap' /\ builders' \subseteq DOMAIN heap'
      /\ handles' \subseteq DOMAIN heap' /\ hollow' \subseteq DOMAIN heap'
  BY <1>1, <1>4 DEF RegistryInv, RegistryTypeOK, new
<1>7. ASSUME NEW i \in registered', NEW j \in registered',
             SameKey(heap'[i], heap'[j])
      PROVE  i = j
  <2>1. CASE i \in registered /\ j \in registered
    BY <1>1, <1>7, <2>1 DEF RegistryInv, RegistryTypeOK
  <2>2. CASE i = new \/ j = new
    BY <1>1, <1>4, <1>7, <2>2 DEF RegistryInv, RegistryTypeOK, SameKey
  <2> QED
    BY <1>4, <2>1, <2>2
<1> QED
  BY <1>2, <1>3, <1>5, <1>6, <1>7 DEF RegistryInv, RegistryTypeOK

\* A change to one type leaves its kind and its name, and the fields point to
\* types that were made.
LEMMA UpdateKeeps ==
    ASSUME RegistryInv, NEW b \in DOMAIN heap, NEW data, Shaped(data),
           heap' = [heap EXCEPT ![b] = data],
           data.kind = heap[b].kind, data.name = heap[b].name,
           data.target = heap[b].target,
           \A f \in DOMAIN data.fields : data.fields[f].target \in DOMAIN heap,
           registered' = registered, dropped' = dropped, builders' = builders,
           handles' \subseteq handles \cup {b}, hollow' \subseteq hollow
    PROVE  RegistryInv'
<1>1. DOMAIN heap' = DOMAIN heap
  OBVIOUS
<1>2. heap'[b] = data /\ \A i \in DOMAIN heap \ {b} : heap'[i] = heap[i]
  OBVIOUS
<1>3. heap' \in Seq({heap'[i] : i \in DOMAIN heap'})
  <2> DEFINE S == {heap[i] : i \in DOMAIN heap} \cup {data}
  <2>1. heap \in Seq(S) /\ data \in S
    <3>1. \A i \in DOMAIN heap : heap[i] \in S
      OBVIOUS
    <3> QED
      BY <3>1 DEF RegistryInv, HeapShaped
  <2>2. b \in 1 .. Len(heap)
    BY <2>1
  <2>3. heap' \in Seq(S)
    <3> HIDE DEF S
    <3> QED
      BY <2>1, <2>2, ExceptSeq
  <2> DEFINE T == {heap'[i] : i \in DOMAIN heap'}
  <2>4. \A i \in DOMAIN heap' : heap'[i] \in T
    OBVIOUS
  <2>5. heap' \in Seq(T)
    <3> HIDE DEF S, T
    <3> QED
      BY <2>3, <2>4, SeqOfItsElements
  <2> QED
    BY <2>5
<1>4. HeapShaped'
  BY <1>1, <1>2, <1>3 DEF HeapShaped, RegistryInv, Shaped
<1>5. TargetsMade'
  BY <1>1, <1>2 DEF TargetsMade, RegistryInv
<1>6. RegistryTypeOK'
  BY <1>1, <1>2 DEF RegistryInv, RegistryTypeOK, SameKey
<1> QED
  BY <1>1, <1>2, <1>4, <1>5, <1>6 DEF RegistryInv, AllRegistered

-----------------------------------------------------------------------------
LEMMA FieldKeeps ==
    ASSUME RegistryInv, NEW b, NEW i, NEW f, field(b, i, f)
    PROVE  RegistryInv'
<1> DEFINE fields == [g \in DOMAIN heap[b].fields \cup {f} |->
                        IF g = f THEN [target |-> i, offset |-> 0, size |-> 0]
                                 ELSE heap[b].fields[g]]
           data == [heap[b] EXCEPT !.fields = fields]
<1>1. b \in DOMAIN heap /\ i \in DOMAIN heap /\ Shaped(heap[b])
  BY DEF field, RegistryInv, RegistryTypeOK, HeapShaped
<1>2. heap' = [heap EXCEPT ![b] = data]
  BY <1>1 DEF field
<1>3. /\ Shaped(data) /\ data.fields = fields /\ data.kind = heap[b].kind
      /\ data.name = heap[b].name /\ data.target = heap[b].target
  <2> HIDE DEF fields
  <2> QED
    BY <1>1 DEF Shaped
<1>4. \A g \in DOMAIN fields : fields[g].target \in DOMAIN heap
  BY <1>1 DEF RegistryInv, TargetsMade
<1>5. /\ registered' = registered /\ dropped' = dropped /\ builders' = builders
      /\ handles' = handles /\ hollow' = hollow
  BY DEF field
<1> HIDE DEF fields, data
<1> QED
  BY <1>1, <1>2, <1>3, <1>4, <1>5, UpdateKeeps

\* end changes the layout, and neither what a field points to nor which there are.
LEMMA EndKeeps ==
    ASSUME RegistryInv, NEW b, end(b)
    PROVE  RegistryInv'
<1>1. b \in DOMAIN heap /\ Shaped(heap[b])
  BY DEF end, RegistryInv, RegistryTypeOK, HeapShaped
<1> DEFINE cumulative == Cumulative(heap[b].fields)
           alignment == FinalAlignment(heap[b].fields)
           size == StructSize(cumulative[Max(DOMAIN heap[b].fields) + 1], alignment)
           fields == [f \in DOMAIN heap[b].fields |->
                        [target |-> heap[b].fields[f].target,
                         offset |-> calculateOffset(cumulative[f],
                                       heap[heap[b].fields[f].target].alignment),
                         size   |-> heap[heap[b].fields[f].target].size]]
           data == LaidOut(heap[b])
<1>2. data = [heap[b] EXCEPT !.size = size, !.alignment = alignment,
                             !.fields = fields]
  BY DEF LaidOut
<1>3. /\ Shaped(data) /\ data.fields = fields /\ data.kind = heap[b].kind
      /\ data.name = heap[b].name /\ data.target = heap[b].target
  <2> HIDE DEF fields, data, size, alignment
  <2> QED
    BY <1>1, <1>2 DEF Shaped
<1>4. \A f \in DOMAIN fields : fields[f].target \in DOMAIN heap
  BY <1>1 DEF RegistryInv, TargetsMade
<1>5. /\ registered' = registered /\ dropped' = dropped /\ builders' = builders
      /\ handles' = handles \cup {b} /\ hollow' \subseteq hollow
  BY DEF end
<1>6. heap' = [heap EXCEPT ![b] = data]
  BY DEF end
<1> HIDE DEF fields, data
<1> QED
  BY <1>1, <1>3, <1>4, <1>5, <1>6, UpdateKeeps

\* The steps that make no type and change none.
LEMMA StaysKeeps ==
    ASSUME RegistryInv, UNCHANGED <<heap, registered, dropped>>,
           builders' \subseteq builders, hollow' \subseteq hollow,
           handles' \subseteq handles \cup registered
    PROVE  RegistryInv'
<1>1. RegistryTypeOK'
  BY DEF RegistryInv, RegistryTypeOK, SameKey
<1> QED
  BY <1>1 DEF RegistryInv, HeapShaped, TargetsMade, AllRegistered, Shaped

LEMMA NextRegistryInv == RegistryInv /\ [Next]_vars => RegistryInv'
<1> SUFFICES ASSUME RegistryInv, [Next]_vars PROVE RegistryInv'
  OBVIOUS
<1> DEFINE new == Len(heap) + 1
<1>1. ASSUME NEW name, defStruct(name) PROVE RegistryInv'
  <2>1. Shaped(TypeData("struct", Name(name), 0, 0, 0))
    BY DEF Shaped, TypeData
  <2> QED
    BY <1>1, <2>1, MakeKeeps DEF defStruct, TypeData
<1>2. ASSUME NEW i, ptrTo(i) PROVE RegistryInv'
  <2>1. Shaped(TypeData("pointer", Suffixed(heap[i].name, Star), PtrSize, PtrSize, i))
    BY DEF Shaped, TypeData
  <2>2. i \in DOMAIN heap
    BY <1>2 DEF ptrTo, RegistryInv, RegistryTypeOK
  <2> QED
    BY <1>2, <2>1, <2>2, MakeKeeps DEF ptrTo, TypeData
<1>3. ASSUME NEW i, NEW length, arrOf(i, length) PROVE RegistryInv'
  <2>1. Shaped(TypeData("array", Suffixed(heap[i].name, length),
                        heap[i].size * length, heap[i].alignment, 0))
    BY DEF Shaped, TypeData
  <2> QED
    BY <1>3, <2>1, MakeKeeps DEF arrOf, TypeData
<1>4. ASSUME NEW name, struct_(name) PROVE RegistryInv'
  BY <1>4, StaysKeeps DEF struct_
<1>5. ASSUME NEW b, endFails(b) \/ DropBuilder(b) PROVE RegistryInv'
  BY <1>5, StaysKeeps DEF endFails, DropBuilder, Crash
<1>6. ASSUME NEW i, UseFails(i) PROVE RegistryInv'
  BY <1>6, StaysKeeps DEF UseFails, Crash
<1>7. CASE DropRegistry
  BY <1>7, StaysKeeps DEF DropRegistry
<1>8. CASE UNCHANGED vars
  BY <1>8, StaysKeeps DEF vars
<1> QED
  BY <1>1, <1>2, <1>3, <1>4, <1>5, <1>6, <1>7, <1>8, FieldKeeps, EndKeeps DEF Next

THEOREM RegistryInvariant == Spec => []RegistryInv
  BY InitRegistryInv, NextRegistryInv, PTL DEF Spec

\* The registry never has two types of one kind and name, and only what was made
\* is referred to, whatever the client defines, drops or defines again.
THEOREM RegistryTypeCorrect == Spec => []RegistryTypeOK
<1>1. RegistryInv => RegistryTypeOK
  BY DEF RegistryInv
<1> QED
  BY <1>1, RegistryInvariant, PTL

LEMMA NothingDangles == RegistryInv => NothingDanglesWithoutDuplicates
<1> SUFFICES ASSUME RegistryInv, ~dropped, client \/ builders # {},
                    NEW i \in Referred
             PROVE  Alive(i)
  BY DEF NothingDanglesWithoutDuplicates
<1>1. i \in DOMAIN heap
  BY DEF RegistryInv, RegistryTypeOK, TargetsMade, Referred
<1> QED
  BY <1>1 DEF Alive, RegistryAlive, RegistryInv, AllRegistered

\* The weak pointers of handles, fields and pointer types find their data as long
\* as every name was registered once and somebody holds the registry.
THEOREM WeakPointersSafe == Spec => []NothingDanglesWithoutDuplicates
  BY NothingDangles, RegistryInvariant, PTL

NullExplained == crash.why = "null_pointer" => (dropped \/ (~client /\ builders = {}))

\* The null pointer dereferences of Typed and of end() have no other cause.
THEOREM NullPointersExplained == Spec => []NullExplained
<1>1. Init => NullExplained
  BY DEF Init, NullExplained, NoCrash
<1>2. RegistryInv /\ NullExplained /\ [Next]_vars => NullExplained'
  <2> SUFFICES ASSUME RegistryInv, NullExplained, [Next]_vars
               PROVE  NullExplained'
    OBVIOUS
  <2>1. ASSUME NEW i \in Referred, ~Alive(i)
        PROVE  dropped \/ (~client /\ builders = {})
    BY <2>1, NothingDangles DEF NothingDanglesWithoutDuplicates
  <2>2. ASSUME NEW b, endFails(b) PROVE NullExplained'
    <3>1. CASE crash'.why = "null_pointer"
      <4>1. PICK f \in DOMAIN heap[b].fields : ~Alive(heap[b].fields[f].target)
        <5>1. \/ crash' = [why |-> "division_by_zero", at |-> b]
              \/ \E f \in DOMAIN heap[b].fields :
                    /\ ~Alive(heap[b].fields[f].target)
                    /\ crash' = [why |-> "null_pointer", at |-> b]
          BY <2>2 DEF endFails, Crash
        <5>2. crash' # [why |-> "division_by_zero", at |-> b]
          BY <3>1
        <5> QED
          BY <5>1, <5>2
      <4>2. b \in DOMAIN heap
        BY <2>2 DEF endFails, RegistryInv, RegistryTypeOK
      <4>3. heap[b].fields[f].target \in {heap[b].fields[g].target :
                                            g \in DOMAIN heap[b].fields}
        BY <4>1
      <4>4. heap[b].fields[f].target \in Referred
        BY <4>2, <4>3 DEF Referred
      <4> QED
        BY <2>1, <2>2, <4>1, <4>4 DEF endFails, Crash, NullExplained
    <3>2. CASE crash'.why # "null_pointer"
      BY <3>2 DEF NullExplained
    <3> QED
      BY <3>1, <3>2
  <2>3. ASSUME NEW i, UseFails(i) PROVE NullExplained'
    <3>1. i \in Referred /\ ~Alive(i)
      BY <2>3 DEF UseFails, Referred
    <3> QED
      BY <2>1, <2>3, <3>1 DEF UseFails, Crash, NullExplained
  <2>4. ASSUME Running, crash' = crash PROVE NullExplained'
    BY <2>4 DEF Running, NoCrash, NullExplained
  <2>5. CASE UNCHANGED vars
    BY <2>5 DEF vars, NullExplained
  <2> QED
    BY <2>2, <2>3, <2>4, <2>5 DEF Next, defStruct, struct_, field, end,
       DropBuilder, ptrTo, arrOf, DropRegistry
<1> QED
  BY <1>1, <1>2, RegistryInvariant, PTL DEF Spec
=============================================================================
