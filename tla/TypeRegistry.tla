---------------------------- MODULE TypeRegistry -----------------------------
(***************************************************************************)
(* The type registry, include/rmf/type_registry.hpp and                     *)
(* src/type_registry.cpp: who owns the data of a type, what a handle to a   *)
(* type finds there, and how end() lays out a struct.                       *)
(*                                                                          *)
(* A type's data is an entry of heap; what points to it is its index.       *)
(* The registry and a struct's builder own data through shared pointers;    *)
(* handles (Typed and its subclasses), fields and pointer types only have   *)
(* weak ones.  Field names are numbers: the map of a struct's fields orders  *)
(* them.                                                                     *)
(***************************************************************************)
EXTENDS Integers, Sequences, FiniteSetsExt

CONSTANTS
    Primitives,     \* RMF_PRIM_TYPES: a sequence of [name, size]
    PtrSize,        \* RMF_PTR_SIZE
    StructNames, FieldNames, Lengths,   \* what the client uses
    MaxFields,      \* bound on the fields of all structs together
    MaxTypes,       \* bound on the entries of heap
    MaxSize         \* bound on the size of a struct that end() is called on

ASSUME RegistryAssumption ==
    /\ Primitives \in Seq([name : STRING, size : Nat])
    /\ \A i, j \in DOMAIN Primitives : Primitives[i].name = Primitives[j].name => i = j
    /\ PtrSize \in Nat \ {0}
    /\ FieldNames \subseteq Nat /\ Lengths \subseteq Nat
    /\ MaxFields \in Nat /\ MaxTypes \in Nat /\ MaxSize \in Nat

\* Of any two sizes one divides the other: they are powers of two.
ASSUME AlignmentAssumption ==
    LET sizes == {Primitives[i].size : i \in DOMAIN Primitives} \cup {PtrSize}
    IN  \A a, b \in sizes \ {0} : a <= b => b % a = 0

VARIABLES
    heap,       \* the data of every type ever made
    registered, \* what the maps of TypeRegistry::Data hold
    client,     \* the client still has the registry
    builders,   \* the structs that a StructBuilder holds
    handles,    \* the types the client has handles to
    crash,      \* why the program has crashed, and on which type
    dropped,    \* history: an emplace found its key taken
    hollow      \* history: v0, structs not ended yet, arrays made of such

vars == <<heap, registered, client, builders, handles, crash, dropped, hollow>>

\* The name of a type: what it is built on and, from the inside out, * or the
\* [n] of an array.
Name(base) == [base |-> base, suffix |-> <<>>]
Star == -1
Suffixed(name, mark) == [name EXCEPT !.suffix = Append(@, mark)]

NoCrash == [why |-> "none", at |-> 0]

Running == crash = NoCrash

TypeData(kind, name, size, alignment, target) ==
    [kind |-> kind, name |-> name, size |-> size, alignment |-> alignment,
     target |-> target, fields |-> <<>>]

-----------------------------------------------------------------------------
(* Ownership.                                                               *)

\* Faulty: a builder does not have a registry of its own.
RegistryOfClientAlive == client

\* A builder holds a copy of the registry, which shares its data.
RegistryAlive == client \/ builders # {}

Alive(i) == (i \in registered /\ RegistryAlive) \/ i \in builders

SameKey(a, b) == a.kind = b.kind /\ a.name = b.name

\* Faulty: the key is the name without what * and [n] add to it.
EmplaceByBaseName(data) ==
    IF \E i \in registered : /\ heap[i].kind = data.kind
                             /\ heap[i].name.base = data.name.base
    THEN registered ELSE registered \cup {Len(heap) + 1}

\* Faulty: an entry is made whether the key is taken or not.
EmplaceAlways(data) == registered \cup {Len(heap) + 1}

\* The first type of a name stays; the kinds have maps of their own.
Emplace(data) ==
    IF \E i \in registered : SameKey(heap[i], data)
    THEN registered ELSE registered \cup {Len(heap) + 1}

Make(data) ==
    /\ Len(heap) < MaxTypes
    /\ heap' = Append(heap, data)
    /\ registered' = Emplace(data)
    /\ dropped' = (dropped \/ \E i \in registered : SameKey(heap[i], data))

Crash(why, i) ==
    /\ crash' = [why |-> why, at |-> i]
    /\ UNCHANGED <<heap, registered, client, builders, handles, dropped, hollow>>

-----------------------------------------------------------------------------
(* Layout.                                                                  *)

calculateOffset(currentOffset, memberAlignment) ==
    LET padding == memberAlignment - (currentOffset % memberAlignment)
    IN  currentOffset + (IF padding = memberAlignment THEN 0 ELSE padding)

\* The fields whose names come before f.
FieldsBefore(fields, f) == {g \in DOMAIN fields : g < f}

\* Faulty: the running offset moves on by the alignment.
AdvanceByAlignment(cumulativeOffset, data) == cumulativeOffset + data.alignment

Advance(cumulativeOffset, data) == cumulativeOffset + data.size

\* The running offset when end() comes to the k-th field name; it leaves the
\* padding before the fields out.
Cumulative(fields) ==
    LET names == DOMAIN fields
        cumulative[k \in 0 .. Max(names) + 1] ==
            IF k = 0 THEN 0
            ELSE IF k - 1 \in names
                 THEN Advance(cumulative[k - 1], heap[fields[k - 1].target])
                 ELSE cumulative[k - 1]
    IN  cumulative

FinalAlignment(fields) ==
    Max({heap[fields[f].target].alignment : f \in DOMAIN fields})

\* Faulty: the size is the last running offset.
StructSizeUnpadded(total, alignment) == total

StructSize(total, alignment) == calculateOffset(total, alignment)

LaidOut(data) ==
    LET cumulative == Cumulative(data.fields)
        alignment  == FinalAlignment(data.fields)
    IN  [data EXCEPT
            !.size      = StructSize(cumulative[Max(DOMAIN data.fields) + 1], alignment),
            !.alignment = alignment,
            !.fields    = [f \in DOMAIN @ |->
                [target |-> @[f].target,
                 offset |-> calculateOffset(cumulative[f],
                                            heap[@[f].target].alignment),
                 size   |-> heap[@[f].target].size]]]

-----------------------------------------------------------------------------
(* The operations.                                                          *)

Init ==
    /\ heap = [i \in DOMAIN Primitives |->
                TypeData("primitive", Name(Primitives[i].name),
                         Primitives[i].size, Primitives[i].size, 0)]
    /\ registered = DOMAIN Primitives
    /\ client = TRUE
    /\ builders = {}
    /\ handles = DOMAIN Primitives
    /\ crash = NoCrash
    /\ dropped = FALSE
    /\ hollow = {i \in DOMAIN Primitives : Primitives[i].size = 0}

defStruct(name) ==
    /\ Running /\ client
    /\ Make(TypeData("struct", Name(name), 0, 0, 0))
    /\ builders' = builders \cup {Len(heap) + 1}
    /\ hollow' = hollow \cup {Len(heap) + 1}
    /\ UNCHANGED <<client, handles, crash>>

\* A name that is taken is left as it is.
field(b, i, f) ==
    /\ Running /\ b \in builders /\ i \in handles
    /\ f \notin DOMAIN heap[b].fields
    /\ MapThenSumSet(LAMBDA j : Cardinality(DOMAIN heap[j].fields), DOMAIN heap)
         < MaxFields
    /\ heap' = [heap EXCEPT ![b].fields =
                  [g \in DOMAIN @ \cup {f} |->
                     IF g = f THEN [target |-> i, offset |-> 0, size |-> 0]
                              ELSE @[g]]]
    /\ UNCHANGED <<registered, client, builders, handles, crash, dropped, hollow>>

\* The first field in the order of names whose type is gone or has alignment 0
\* is what end() fails on.
FailsOn(data, f) ==
    LET i == data.fields[f].target
    IN  ~Alive(i) \/ heap[i].alignment = 0

end(b) ==
    /\ Running /\ b \in builders
    /\ heap[b].size <= MaxSize
    /\ DOMAIN heap[b].fields # {}
    /\ \A f \in DOMAIN heap[b].fields : ~FailsOn(heap[b], f)
    /\ heap' = [heap EXCEPT ![b] = LaidOut(@)]
    /\ handles' = handles \cup {b}
    /\ hollow' = hollow \ {b}
    /\ UNCHANGED <<registered, client, builders, crash, dropped>>

endFails(b) ==
    /\ Running /\ b \in builders
    /\ \/ DOMAIN heap[b].fields = {} /\ Crash("division_by_zero", b)
       \/ \E f \in DOMAIN heap[b].fields :
             /\ FailsOn(heap[b], f)
             /\ \A g \in FieldsBefore(heap[b].fields, f) : ~FailsOn(heap[b], g)
             /\ IF Alive(heap[b].fields[f].target)
                THEN Crash("division_by_zero", b)
                ELSE Crash("null_pointer", b)

DropBuilder(b) ==
    /\ Running /\ b \in builders
    /\ builders' = builders \ {b}
    /\ UNCHANGED <<heap, registered, client, handles, crash, dropped, hollow>>

\* A name that is not there throws, and nothing changes.
struct_(name) ==
    /\ Running /\ client
    /\ \E i \in registered :
          /\ heap[i].kind = "struct" /\ heap[i].name = Name(name)
          /\ handles' = handles \cup {i}
    /\ UNCHANGED <<heap, registered, client, builders, crash, dropped, hollow>>

ptrTo(i) ==
    /\ Running /\ client /\ i \in handles /\ Alive(i)
    /\ Make(TypeData("pointer", Suffixed(heap[i].name, Star), PtrSize, PtrSize, i))
    /\ handles' = handles \cup {Len(heap) + 1}
    /\ UNCHANGED <<client, builders, crash, hollow>>

arrOf(i, length) ==
    /\ Running /\ client /\ i \in handles /\ Alive(i)
    /\ Make(TypeData("array", Suffixed(heap[i].name, length),
                     heap[i].size * length, heap[i].alignment, 0))
    /\ handles' = handles \cup {Len(heap) + 1}
    /\ hollow' = IF i \in hollow THEN hollow \cup {Len(heap) + 1} ELSE hollow
    /\ UNCHANGED <<client, builders, crash>>

\* size, alignment, name, type of a handle, and ptrTo and arrOf which ask for
\* its name, take the type's data to be there.
UseFails(i) ==
    /\ Running /\ i \in handles /\ ~Alive(i)
    /\ Crash("null_pointer", i)

DropRegistry ==
    /\ Running /\ client
    /\ client' = FALSE
    /\ UNCHANGED <<heap, registered, builders, handles, crash, dropped, hollow>>

Next ==
    \/ \E name \in StructNames : defStruct(name) \/ struct_(name)
    \/ \E b \in builders :
          \/ \E i \in handles, f \in FieldNames : field(b, i, f)
          \/ end(b) \/ endFails(b) \/ DropBuilder(b)
    \/ \E i \in handles :
          \/ ptrTo(i) \/ \E length \in Lengths : arrOf(i, length)
          \/ UseFails(i)
    \/ DropRegistry

Spec == Init /\ [][Next]_vars

-----------------------------------------------------------------------------
(* Properties.                                                              *)

\* The registry never has two types of the same kind and name (the maps of
\* TypeRegistry::Data), and only what was made is referred to.
RegistryTypeOK ==
    /\ registered \subseteq DOMAIN heap
    /\ builders \subseteq DOMAIN heap
    /\ handles \subseteq DOMAIN heap
    /\ hollow \subseteq DOMAIN heap
    /\ \A i, j \in registered : SameKey(heap[i], heap[j]) => i = j

\* As long as every name is registered once and somebody has the registry, no
\* handle, no field and no pointer type refers to a type whose data is gone:
\* the weak pointers of Typed, FieldData and PointerData are safe.
Referred ==
    handles
    \cup {heap[i].target : i \in {j \in DOMAIN heap : heap[j].kind = "pointer"}}
    \cup UNION {{heap[i].fields[f].target : f \in DOMAIN heap[i].fields} :
                  i \in DOMAIN heap}

NothingDanglesWithoutDuplicates ==
    (~dropped /\ (client \/ builders # {})) => \A i \in Referred : Alive(i)

\* While the registry is there, the data of every type the client has a handle to
\* is there: TypeRegistry is, its comment says, "keeping track and owning all types".
TypesOwned == client => \A i \in handles : Alive(i)

\* However end() came to its offsets, every field lies inside its struct, at an
\* offset its type's alignment allows: bytesAtField reads inside the snapshot.
\* (A struct may be ended again, with another alignment, after it was used.)
FieldsInsideStruct ==
    \A i \in DOMAIN heap : \A f \in DOMAIN heap[i].fields :
        LET here == heap[i].fields[f]
        IN  /\ here.offset + here.size <= heap[i].size
            /\ (here.size > 0 /\ heap[here.target].kind # "struct") =>
                  here.offset % heap[here.target].alignment = 0

\* Two fields share bytes only when padding was put before the first of them or
\* a field before it: that padding is missing from the offsets that follow.
Sizes(fields) == [g \in DOMAIN fields |-> fields[g].size]

Padded(fields, f) ==
    fields[f].offset > SumFunctionOnSet(Sizes(fields), FieldsBefore(fields, f))

Overlap(x, y) == x.offset < y.offset + y.size /\ y.offset < x.offset + x.size

OverlapNeedsPadding ==
    \A i \in DOMAIN heap :
        LET fields == heap[i].fields
        IN  \A f, g \in DOMAIN fields :
              (f < g /\ Overlap(fields[f], fields[g])) =>
                 \E h \in DOMAIN fields : h <= f /\ Padded(fields, h)

\* The program crashes on a null pointer only when a name was registered twice
\* or registry and builders are all gone, and divides by zero only when it ends
\* a struct without fields or one with a field of type v0, of a struct that is
\* not ended, or of an array made of such a type.
CrashesExplained ==
    /\ crash.why = "null_pointer" => (dropped \/ (~client /\ builders = {}))
    /\ crash.why = "division_by_zero" =>
          LET fields == heap[crash.at].fields
          IN  DOMAIN fields = {} \/ \E f \in DOMAIN fields : fields[f].target \in hollow
=============================================================================
