-------------------------------- MODULE Scans --------------------------------
(***************************************************************************)
(* The scans of include/rmf/op.hpp over the buffers of one or two captured  *)
(* nodes.  A snapshot is a record whose field data is the sequence of bytes  *)
(* read; a scan returns the sequence of nodes it found, the hits.           *)
(*                                                                          *)
(* The numbers are unsigned, of NumSize bytes aligned to NumAlign.  A byte  *)
(* has Base values.                                                         *)
(***************************************************************************)
EXTENDS Maps

CONSTANTS
    Base,       \* the number of values of a byte
    NumSize,    \* sizeof(N)
    NumAlign    \* alignof(N)

ASSUME NumberAssumption ==
    /\ Base \in Nat \ {0} /\ NumSize \in Nat \ {0} /\ NumAlign \in Nat \ {0}
    /\ NumSize % NumAlign = 0

span(n) == n.snap.data

\* What Node<Map> keeps of a node with a snapshot.
Bare(n) == [n EXCEPT !.snap = NoSnap]

\* The number of the bytes at the offset o, the lowest byte first.
Value(bytes, o) ==
    LET top[k \in 0 .. NumSize] ==
            IF k = 0 THEN 0
                     ELSE top[k - 1] * Base + bytes[o + NumSize - k + 1]
    IN  top[NumSize]

Wrapped(number) == number % (Base ^ NumSize)

\* A number without its k lowest bytes, and its bytes, the lowest first.
Rest(number, k) ==
    LET rest[j \in 0 .. k] == IF j = 0 THEN number ELSE rest[j - 1] \div Base
    IN  rest[k]

ByteOf(number, k) == Rest(number, k) % Base

-----------------------------------------------------------------------------
(* Scans by number.                                                         *)

\* How far the first aligned address is from the beginning of the node.
FirstAligned(m) ==
    LET below == (tbegin(m) \div NumAlign) * NumAlign
    IN  IF below < tbegin(m) THEN NumAlign + below - tbegin(m) ELSE 0

\* findNumExact compares with the end of the node instead.
FirstAlignedExact(m) ==
    LET below == (tbegin(m) \div NumAlign) * NumAlign
    IN  IF below < tend(m) THEN NumAlign + below - tbegin(m) ELSE 0

\* The offsets a scan looks at.
Slots(first, length) ==
    Those([k \in 1 .. length |-> first + (k - 1) * NumAlign],
          LAMBDA o : o + NumSize < length)

\* Faulty: the offset replaces the relative address.
HitsAtOffset(n, offsets) ==
    [i \in DOMAIN offsets |->
        [n EXCEPT !.map.relativeAddress = offsets[i], !.map.relativeSize = NumSize]]

HitsAt(n, offsets) ==
    [i \in DOMAIN offsets |-> [n EXCEPT !.map = PartOf(@, offsets[i], NumSize)]]

NumSlots(n) == Slots(FirstAligned(n.map), Len(span(n)))

\* The later value less the earlier one, in the width of the numbers.
Difference(a, b, o) == Wrapped(Value(span(b), o) - Value(span(a), o))

findNumChanged(a, b, minDifference) ==
    HitsAt(Bare(a), Those(NumSlots(a),
                          LAMBDA o : Difference(a, b, o) >= minDifference))

findNumUnchanged(a, b, maxDifference) ==
    HitsAt(Bare(a), Those(NumSlots(a),
                          LAMBDA o : Difference(a, b, o) <= maxDifference))

findNumWithinRange(n, low, high) ==
    HitsAt(Bare(n), Those(NumSlots(n),
                          LAMBDA o : Value(span(n), o) \in low .. high))

\* The hits keep the snapshot of the node that was scanned.
findNumExact(n, number) ==
    HitsAt(n, Those(Slots(FirstAlignedExact(n.map), Len(span(n))),
                    LAMBDA o : Value(span(n), o) = number))

-----------------------------------------------------------------------------
(* Scans by block.  Neighbouring blocks make one hit.                       *)

Blocks(length, compareSize) ==
    [k \in 1 .. (length + compareSize - 1) \div compareSize |->
        LET offset == (k - 1) * compareSize
        IN  [offset |-> offset,
             size   |-> IF length - offset > compareSize
                        THEN compareSize ELSE length - offset]]

\* Faulty: the offset replaces the relative address.
AddBlockAtOffset(hits, n, block) ==
    LET last == Len(hits)
    IN  IF last > 0 /\ rend(hits[last].map) = block.offset
        THEN [hits EXCEPT ![last].map.relativeSize = @ + block.size]
        ELSE Append(hits, [n EXCEPT !.map.relativeAddress = block.offset,
                                    !.map.relativeSize = block.size])

AddBlock(hits, n, block) ==
    LET last == Len(hits)
    IN  IF last > 0 /\ rend(hits[last].map) = n.map.relativeAddress + block.offset
        THEN [hits EXCEPT ![last].map.relativeSize = @ + block.size]
        ELSE Append(hits, [n EXCEPT !.map = PartOf(@, block.offset, block.size)])

BlockOf(bytes, block) ==
    SubSeq(bytes, block.offset + 1, block.offset + block.size)

findBlocks(a, b, compareSize, same) ==
    LET blocks == Blocks(Len(span(a)), compareSize)
        hits[k \in 0 .. Len(blocks)] ==
            IF k = 0 THEN <<>>
            ELSE IF (BlockOf(span(a), blocks[k]) = BlockOf(span(b), blocks[k])) = same
                 THEN AddBlock(hits[k - 1], Bare(a), blocks[k])
                 ELSE hits[k - 1]
    IN  hits[Len(blocks)]

findChanged(a, b, compareSize)   == findBlocks(a, b, compareSize, FALSE)
findUnchanged(a, b, compareSize) == findBlocks(a, b, compareSize, TRUE)

-----------------------------------------------------------------------------
(* The scan for a string looks at every offset of the buffer and compares   *)
(* the whole string there, with the bytes that lie beyond the buffer where  *)
(* it is too short.                                                         *)

\* The offset replaces the relative address; the hits keep the snapshot.
StringHit(n, offset, size) ==
    [n EXCEPT !.map.relativeAddress = offset, !.map.relativeSize = size]

findString(n, str, beyond) ==
    LET text  == span(n) \o beyond
        found == Those([k \in DOMAIN span(n) |-> k - 1],
                       LAMBDA o : SubSeq(text, o + 1, o + Len(str)) = str)
    IN  [i \in DOMAIN found |-> StringHit(n, found[i], Len(str))]

-----------------------------------------------------------------------------
(* Reads past the end of the second buffer: a comparison runs over the       *)
(* length of the first one.                                                 *)

BlocksOverread(a, b) == Len(span(b)) < Len(span(a))

SlotsOverread(a, b) ==
    \E o \in ToSet(NumSlots(a)) : o + NumSize > Len(span(b))

\* The hits of all nodes, in the order of the nodes.
consolidate(hitsOfNodes) == FlattenSeq(hitsOfNodes)
=============================================================================
