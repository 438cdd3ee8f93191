-------------------------------- MODULE Maps ---------------------------------
(***************************************************************************)
(* Nodes, the maps they carry, and the operations on vectors of them:       *)
(* include/rmf/map.hpp, include/rmf/detail_map.tpp, src/map.cpp, and        *)
(* getMaps of include/rmf/op.hpp.                                           *)
(*                                                                          *)
(* A node is a map (which part of which region) and a snapshot.  A region   *)
(* name is a sequence of words, permissions are a set of flags.             *)
(***************************************************************************)
EXTENDS Integers, Sequences, SequencesExt

CONSTANTS
    PageSize,   \* sysconf(_SC_PAGE_SIZE)
    NoSnap      \* the snapshot of a node that was never captured

ASSUME PageSizeAssumption == PageSize \in Nat \ {0}

tbegin(m) == m.parentAddress + m.relativeAddress
tend(m)   == m.parentAddress + m.relativeAddress + m.relativeSize
rend(m)   == m.relativeAddress + m.relativeSize
pbegin(m) == m.parentAddress
pend(m)   == m.parentAddress + m.parentSize

Addresses(m) == tbegin(m) .. tend(m) - 1

\* The part of m from offset on, size bytes long.
PartOf(m, offset, size) ==
    [m EXCEPT !.relativeAddress = @ + offset, !.relativeSize = size]

-----------------------------------------------------------------------------
(* The lines of /proc/<pid>/maps and what getMaps makes of them.            *)

PermOf == [r |-> "Read", w |-> "Write", x |-> "Execute", s |-> "Shared"]

\* The letters may come in any order; other letters mean nothing.
parsePerms(letters) == {PermOf[c] : c \in letters \cap DOMAIN PermOf}

\* A region without a name is numbered among those without one.
NameOf(lines, i) ==
    IF lines[i].name # <<>>
    THEN lines[i].name
    ELSE <<"UnnamedRegion", ToString(Cardinality({j \in 1 .. i : lines[j].name = <<>>}))>>

getMaps(lines) ==
    [i \in DOMAIN lines |->
        [map  |-> [parentAddress   |-> lines[i].start,
                   parentSize      |-> lines[i].end - lines[i].start,
                   relativeAddress |-> 0,
                   relativeSize    |-> lines[i].end - lines[i].start,
                   regionName      |-> NameOf(lines, i),
                   perms           |-> parsePerms(lines[i].perms)],
         snap |-> NoSnap]]

-----------------------------------------------------------------------------
(* The filters keep the order of the nodes they keep.                       *)

\* The elements of seq that pass the test, as SelectSeq gives them, by the
\* positions they have.
Nth(positions, k) ==
    CHOOSE i \in positions : Cardinality({j \in positions : j <= i}) = k

SelectAt(seq, positions) ==
    [k \in 1 .. Cardinality(positions) |-> seq[Nth(positions, k)]]

Those(seq, Test(_)) == SelectAt(seq, {i \in DOMAIN seq : Test(seq[i])})

minSize(nodes, size) == Those(nodes, LAMBDA n : n.map.relativeSize >= size)
maxSize(nodes, size) == Those(nodes, LAMBDA n : n.map.relativeSize <= size)

exactName(nodes, name) == Those(nodes, LAMBDA n : n.map.regionName = name)

subName(nodes, part) ==
    Those(nodes, LAMBDA n : part \in SubSeqs(n.map.regionName))

exactPerms(nodes, letters) ==
    Those(nodes, LAMBDA n : n.map.perms = parsePerms(letters))

hasPerms(nodes, letters) ==
    Those(nodes, LAMBDA n : parsePerms(letters) \subseteq n.map.perms)

\* Not all of the permissions; some of them may be there.
notPerms(nodes, letters) ==
    Those(nodes, LAMBDA n : ~(parsePerms(letters) \subseteq n.map.perms))

-----------------------------------------------------------------------------
(* active reads one entry of the pagemap per page.  A page counts when its  *)
(* entry can be read and has the active bit: these are the pages seen.      *)

PageOf(address) == address \div PageSize

\* The addresses the loop over one node visits.
PageAddresses(m) ==
    [k \in 1 .. (m.relativeSize + PageSize - 1) \div PageSize |->
        tbegin(m) + (k - 1) * PageSize]

Visits(nodes) ==
    FlattenSeq([i \in DOMAIN nodes |->
        [k \in DOMAIN PageAddresses(nodes[i].map) |->
            [node |-> nodes[i], address |-> PageAddresses(nodes[i].map)[k]]]])

\* Faulty: a page after a gap lengthens the last region too.
AddPageOverGap(regions, visit) ==
    LET offset == visit.address - visit.node.map.parentAddress
        last   == Len(regions)
    IN  IF last > 0 /\ rend(regions[last].map) <= offset
        THEN [regions EXCEPT ![last].map.relativeSize = @ + PageSize]
        ELSE Append(regions, [visit.node EXCEPT !.map.relativeSize = PageSize,
                                                !.map.relativeAddress = offset])

\* An active page lengthens the last region when it starts where that region
\* ends, relative to the parent of the node at hand, and else starts a region.
AddPage(regions, visit) ==
    LET offset == visit.address - visit.node.map.parentAddress
        last   == Len(regions)
    IN  IF last > 0 /\ rend(regions[last].map) = offset
        THEN [regions EXCEPT ![last].map.relativeSize = @ + PageSize]
        ELSE Append(regions, [visit.node EXCEPT !.map.relativeSize = PageSize,
                                                !.map.relativeAddress = offset])

active(nodes, seen) ==
    LET visits == Visits(nodes)
        regions[k \in 0 .. Len(visits)] ==
            IF k = 0 THEN <<>>
            ELSE IF PageOf(visits[k].address) \in seen
                 THEN AddPage(regions[k - 1], visits[k])
                 ELSE regions[k - 1]
    IN  regions[Len(visits)]
-----------------------------------------------------------------------------
(* What active is for: it keeps exactly the pages it sees, each in its own    *)
(* region, as long as no page seen in one node ends at the offset, in its    *)
(* region, where a page seen in a later node starts in another region: active *)
(* would take the two for neighbours.                                        *)

SeenPages(n, seen) == {p \in seen : p * PageSize \in Addresses(n.map)}

WithinRegion(n) == pbegin(n.map) <= tbegin(n.map) /\ tend(n.map) <= pend(n.map)

\* The node is whole pages of its region.
PagesOfRegion(n) == /\ WithinRegion(n)
                    /\ tbegin(n.map) % PageSize = 0
                    /\ n.map.relativeSize % PageSize = 0

SameRegion(a, b) == pbegin(a.map) = pbegin(b.map) /\ pend(a.map) = pend(b.map)

Confusable(nodes, seen) ==
    \E i, j \in DOMAIN nodes :
        /\ i < j /\ ~SameRegion(nodes[i], nodes[j])
        /\ \E p \in SeenPages(nodes[i], seen), q \in SeenPages(nodes[j], seen) :
              (p + 1) * PageSize - pbegin(nodes[i].map) = q * PageSize - pbegin(nodes[j].map)

Held(nodes) == UNION {Addresses(nodes[i].map) : i \in DOMAIN nodes}

KeepsSeen(nodes, seen, kept) ==
    /\ Held(kept) = {a \in Held(nodes) : PageOf(a) \in seen}
    /\ \A i \in DOMAIN kept : WithinRegion(kept[i])
=============================================================================
