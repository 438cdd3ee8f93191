------------------------------- MODULE Session -------------------------------
(***************************************************************************)
(* A forensics session on a running process: the client lists the maps of   *)
(* the process, filters them, captures them (src/snapshot.cpp), keeps a copy *)
(* of a capture, captures again, and scans what it has (include/rmf/op.hpp), *)
(* while the process writes its memory, gives pages back and may exit.      *)
(*                                                                          *)
(* A buffer is never written after its capture (capture installs a new one), *)
(* so the shared pointer to it is its value.  world, and the fields map,     *)
(* began and ended of a snapshot, are history: no action of the client       *)
(* depends on them.                                                         *)
(***************************************************************************)
EXTENDS Scans, FiniteSetsExt

CONSTANTS
    Layout,         \* the lines of /proc/<pid>/maps when they are listed
    Memories,       \* the initial memories: functions from address to byte
    ChunkSize,      \* chunkSize of readProcess
    Filters,        \* the sizes, names and permissions the client filters by
    CompareSizes, Numbers, Strings,     \* what it scans for
    Buffers,        \* the buffers it makes snapshots of without a process
    Reach,          \* how far down the client widens a hit
    MaxEvents,      \* bound on what the process does
    MaxSteps,       \* bound on the captures and scans
    MaxNodes        \* bound on the nodes captured or scanned together

ASSUME SessionAssumption ==
    /\ ChunkSize \in Nat \ {0} /\ Reach \in Nat \ {0}
    /\ MaxEvents \in Nat /\ MaxSteps \in Nat /\ MaxNodes \in Nat
    /\ CompareSizes \subseteq Nat \ {0}
    /\ Numbers \subseteq Nat /\ \A number \in Numbers : Rest(number, NumSize) = 0
    /\ Strings \subseteq Seq(0 .. Base - 1) \ {<<>>}
    /\ Buffers \subseteq Seq(0 .. Base - 1)
    /\ Layout \in Seq([start : Nat, end : Nat, perms : SUBSET STRING,
                       name : Seq(STRING)])
    /\ \A i \in DOMAIN Layout : Layout[i].start < Layout[i].end
    /\ \A memory \in Memories :
          /\ DOMAIN memory \subseteq Nat
          /\ memory \in [DOMAIN memory -> 0 .. Base - 1]

VARIABLES
    world,      \* the memories of the process so far, the last one is now
    vec,        \* the client's vector of nodes
    before,     \* an earlier copy of it
    op,         \* the captures under way
    steps,      \* how many captures and scans there were
    overread    \* a scan has read past the end of a buffer

vars == <<world, vec, before, op, steps, overread>>

Now == world[Len(world)]

Idle == [began |-> 0, todo |-> {}, data |-> <<>>]

Ready == op = Idle /\ ~overread

Captured(nodes) == \A i \in DOMAIN nodes : nodes[i].snap # NoSnap

\* The snapshot was read from the process.
OfProcess(n) == n.snap # NoSnap /\ n.snap.began > 0

Init ==
    /\ world \in {<<memory>> : memory \in Memories}
    /\ vec = getMaps(Layout)
    /\ before = <<>>
    /\ op = Idle
    /\ steps = 0
    /\ overread = FALSE

-----------------------------------------------------------------------------
(* The process.                                                             *)

Event(memory) ==
    /\ ~overread
    /\ Len(world) <= MaxEvents
    /\ memory # Now
    /\ world' = Append(world, memory)
    /\ UNCHANGED <<vec, before, op, steps, overread>>

Write == \E a \in DOMAIN Now, v \in 0 .. Base - 1 :
            Event([Now EXCEPT ![a] = v])

Unmap == \E page \in {PageOf(a) : a \in DOMAIN Now} :
            Event([a \in {b \in DOMAIN Now : PageOf(b) # page} |-> Now[a]])

Exit == Event(<<>>)

-----------------------------------------------------------------------------
(* Choosing what to look at, before anything is captured.                   *)

Fresh == Ready /\ \A i \in DOMAIN vec : vec[i].snap = NoSnap

Select(nodes) ==
    /\ Fresh
    /\ vec' = nodes
    /\ UNCHANGED <<world, before, op, steps, overread>>

FilterSize == \E size \in Filters.sizes :
                \/ Select(minSize(vec, size))
                \/ Select(maxSize(vec, size))

FilterName == \E name \in Filters.names :
                \/ Select(exactName(vec, name))
                \/ Select(subName(vec, name))

FilterPerms == \E letters \in Filters.perms :
                \/ Select(exactPerms(vec, letters))
                \/ Select(hasPerms(vec, letters))
                \/ Select(notPerms(vec, letters))

\* Only pages the process has can be seen as active, and not all of them are.
FilterActive(seen) ==
    /\ seen \subseteq {PageOf(a) : a \in DOMAIN Now}
    /\ Select(active(vec, seen))

-----------------------------------------------------------------------------
(* Capturing: the nodes are read independently of each other, each in       *)
(* chunks.  The kernel copies page by page and stops at a page it cannot     *)
(* read; it reports failure when that is the first one.                     *)

\* A negative size makes the resize of the buffer throw; no map is empty.
Readable(m) == tbegin(m) \in Int /\ m.relativeSize \in Nat \ {0}

Capture ==
    /\ Ready
    /\ \A i \in DOMAIN vec : Readable(vec[i].map)
    /\ Len(vec) \in 1 .. MaxNodes
    /\ steps < MaxSteps
    /\ steps' = steps + 1
    /\ op' = [began |-> Len(world), todo |-> DOMAIN vec,
              data |-> [i \in DOMAIN vec |-> <<>>]]
    /\ UNCHANGED <<world, vec, before, overread>>

\* Faulty: a whole chunk is asked for, whatever is left.
RequestWhole(size, totalBytesRead) == ChunkSize

Request(size, totalBytesRead) ==
    IF size - totalBytesRead > ChunkSize THEN ChunkSize
                                         ELSE size - totalBytesRead

\* Where the next read of node i starts.
ReadHead(i) == tbegin(vec[i].map) + Len(op.data[i])

\* What the kernel may copy of a request: pages up to one it cannot read.
Copies(head, request) ==
    {k \in 1 .. request :
        /\ k = request \/ (head + k) % PageSize = 0
        /\ head .. head + k - 1 \subseteq DOMAIN Now}

Finish(i, bytes) ==
    /\ vec' = [vec EXCEPT ![i] =
                [map  |-> vec[i].map,
                 snap |-> [data |-> bytes, map |-> vec[i].map,
                           began |-> op.began, ended |-> Len(world)]]]
    /\ op' = IF op.todo = {i} THEN Idle ELSE [op EXCEPT !.todo = @ \ {i}]

\* Faulty: one read is all there is.
ReadOnce(i) ==
    /\ i \in op.todo
    /\ \E k \in Copies(ReadHead(i), Request(vec[i].map.relativeSize, 0)) :
          Finish(i, [j \in 1 .. k |-> Now[ReadHead(i) + j - 1]])
    /\ UNCHANGED <<world, before, steps, overread>>

ReadSome(i) ==
    /\ i \in op.todo
    /\ \E k \in Copies(ReadHead(i),
                       Request(vec[i].map.relativeSize, Len(op.data[i]))) :
          LET bytes == op.data[i] \o [j \in 1 .. k |-> Now[ReadHead(i) + j - 1]]
          IN  \/ /\ Len(bytes) < vec[i].map.relativeSize
                 /\ op' = [op EXCEPT !.data[i] = bytes]
                 /\ UNCHANGED vec
              \/ /\ Len(bytes) >= vec[i].map.relativeSize
                 /\ Finish(i, bytes)
    /\ UNCHANGED <<world, before, steps, overread>>

\* Faulty: what was read before the failure is kept.
LeftAfterFailureKept(bytes) == bytes

\* The buffer is cleared when something had been read, and else resized to 0.
LeftAfterFailure(bytes) == <<>>

ReadFails(i) ==
    /\ i \in op.todo
    /\ ReadHead(i) \notin DOMAIN Now
    /\ Finish(i, LeftAfterFailure(op.data[i]))
    /\ UNCHANGED <<world, before, steps, overread>>

\* The client copies its vector: the copy holds on to the buffers of now.
Keep ==
    /\ Ready /\ Captured(vec)
    /\ before' = vec
    /\ UNCHANGED <<world, vec, op, steps, overread>>

\* A short hit is made to reach further down, as for the bytes before a string or
\* for the struct around a field.  The snapshot stays.
Widen ==
    /\ Ready /\ vec # <<>> /\ Captured(vec)
    /\ \A i \in DOMAIN vec : vec[i].map.relativeSize < Reach
    /\ vec' = [i \in DOMAIN vec |->
                 [vec[i] EXCEPT !.map = PartOf(@, -Reach, @.relativeSize + Reach)]]
    /\ UNCHANGED <<world, before, op, steps, overread>>

\* A node that is nowhere in the process (for a client that captured nothing).
FromBuffer(bytes) ==
    LET m == [parentAddress |-> 0, parentSize |-> Len(bytes),
              relativeAddress |-> 0, relativeSize |-> Len(bytes),
              regionName |-> <<>>, perms |-> {}]
    IN  /\ Ready
        /\ \A i \in DOMAIN vec : ~OfProcess(vec[i])
        /\ vec' = <<[map |-> m, snap |-> [data |-> bytes, map |-> m,
                                          began |-> 0, ended |-> 0]]>>
        /\ UNCHANGED <<world, before, op, steps, overread>>

-----------------------------------------------------------------------------
(* Scanning all nodes; the hits become the client's vector.  A read past the *)
(* end of a buffer is undefined: the session is not followed any further.    *)

ScanReady ==
    /\ Ready /\ Captured(vec)
    /\ Len(vec) \in 1 .. MaxNodes
    /\ steps < MaxSteps

PairReady == ScanReady /\ Len(before) = Len(vec)

Found(hits) ==
    /\ vec' = consolidate(hits)
    /\ before' = <<>>
    /\ steps' = steps + 1
    /\ UNCHANGED <<world, op, overread>>

Overread ==
    /\ overread' = TRUE
    /\ steps' = steps + 1
    /\ UNCHANGED <<world, vec, before, op>>

\* The nodes in over are those whose scan reads past the end.
Outcome(over, hits) ==
    \/ over # {} /\ Overread
    \/ over = {} /\ Found(hits)

BlocksOver == {i \in DOMAIN vec : BlocksOverread(before[i], vec[i])}

SlotsOver == {i \in DOMAIN vec : SlotsOverread(before[i], vec[i])}

ScanChanged(size) ==
    /\ PairReady
    /\ Outcome(BlocksOver,
               [i \in DOMAIN vec |-> findChanged(before[i], vec[i], size)])

ScanUnchanged(size) ==
    /\ PairReady
    /\ Outcome(BlocksOver,
               [i \in DOMAIN vec |-> findUnchanged(before[i], vec[i], size)])

ScanNumChanged(minDifference) ==
    /\ PairReady
    /\ Outcome(SlotsOver,
               [i \in DOMAIN vec |-> findNumChanged(before[i], vec[i], minDifference)])

ScanNumUnchanged(maxDifference) ==
    /\ PairReady
    /\ Outcome(SlotsOver,
               [i \in DOMAIN vec |-> findNumUnchanged(before[i], vec[i], maxDifference)])

ScanNumWithinRange(low, high) ==
    /\ ScanReady
    /\ Found([i \in DOMAIN vec |-> findNumWithinRange(vec[i], low, high)])

ScanNumExact(number) ==
    /\ ScanReady
    /\ Found([i \in DOMAIN vec |-> findNumExact(vec[i], number)])

ScanString(str, beyond) ==
    /\ ScanReady
    /\ Found([i \in DOMAIN vec |-> findString(vec[i], str, beyond)])

Beyond(str) == [1 .. Len(str) - 1 -> 0 .. Base - 1]

-----------------------------------------------------------------------------
Process == Write \/ Unmap \/ Exit

Choose ==
    \/ FilterSize \/ FilterName \/ FilterPerms
    \/ \E seen \in SUBSET {PageOf(a) : a \in DOMAIN Now} : FilterActive(seen)

Reading == \E i \in op.todo : ReadSome(i) \/ ReadFails(i)

Scan ==
    \/ \E size \in CompareSizes : ScanChanged(size) \/ ScanUnchanged(size)
    \/ \E d \in Numbers : ScanNumChanged(d) \/ ScanNumUnchanged(d)
    \/ \E low, high \in Numbers : low <= high /\ ScanNumWithinRange(low, high)
    \/ \E number \in Numbers : ScanNumExact(number)
    \/ \E str \in Strings : \E beyond \in Beyond(str) : ScanString(str, beyond)

Next ==
    \/ Process \/ Choose
    \/ Capture \/ Reading \/ Keep \/ Widen
    \/ \E bytes \in Buffers : FromBuffer(bytes)
    \/ Scan

Spec == Init /\ [][Next]_vars

-----------------------------------------------------------------------------
(* Properties.                                                              *)

\* The bytes an address had between two moments of the history.
BytesAt(a, from, to) ==
    {world[t][a] : t \in {u \in from .. to : a \in DOMAIN world[u]}}

\* The captures of a node that was read from the process and not moved since.
Faithful(n) == OfProcess(n) /\ n.snap.map = n.map

\* The byte was at the address at a moment of the capture.
WasThere(n, a, byte) == byte \in BytesAt(a, n.snap.began, n.snap.ended)

\* The byte was at the address all through the capture.
StayedThere(n, a, byte) ==
    \A t \in n.snap.began .. n.snap.ended :
        a \in DOMAIN world[t] /\ world[t][a] = byte

\* A capture under way has room for what is still to be read, and no finished
\* one holds more than its map.
SessionTypeOK ==
    /\ Len(world) \in 1 .. MaxEvents + 1
    /\ \A i \in DOMAIN vec :
          vec[i].snap = NoSnap \/ Len(span(vec[i])) <= vec[i].snap.map.relativeSize
    /\ op.todo \subseteq DOMAIN vec
    /\ steps \in 0 .. MaxSteps
    /\ \A i \in op.todo : Len(op.data[i]) < vec[i].map.relativeSize
    /\ overread \in BOOLEAN

\* A capture ends with a whole buffer, of bytes the process had at these very
\* addresses while it was read, or with an empty one: chunks, short reads and
\* pages that vanish between two reads leave nothing else behind (readProcess).
CaptureIsHonest ==
    [][\A i \in op.todo \ op'.todo :
          LET n == vec'[i]
          IN  \/ span(n) = <<>>
              \/ /\ Len(span(n)) = n.map.relativeSize
                 /\ \A j \in DOMAIN span(n) :
                       WasThere(n, tbegin(n.map) + j - 1, span(n)[j])]_vars

\* findChanged compares two captures of the same node.  Every hit holds an
\* address that was written in between, and every address that stayed at one
\* byte through the earlier capture and at another through the later one lies
\* in a hit.
OneMap(i) ==
    Faithful(before[i]) /\ Faithful(vec[i]) /\ before[i].map = vec[i].map

ComparablePair(i) ==
    OneMap(i) /\ Len(span(before[i])) = Len(span(vec[i]))

ChangedIsFaithful ==
    [][(PairReady /\ \A i \in DOMAIN vec : ComparablePair(i)) =>
         \A size \in CompareSizes : ScanChanged(size) =>
            /\ \A h \in ToSet(vec') : \E i \in DOMAIN vec :
                  \E a \in Addresses(h.map) \cap Addresses(vec[i].map) :
                     Cardinality(BytesAt(a, before[i].snap.began,
                                            vec[i].snap.ended)) > 1
            /\ \A i \in DOMAIN vec : \A a \in Addresses(vec[i].map) :
                  (\E x, y \in 0 .. Base - 1 :
                      /\ x # y /\ span(vec[i]) # <<>>
                      /\ StayedThere(before[i], a, x)
                      /\ StayedThere(vec[i], a, y))
                  => \E h \in ToSet(vec') : a \in Addresses(h.map)]_vars

\* findNumExact and findString report what the process had.  A hit says of an
\* address that the number or the string was there, byte by byte, during the
\* capture.  What was there all through the capture is hit, but for the first
\* slot of an aligned buffer and the last slot of any, which findNumExact never
\* looks at.  Of strings this is said for nodes that begin their region, since
\* findString forgets where else they begin, and for hits inside the buffer.
ExactHitsReal(number) ==
    /\ \A h \in ToSet(vec') : \A k \in 0 .. NumSize - 1 :
          WasThere(h, tbegin(h.map) + k, ByteOf(number, k))
    /\ \A i \in DOMAIN vec : \A o \in 1 .. Len(span(vec[i])) - NumSize - 1 :
          (/\ (tbegin(vec[i].map) + o) % NumAlign = 0
           /\ \A k \in 0 .. NumSize - 1 :
                StayedThere(vec[i], tbegin(vec[i].map) + o + k, ByteOf(number, k)))
          => \E h \in ToSet(vec') : tbegin(h.map) = tbegin(vec[i].map) + o

StringHitsReal(str) ==
    /\ \A h \in ToSet(vec') :
          tend(h.map) <= tend(h.snap.map) =>
             \A k \in DOMAIN str : WasThere(h, tbegin(h.map) + k - 1, str[k])
    /\ \A i \in DOMAIN vec : \A o \in 0 .. Len(span(vec[i])) - Len(str) :
          (\A k \in DOMAIN str :
              StayedThere(vec[i], tbegin(vec[i].map) + o + k - 1, str[k]))
          => \E h \in ToSet(vec') : tbegin(h.map) = tbegin(vec[i].map) + o

HitsAreReal ==
    [][(ScanReady /\ \A i \in DOMAIN vec : Faithful(vec[i])) =>
         /\ \A number \in Numbers :
               ScanNumExact(number) => ExactHitsReal(number)
         /\ (\A i \in DOMAIN vec : vec[i].map.relativeAddress = 0) =>
               \A str \in Strings : \A beyond \in Beyond(str) :
                  ScanString(str, beyond) => StringHitsReal(str)]_vars

\* What was read from the process can be compared with any other capture of the
\* same map, as long as both are not empty: the process may have lost pages of it
\* before, during or between the two, nodes may have been copied, captured again or
\* moved since, no scan reads past the end of either buffer (readProcess leaves a
\* whole buffer or an empty one, so a client only has to look for that).
BothWhole(i) ==
    /\ OfProcess(before[i]) /\ OfProcess(vec[i])
    /\ before[i].snap.map = vec[i].snap.map
    /\ span(before[i]) # <<>> /\ span(vec[i]) # <<>>

WholePairsInBounds ==
    [][(PairReady /\ \A i \in DOMAIN vec : BothWhole(i)) => ~overread']_vars

\* The loops of findNumChanged and findNumUnchanged "Ensure we don't read out of
\* bounds" (op.hpp): given two captures of one map, they read inside the buffers.
\* What the code does is another thing when the second capture has failed.
NumberScansInBounds ==
    [][(PairReady /\ \A i \in DOMAIN vec : OneMap(i)) =>
         \A d \in Numbers :
            (ScanNumChanged(d) \/ ScanNumUnchanged(d)) => ~overread']_vars

\* active keeps exactly the pages it sees, of nodes that are whole pages of their
\* regions and not confusable, and none of its nodes leaves its region.
ActiveIsExact ==
    [][(Fresh /\ \A i \in DOMAIN vec : PagesOfRegion(vec[i])) =>
         \A seen \in SUBSET {PageOf(a) : a \in DOMAIN Now} :
            (FilterActive(seen) /\ ~Confusable(vec, seen)) => KeepsSeen(vec, seen, vec')]_vars
=============================================================================
