# A TLA+ model of rmf (realtime memory forensics)

rmf captures and searches the memory of running Linux processes. It is a C++23 library of value
types (maps, snapshots, nodes), scans over buffers, a small type registry, and one concurrent part:
a thread pool over a lock-free ring, through which every threaded operation runs. This directory
specifies the library in TLA+, checks the specifications with TLC and proves theorems about them
with TLAPS. Paths below are relative to the repository root (`include/rmf`, `src`, `tests`).

## 1. Inventory

| Component | State | Operations | Interacts with | What makes it hard |
|---|---|---|---|---|
| **SPMC queue** `utils/threadpool.hpp` (`SPMCQueue`) | slots, three ever-growing atomic indices, a counting semaphore | `enqueue`, `tryEnqueue`, `tryDequeue`, `tryDequeueFor`, `empty` | the pool's client produces, its workers consume | one producer and many consumers, four separate steps per dequeue, slots reused modulo `size` |
| **ThreadPool** `utils/threadpool.hpp`, `src/utils/threadpool.cpp` | `m_alive`, `m_numRunning`, threads, tasks with their promises | `pushTask`, `awaitTasks`, constructor, destructor, `threadFunction` | the queue; `Threader::with`, `Pipe` | waiting on two counters read one after the other; shutdown races; exceptions |
| **Function / Threader** `utils/function.hpp` | one prepared call per element | `threaded`, `with` | pushes to the pool, collects futures | references kept in prepared calls, lengths that disagree |
| **Vec / Pipe** `utils/vec.hpp` | a lazy pipeline over a vector | `map`, `filter`, `flatten`, `operator\|`, `EndThreaded` | pool | chunk size at the boundary, failures half way |
| **Map** `map.hpp`, `detail_map.tpp`, `src/map.cpp` | parent and relative address and size, name, permissions | `minSize`, `maxSize`, `chunkify`, `exactName`, `subName`, `exactPerms`, `hasPerms`, `notPerms`, `active` | pagemap of a live process | overlap and chunk arithmetic, merging regions, failing reads |
| **Snapshot** `snapshot.hpp`, `src/snapshot.cpp` | a shared buffer beside a map | `makeSnapshot`, `capture`, `fromBuffer`, `readProcess`, `span` | `process_vm_readv` on a process that keeps running | short and failed reads between chunks |
| **Snapshot operations** `op.hpp` | none (functions) | `findChanged`, `findUnchanged`, `findNum*`, `findString`, `consolidate`, `getMaps` | spans of snapshots | boundaries, alignment, unsigned wrap, buffers of different length |
| **TypeRegistry** `type_registry.hpp`, `src/type_registry.cpp` | owned type data by name; weak handles | `defStruct`, `field`, `end`, `ptrTo`, `arrOf`, `struct_`, `getField`, iteration | nodes carry handles | ownership and lifetime, layout arithmetic, self reference, duplicates |
| **Node, meta, mixins** `node.hpp`, `utils/meta.hpp`, `mixin_helpers.hpp` | none at run time | conversions between feature sets | all | resolved by the compiler |
| **Errors, logging, test helpers, example, bindings** | an error code; output; forked fixtures | | all | none that a model would show |

The properties that make each component correct:

- *Queue*: an item enqueued is delivered exactly once, by the position it was enqueued at; nobody
  reads a slot that is being written; permits, claims and commits account for each other.
- *ThreadPool*: every future is answered once; `awaitTasks` returns when the work is done, and does
  return; the destructor runs what was taken and answers the rest; only a task's own exception can
  end the process.
- *Threader / Pipe*: results come back in the order of the elements, one each; no task outlives what
  it refers to.
- *Map operations*: filters keep order; `active` returns exactly the resident pages, each in its region.
- *Snapshot*: a buffer holds bytes the process had at the addresses of its map, all of them or none; a
  failed capture is recognisable.
- *Snapshot operations*: a scan reports what the process had, where it had it, and reads inside the buffers.
- *TypeRegistry*: a handle given out is usable while the registry lives; offsets do not overlap.

## 2. Modules

| Module | Models | Extends |
|---|---|---|
| `SPMCQueue` | the ring, one action per access to shared memory | |
| `ThreadPool` | client, workers, destructor and futures over the ring | `SPMCQueue` |
| `TaskPool` | the abstract service: submit, take, finish, await, close | |
| `ParallelMap` | `threaded(...).with(pool)` and a threaded pipe, over the pool | `ThreadPool` |
| `Maps` | nodes and their maps, `getMaps`, the filters, `active`, as functions | |
| `Scans` | the scans over buffers, as functions | `Maps` |
| `Session` | a client that lists, filters, captures, copies and scans a process that goes on running | `Scans` |
| `TypeRegistry` | who owns the data of a type; struct layout | |
| `MCThreadPool`, `MCParallelMap`, `MCSession`, `MCTypeRegistry` | symmetry and arguments for TLC | |
| `Foundations` | induction over sets of numbers, functions defined along `0 .. n`, sums, multiples | |
| `SPMCQueue_proofs`, `ThreadPool_proofs`, `ParallelMap_proofs` | theorems | the model, each other |
| `Scans_proofs` | what the operators of `Maps` and `Scans` give | `Scans`, `Foundations` |
| `Session_proofs` | theorems | `Session`, `Scans_proofs` |
| `TypeRegistry_proofs` | theorems on lifetime | `TypeRegistry` |
| `Layout_proofs` | theorems on layout | `TypeRegistry_proofs`, `Foundations` |

### SPMCQueue

The item enqueued at position *n* is the number *n*; a slot, a local variable and an index can then
be compared. `Empty` is a moved-from value. `ppc` and `cpc` say where the producer and each consumer
are inside a call, `cidx` and `citem` are the consumer's locals.

| Action | Code |
|---|---|
| `CheckSpace` | the check that finds room, `tryEnqueue` 106-115 and `enqueue`'s loop 137-149. The failing check changes nothing (returns false, or sleeps and retries) |
| `WriteSlot`, `Publish`, `Release` | the slot assignment, the store of `m_produceIndex`, `m_semaphore.release()` |
| `Acquire` | `try_acquire` or `try_acquire_for` that succeeds; a failing one changes nothing |
| `Claim`, `MoveOut`, `Commit` | `fetch_add` on the claim index, the move out of the slot, `fetch_add` on the commit index |
| `QueueDrained` | a stutter for the end of a bounded run: the consumers only poll |

`data[produceIndex % size] = std::move(value)` and the move out of a slot are plain accesses. They
are one step each in the model, and `NoSlotRace` says that no write overlaps a move: where it holds,
one step is enough; where it does not, the program has a data race.

The atomics are interleaved sequentially. Every item reaches a consumer through
release/acquire on the semaphore, and room reaches the producer through release/acquire on the commit
index, so the accesses the model orders are ordered in the code. The indices are natural numbers: 64
bits do not run out.

### ThreadPool

`EXTENDS SPMCQueue` and embeds its steps: each worker is a consumer, the client is the single
producer. Task *t* is the *t*-th task pushed; `future[t]` is the state of its promise, which the task
owns. Overwriting a slot that holds a function destroys the function and breaks its promise
(`EnqueueWrite`); destroying the pool breaks those still in a slot (`FinishDestroy`).

| Action | Code |
|---|---|
| `StartPush` | `pushTask` up to `m_queue.enqueue` |
| `EnqueueCheck/Write/Publish/Release` | the queue's steps; the last one returns the future |
| `StartAwait`, `AwaitEmpty`, `AwaitReturn`, `AwaitAgain` | `awaitTasks`: the two reads are separate steps |
| `StartDestroy`, `FinishDestroy` | `m_alive = false`; all threads joined and the members destroyed |
| `CheckAlive`, `Timeout`, `Dequeue*`, `CountStart`, `RunTask`, `CountFinish` | the loop of `threadFunction` |
| `RunAborts` | a task of `ThrowingTasks` throws, or a moved-from function is called, or a promise is fulfilled twice: nothing catches it |

`awaited` is a history variable: how many tasks the last `awaitTasks` that returned covers.

### TaskPool

The service seen by the client: tasks are taken in the order of submission, finish at most once and
only after they were taken, an await returns when everything submitted was *taken*, and the pool
closes when everything taken is finished and breaks the rest. `ServiceImplemented` is the refinement:
`submitted` is the produce index, `taken` the claim index, `done` and `broken` are read off the
futures. That an await waits for *taken* and not for *finished* is what the code delivers (finding 1).

### ParallelMap

`EXTENDS ThreadPool` and drives its client: the caller makes one call after the other and destroys the
pool between calls. An element is its index and the mapped function the identity on indices, so a
result is right when it is 1, 2, 3, ... `args` are the lengths of the vectors given to `threaded`
(arguments that are not unwrapped have no length); `work` says for each task which elements it reads,
`<<Outside>>` for a call that reads past the end of a vector.

| Action or operator | Code |
|---|---|
| `Unequal`, `Prepared`, `PreparedCall` | the length loop of `threaderImpl`, the number of prepared calls, the elements their tuples refer to |
| `ChunkSize`, `ChunkCount`, `ChunkOf` | `workPerThread` and `views::chunk` |
| `StartWith`, `StartPipe` | `threaded(...).with(tp)` in one expression, `pipe \| EndThreaded` |
| `StartPipeFaults` | a chunk size of zero (not allowed by `chunk`), or a division by zero threads |
| `PushWork` | one `pushTask` of the loop, for both calls; it goes through the queue step by step |
| `AwaitVoid`, `ReturnVoid` | the `void` branch: `awaitTasks`, return |
| `StartCollect`, `GetNext`, `GetThrows`, `ReturnResult` | `get` on the futures in order: a value, the exception of a broken promise, the result |
| `RunFaults` | a prepared call reads past the end of a vector; going on with what it found is allowed too |

A flattening and a plain `with` append in the same order; the values inside a result are not
distinguished. A `Threader` that is stored and used later, or twice, is not modelled.

### Maps and Scans

Pure functions over sequences of nodes. A node is a record of a map and a snapshot, a buffer a sequence
of bytes with `Base` values each. A region name is a sequence of words, permissions are a set.

| Operator | Code |
|---|---|
| `getMaps`, `NameOf`, `parsePerms` | the lines of `/proc/<pid>/maps`, from start, end, letters and name on |
| `Those` | the loop of a filter: the nodes that pass, in their order. `SelectAt` picks them by position, which proofs can follow |
| `minSize` ... `notPerms` | the filters of `Map::VecOp`, each a use of `Those` |
| `active`, `Visits`, `AddPage` | the loop over the pages of all nodes, `regions[k]` being the regions after `k` pages; `seen` are the pages whose entry could be read and has the active bit |
| `FirstAligned`, `FirstAlignedExact`, `Slots` | the alignment of the first value and the loop over the rest, with the bound as written |
| `Blocks`, `AddBlock`, `findBlocks` | the steps of `findChanged` and `findUnchanged` and the merging of neighbours; `hits[k]` are the hits after `k` blocks |
| `findChanged` ... `findString`, `consolidate` | the scans of `op.hpp`. Those that go through `Node<Map>` lose the snapshot (`Bare`), `findNumExact` and `findString` keep it |
| `BlocksOverread`, `SlotsOverread`, `beyond` | where the code reads past a buffer: the scan of two buffers does not go on, the comparison of a string finds any bytes |

### Session

`world` is the history of the process's memory, a partial function from addresses to bytes: what is not
in its domain is not mapped. `vec` is the client's vector of nodes and `before` the copy it took of an
earlier one. `op` is a capture under way: the nodes still to be read and the bytes each has so far.

| Action | Code |
|---|---|
| `Write`, `Unmap`, `Exit` | the process, at any time, in the middle of a capture too |
| `FilterSize`, `FilterName`, `FilterPerms`, `FilterActive` | the vector operations, before anything is captured |
| `Capture` | `capture` on every node of the vector, in sequence or by a pool: the reads of different nodes are independent |
| `ReadSome(i)` | one `process_vm_readv` for the next chunk and the bookkeeping after it; `Copies` is what the kernel may copy (whole pages up to one that is gone, or the request); `Finish` ends the loop and installs the new buffer |
| `ReadFails(i)` | the read returns -1, and the buffer ends up empty: cleared after a part was read, resized to `totalBytesRead`, which is 0, else |
| `Keep` | the client copies its vector; both share the buffers, and a later `capture` installs new ones |
| `Widen` | the map of a hit is moved down and made longer, as `nodifyFromFieldOffset` and the example do; the snapshot stays as it was |
| `FromBuffer` | `Snapshot::fromBuffer` |
| `ScanChanged` ... `ScanString` | a scan of all nodes and `consolidate`; the hits become `vec`. A scan that would read past a buffer sets `overread`, and nothing happens after it |

The fields `map`, `began` and `ended` of a snapshot say for which map and between which moments of the
history it was read. They are history: the program has none of them, which is why a stale buffer
cannot be told from a fresh one.

### TypeRegistry

`heap` holds the data of every type ever made. `registered` and `builders` are the owners (shared
pointers); handles, fields and pointer types refer by index and own nothing. `Alive` says whether a weak
pointer can be locked. A builder has a copy of the registry, which shares its data.

| Action | Code |
|---|---|
| `defStruct`, `field`, `end`, `DropBuilder` | `StructBuilder`: construction, fields by name (the first of a name stays), layout, destruction. `end` may be called again |
| `endFails` | `end` locks a target that is gone, or divides by an alignment of 0 (no fields, `v0`, a struct not ended) |
| `ptrTo`, `arrOf`, `Emplace` | new data under a name; an `emplace` that finds the name taken drops it |
| `struct_` | lookup; a missing name throws and changes nothing |
| `UseFails` | `size`, `alignment`, `name`, `type` on a handle whose data is gone |
| `DropRegistry` | the client lets go of the registry |

`hollow` (types of size 0 by nature or not ended yet) and `dropped` (an emplace found its name taken) are
history, for `CrashesExplained` and `NothingDanglesWithoutDuplicates`.

## 3. Runs

| Run | Instance | Question |
|---|---|---|
| `queue_single` | 1 consumer, 4 slots, 10 items | delivery, races, lost items, two and a half times round the ring |
| `pool_safety` | 2 workers, 4 slots, 4 tasks, the last one throws | futures, await, destructor, exceptions, refinement |
| `pool_liveness` | 2 workers, 3 slots, 3 tasks, fair | calls return (a push may have to wait for room), futures are answered |
| `pool_await_violation` | 1 worker, 3 slots, 1 task | `awaitTasks` returns only when all is done (violated) |
| `pool_lost_task_violation` | 2 workers, 3 slots, 4 tasks | an awaited future is never broken (violated) |
| `map_safety` | 2 workers, 4 slots, 4 tasks, the last one throws, pipes over 1 and 5 elements | results, borrowed data, void calls, crashes |
| `map_liveness` | 2 workers, 3 slots, 6 tasks, fair | the accounting of permits, claims and commits on a wrapping ring; calls come back, with the right result, where the queue fills up and loses tasks |
| `map_unequal_violation` | 1 worker, vectors of length 0 and 2 | unequal lengths prepare nothing (violated) |
| `session` | two adjacent regions of 1 and 3 pages, 2 bytes per page, one change by the process, 4 captures and scans | captures, scans, reads past a buffer, `active` |
| `session_overread_violation` | the same, three captures and scans, by number only | the loops by number read inside the buffers of two captures of one map (violated) |
| `registry` | `v0`, `u8`, `u32`, two struct names, two more types, three fields | duplicates, lifetime, layout, crashes |
| `registry_ownership_violation` | the same, with one field | the registry owns all types (violated) |

**Bounds.** `MaxItems` bounds what the producer ever enqueues, and with it every index; nothing else
is bounded. `Size` is 3 or 4: the ring treats slots alike, and two outstanding positions, a full ring
and a wrap all happen at these sizes. Two consumers are enough for a commit out of order,
and the accounting theorems hold for any number of them; workers are interchangeable, and the safety runs use that symmetry.
`QueueDrained` and `Stopped` are the states in which the bounded system has nothing to do, so that
deadlock is checked everywhere else.

`MaxTasks` is shared by all calls of a `ParallelMap` run: two or three calls follow each other.
`ManyArguments` (in `map_safety`) has one vector, two of one length, no vector, two lengths that are rejected and the
empty vector that is not; five elements on two workers are three chunks, the last one short, and one
element on two workers is a chunk size of zero. `map_liveness` has a call of four tasks on a queue that
holds two, and its six tasks go twice round the ring of three slots, so a task can be lost and `GetThrows` taken.

`session`: a chunk is two pages, so that the second region takes two requests and a request can be cut
short in the middle; `MaxEvents` is 1, and one write, unmapped page or exit can fall between any two
steps, the reads of a capture among them. `MaxSteps` is 4: capture, scan, capture the hits, scan them
again. `MaxNodes` (2) bounds the nodes captured or scanned together. `Reach` (3) is how far a hit is
widened, over the beginning of its region. Numbers have two bytes of two values, aligned to 2, so
that differences wrap and an unaligned node has slots; the strings are of two bytes, so the last byte of
a buffer can begin one. `WholePairsInBounds` needs a first capture, a second one of which part was read
when a page went, and a scan of both: with reads that end early it is violated. `CHECK_DEADLOCK FALSE`:
a session is over when no node is left or after an overread. `session_overread_violation` leaves out what
its counterexample does not need: strings, blocks, buffers made by hand and widening.

`registry`: `MaxTypes` is 5 and three are primitive, so two types are made: a struct and a pointer or an
array of it, one struct in another, or twice the same. `MaxFields` (3) bounds the fields of all structs, and
three fields of sizes 1, 4 and 8 already need all kinds of padding; two fields never overlap. `MaxSize` (9) only stops structs that
are ended with themselves as a field from growing forever. `CHECK_DEADLOCK FALSE`: the program may crash,
or drop everything.

**Safe rings.** `SafeRing` names the instances on which the commit index is as good as its comment:
the indices never pass the ring's size (`MaxItems <= Size`), there is at most one consumer, or the
ring has two slots. The default queue of 2 << 20 slots is of the first kind for the first two million
tasks of a pool. The placement of items is run for one consumer and proved for every safe ring; what holds
on any ring (the accounting in `map_liveness`, and its theorems) is stated for any ring; what fails outside
them is a finding.

**Fairness.** `WF` on a push, an await and the destructor's join says that a call that was entered is
scheduled; `WF` per worker that each thread is scheduled. `SF` on "some worker takes a permit" says
that a permit that is there whenever workers come to look is not timed out on forever:
`try_acquire_for` succeeds at once when the count is positive, and the `Timeout` step is allowed in
the model at any time only because the count may be zero when it looks. The client is never obliged
to make a call. Tasks terminate. The liveness runs have no throwing task: after one the process is
gone.

## 4. Findings

1. **`awaitTasks` can return early** (`pool_await_violation`). A worker dequeues the only task and
   commits; before it raises `m_numRunning` the client sees an empty queue and no running task. What
   does hold is `AwaitLeavesNoneQueued`: a covered task is at worst in the hand of a worker, so the
   destructor, which joins, still waits for it (`AwaitedTasksSurviveDestroy`), and `future.get()` is
   always safe. A caller that relies on `awaitTasks` alone, as `Threader::with` does for void calls,
   is exposed.
2. **A task can be lost when the queue wraps** (`pool_lost_task_violation`). The commit index counts
   completed moves in whatever order they complete (`CommitCountsMoves`); its comment says it
   "represents the next index that is guaranteed to be done", and the room check relies on that.
   Past a position that is still full, the producer assigns over the slot: the claimed task and its
   promise are destroyed, and the worker calls what it then finds. Needs at least two workers, at
   least three slots and a wrapped index, as in `basicTest` (200 tasks through a queue of 30).
3. **An empty vector beside a longer one is accepted** (`map_unequal_violation`). `threaderImpl`
   takes a length of 0 for no length yet, so lengths 0 and 2 are not "unequal": two calls are
   prepared, both reading past the end of the empty vector. In the other order they are rejected.

4. **A second pointer type of the same target is dead** (`registry_ownership_violation`). `ptrTo` and
   `arrOf` return a handle to the data they made even when `emplace` did not take it, so the data is
   destroyed on return and the handle's `size()` dereferences null, although the registry, "keeping
   track and owning all types", is there. With `defStruct` the data lasts as long as the builder.
   Without duplicate names nothing of the kind happens: `NothingDanglesWithoutDuplicates`.
5. **A scan by number reads past the second buffer** (`session_overread_violation`). "Ensure we don't read
   out of bounds" (`op.hpp:225` and `:273`) bounds the first buffer only. The client captures a map and
   copies it, the process gives back a page of it, and the client captures again: that capture fails and
   leaves an empty buffer under the same map, and `findNumChanged` of the two copies numbers from beyond
   its end. `findChanged` and `findUnchanged` compare blocks the same way, without such a comment. What
   a client can rely on is `WholePairsInBounds`: if both buffers were read for one map and
   neither is empty, every scan of the two stays inside, because `readProcess` leaves a whole buffer or none.

Other differences between the code and what is said of it, which the models contain and the
properties allow for:

- *Layout.* `end()` adds the size of a field to the running offset and not the padding before it
  (`src/type_registry.cpp:175`), so a later field may lie on an earlier one and the struct be too
  short for C. `OverlapNeedsPadding` says that nothing else makes fields share bytes, and
  `FieldsInsideStruct` that every field still lies inside. Iterating a struct visits no field
  (`src/type_registry.cpp:258`), so the comparison of the offsets in `tests/type_registry.cpp:73-80` is never made.
- *`end()`*: its comment "Check that we are not referring to ourselves" has no code; a struct with
  itself as a field divides by zero, or, ended a second time, contains its own former size.
- *Scans by number* stop one slot early (`+ size <`), and `findNumExact` also skips the first slot of an
  aligned buffer (`op.hpp:343` compares with the end).
- *`findString`* assigns the offset to `relativeAddress`, so in a node that does not begin its region the hit
  is elsewhere, and compares a string at the end of a buffer with what lies beyond.
- *`active`* merges a page into the last region by offsets relative to *different* parents when the
  node before belongs to another region; `ActiveIsExact` has the condition (`Confusable`, in `Maps`).

`BorrowedDataAlive` says that no task reads the caller's data after the call returned. It excludes
void calls, which is finding 1 again; what holds for them is `VoidTasksRun`.

## 5. Proofs

For every value of the constants. What is assumed of them, all of it by name in the modules that
declare them:

| Assumption | Says |
|---|---|
| `ConsumersAssumption`, `SizeAssumption`, `MaxItemsAssumption`, `EmptyAssumption`, `ThrowingAssumption` | finitely many workers, a ring of at least one slot, a number of tasks, a value that is no item, throwing tasks are numbers of tasks |
| `ArgumentsAssumption`, `DataSizesAssumption`, `OutsideAssumption` | lengths are numbers; an element read outside is none of the vector's |
| `PageSizeAssumption`, `NumberAssumption`, `SessionAssumption` | page, chunk and number sizes are positive, a number's size is a multiple of its alignment; regions are not empty, memories and texts are made of bytes, numbers have no more than `NumSize` of them, strings are not empty |
| `RegistryAssumption`, `AlignmentAssumption` | primitive types have different names, and of two sizes one divides the other: `RMF_PRIM_TYPES` has 0, 1, 2, 4 and 8 bytes, a pointer 8 |
| `SafeRing` | hypothesis of the theorems that say so (section 3) |

`Foundations` has what recursive definitions need. An induction theorem over a property is out of
reach, but the numbers that have a property are a set: a set with 0 in it and with *n + 1* whenever
*n* is, has all of them (`NatSetInduction`, by the least number outside). From it follow that a function
defined by a step from *k - 1* to *k* exists and satisfies its equations (`PrefixRecursion`,
`PrefixFollows`), which is how `active`, `findBlocks` and the layout of `end()` are reasoned about, that
sums over finite sets can be taken apart, and division with rest.

**Ring.** None of the properties is inductive by itself.

1. `Accounting` = types, `PermitsMatchItems`, `CommitCountsMoves`, `CapacityRespected`. The first two
   are counting arguments over the sets `Claiming` and `InFlight`; a step moves one consumer between
   the sets (`CountOne`, `GroupsCounted`). With them, claims stay below what was released and commits
   below claims (`IndexOrder`), on any ring.
2. `ClaimsInv` adds that claimed positions are distinct and below the claim index, and that a lone
   consumer's commit index equals the position it holds. This gives `ClaimsDistinct`, on any ring, and
   `CommitMeansDone` for one consumer.
3. `Placement` adds, for a `SafeRing`, `Window` (every position in flight is less than `Size` behind
   the produce index) and `Placed` (an outstanding item is in its slot, a moved item is its position).
   `Window` is where `SafeRing` is needed: the room check bounds the distance to the *commit index*,
   and only on a safe ring does that bound the distance to every position *in flight*. Two positions
   less than `Size` apart have different slots (`SlotsDiffer`), which gives `DeliveredInPlace`,
   `UnclaimedIntact` and `NoSlotRace`.
4. `RingInv` adds `Contents` (a slot holds nothing or an item not yet moved), so the slot that is
   written next is empty: `NeverOverwrites`.

**Pool.** `RingRespected` (`Spec => QueueSpec`) carries every theorem of the ring over to the pool.

1. `PoolInv` = types, the relation between a worker's place in its loop and its place in the queue,
   `RunningIsCounted`, and the await invariant: after the client saw the queue empty, everything it
   pushed has left it, until it pushes again, which it cannot do inside the call.
2. `PoolFutures` ties futures to positions on a safe ring: unclaimed positions are pending, a claimed
   one is ready or in the hand of exactly the worker that holds its position. From it follow
   `AwaitLeavesNoneQueued`, `DestroySettlesFutures`, `AwaitedTasksSurviveDestroy`,
   `AbortsOnlyOnThrow` and `FutureSettlesOnce`.
3. `ServiceCorrect`: the initial state maps to the initial state of `TaskPool` and every step to a
   step or a stutter (`ServiceInit`, `ServiceStep`).

**Calls.** `PoolRespected` (`MapSpec => Spec`) carries every theorem of the pool over to a program of
such calls. `MapInv` = types, `CallPushed` (the tasks from `base` on are the call's own, in order, one
of them perhaps still being pushed), `TasksFit` (how many tasks a call makes) and `SoFar` (what was
collected is the first part of the sequential result). `SoFar` alone is not inductive: the next
element of the result comes from `work`, so `CallPushed` has to say what was pushed, and that needs
the pool's control invariant (a client outside `pushTask` leaves the queue's producer idle). For a
pipe the step is arithmetic on chunks (`Covering`, `ChunkContinues`): they are adjacent, and the last
one ends at the last element. `ResultsCorrect` is for any ring: where tasks get lost the call throws.

`BorrowedDataAlive`, `VoidTasksRun` and `CrashesOnlyOnBadSizes` hold on a safe ring (elsewhere a lost
task is finding 2). The first says that a worker which reads the caller's data is met by a caller
still in its call, and the caller may leave when it has an answer per future. So the invariant
(`CallsInv`) has three more parts: `OwnWork` (the tasks pushed since `base` are of this call's kind, and of
equal lengths nothing reads outside), `PoolFutures` (a ready future is one no worker holds) and
`CallsAnswered` (every task below `base + collected` is answered, for void calls by `awaited`). A future
got is ready and stays so (`AnswersStay`), hence `get()` never throws (`CallsNeverThrow`), a task of an
earlier call is never in a worker's hand as a call with results, and after the destructor every task was run.
`CrashDue` is the remaining invariant of `CrashesOnlyOnBadSizes`.

**Captures.** For every layout and memory, any page and chunk size, any number of nodes and events
(`SessionAssumption`, `NumberAssumption`, `PageSizeAssumption`). `CaptureIsHonest` is about the step that
ends a capture; it needs to know of the bytes read in earlier steps that they were real. `CaptureInv` says so of
every capture under way (`ReadSoFar`): fewer bytes than the map is long, each one the process had at
its address since the capture began. A step of the process only adds to the history (`HistoryGrows`); a
read brings bytes of now and never more than is missing (`RequestFits`, `ReadIsReal`); the end of one
capture leaves the others alone (`FinishKeeps`). `CaptureHonest` follows: a whole buffer or an empty one.

**Sessions.** `SessionInv` adds what the client's nodes may carry between captures. Every snapshot is
`Taken`: a whole buffer, each byte of which was at its address meanwhile, or an empty one, or a buffer the
client brought; and the copy kept began and ended no later than the vector's captures (`KeptBefore`), which a capture under way
also needs (`KeptEarlier`). Filters, `active`, widening and the scans only rearrange maps, so it has
to be proved that they bring no new snapshots and give maps their types back: that is `Scans_proofs`, by
induction along the pages (`ActiveNodes`) and the blocks (`BlockScans`), and by positions for `Those`
(`Chosen`, `FiltersChoose`, `NumberScans`, `StringScan`). `WholePairsInBounds` follows: two
captures of one map that are not empty are both whole, and so equally long (`WholePairs`). For blocks nothing
else matters; for numbers a slot lies inside the first buffer (`NumberScans`), so it lies inside the second
(`NothingOver`), and no other step sets `overread` (`OnlyOverreads`).

`ChangedIsFaithful` needs what the scan says of bytes. The blocks tile the buffer (`BlocksTile`); the hits, grown
block by block and joined where they touch, cover the blocks that compared unequal and no other
(`BlocksCovered`, an induction along the blocks); a block compares unequal where a byte of it does
(`BlockDiffers`). Together that is `ChangedScan`, a lemma about `findChanged` alone. In the session
(`PairHits`) both buffers are `Taken`, so two different bytes at one address are two moments of the history, no
earlier than the first capture began and no later than the second ended (`Written`); and a byte that stayed
through a capture is the one in its buffer, so two of them are a difference that lies in a hit.

`HitsAreReal` compares what a scan makes of bytes with the bytes of a number: the value at an offset is the number
exactly when byte by byte they agree (`BytesOfValue`, from the recursions of `Value` and of `Rest`, one up and one
down), which is why `SessionAssumption` says that a number has no more than `NumSize` bytes. The exact scan
looks at every aligned offset after the first byte but the last (`SlotsAre`, `FirstSlot`); of a string inside the buffer the bytes
beyond do not matter (`TextInside`). `ExactScan` and `StringHits` say so of the scans alone, `NodeIsThere` that the
buffer of a `Taken` snapshot is what was there.

`ActiveIsExact` is an induction along the visits (`RegionsHold`): so far the regions hold the pages seen, each region
stays inside its own, and the last one ends with a page that was seen. That last part is what makes a merge
sound: the page seen last and the page at hand are related by `Unconfused`, since visits follow the order
of the nodes (`FlattenedOrder`, `VisitsOrdered`), so that a page which starts at the offset where the last region ends is in the
same region (`ContinuesRegion`, `AddPageHolds`). A node of whole pages is visited page by page and lies in the pages visited
(`VisitsCover`, `PageFacts`).

**Registry.** For every list of primitive types with distinct names and every use (`RegistryAssumption`).
`RegistryInv` adds to `RegistryTypeOK` that pointer types and fields refer to types that were made
(`TargetsMade`) and that, until a name is taken twice, all that was made is registered
(`AllRegistered`). `end` only matters there in that it changes neither targets nor names (`EndKeeps`).
`WeakPointersSafe` and `NullPointersExplained` follow.

**Layout.** `LayoutInv` describes the structs that `end()` left. `FieldsInside` alone is not inductive:
that a struct's last field ends inside it depends on the final rounding up, and the offsets depend on the
alignments of the targets, so sizes are multiples of alignments (`Measured`), alignments divide each other
(`AlignmentsDivide`), and fields keep the sizes they were measured with while their targets may grow. The
running offset of `end()` is a sum over the fields before one (`Cumulative`), so an offset is that sum rounded
up (`FieldsSpread`), and if two fields share bytes the rounding was positive for the first of them or
one before it (`OverlapsNeedPadding`). `Measured` also says that only a hollow type has alignment 0, which
with `NullPointersExplained` gives `CrashesExplainedCorrect`.

**Model-checked only.** Every invariant and action property of the runs is a theorem. Liveness is not
(`PushReturns`, `AwaitReturns`, `DestroyReturns`, `FuturesSettle`, `CallReturns`): fairness is outside the
prover's reach. The violated properties are counterexamples.

## 6. Not modelled, and the plan

What is left:

1. A `Threader` stored and used after its arguments are gone.
2. A map that appears again at an address after it was unmapped.
3. Signed numbers.

Not modelled in what is modelled otherwise: `chunkify` calls `relativeEnd()` of `MapData`, which no
source defines, and `Vec::filter` asks that its predicate can be called without an element, so no program
can call either; `makeSnapshot` is the read of `capture` into a new node; floating and signed numbers; a
`compareSize` of 0, for which the scans never end, and the empty string; a map whose size is negative, for which
the buffer's `resize` throws; a `process_vm_readv` that returns 0 (`src/snapshot.cpp:45-65` would keep the part read
so far): the kernel returns the bytes it copied or -1 when something was asked for; a `StructBuilder`
that was moved from, which holds no struct; the maximum of the queue's semaphore, which the standard lets
`release` assume and libstdc++ does not check.

Never modelled, and why: `Node`, `meta.hpp` and the mixins are resolved by the compiler and hold no
state; errors and logging carry values to the user and back; the test helpers fork fixtures; the
bindings are empty; of `getMaps` the `sscanf` of a line. Weak memory is not modelled beyond
the argument of section 2; spurious failures of `try_acquire` return `nullopt` and change nothing.
