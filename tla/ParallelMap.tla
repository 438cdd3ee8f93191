----------------------------- MODULE ParallelMap -----------------------------
(***************************************************************************)
(* The two ways the library spreads work over a pool, composed over         *)
(* ThreadPool: Threader::with of include/rmf/utils/function.hpp (one task   *)
(* per element, prepared by Function::threaded) and the EndThreaded stage   *)
(* of a Pipe of include/rmf/utils/vec.hpp (one task per chunk).             *)
(*                                                                          *)
(* An element is its index, and the function maps an index to itself, so a  *)
(* result can be compared with the sequential one.  A task refers to the    *)
(* caller's data; it does not own it.                                       *)
(***************************************************************************)
EXTENDS ThreadPool, Sequences

CONSTANTS
    Arguments,  \* the lengths of the vectors passed to a call of threaded
    DataSizes,  \* the sizes of the vectors that are piped
    Outside     \* what lies beyond the end of a vector

ASSUME ArgumentsAssumption == Arguments \subseteq Seq(Nat)
ASSUME DataSizesAssumption == DataSizes \subseteq Nat
ASSUME OutsideAssumption   == Outside \notin Nat

VARIABLES
    status,     \* how far the caller is, or how its last call ended
    kind,       \* which call: "with", "with_void" or "pipe"
    args,       \* the lengths of the vectors of a with
    size,       \* how many elements the call covers
    base,       \* the task that handles the first of them
    tasks,      \* how many tasks the call makes (funcVec, resultLazy)
    collected,  \* how many futures have been got
    result,     \* what they gave, so far
    work        \* per task: its kind of call and the elements it handles

mapVars == <<status, kind, args, size, base, tasks, collected, result, work>>
allVars == <<vars, mapVars>>

Kinds == {"with", "with_void", "pipe"}

MapInit ==
    /\ Init
    /\ status = "idle"
    /\ kind = "with"
    /\ args = <<>>
    /\ size = 0
    /\ base = 0
    /\ tasks = 0
    /\ collected = 0
    /\ result = <<>>
    /\ work = [t \in Task |-> [kind |-> "with", elements |-> <<>>]]

\* The caller is outside any call.
Free == status \in {"idle", "returned", "threw"}

-----------------------------------------------------------------------------
(* What a call is made of.                                                  *)

\* threaderImpl keeps the first length that is not zero and compares the
\* later ones with it.
Unequal(ls) ==
    \E i, j \in DOMAIN ls : i < j /\ ls[i] # 0 /\ ls[j] # ls[i]

\* How many calls threaderImpl prepares.
Prepared(ls) == IF ls = <<>> \/ Unequal(ls) THEN 0 ELSE ls[Len(ls)]

\* The call prepared for element i reads the i-th element of every vector.
PreparedCall(ls, i) == IF \E k \in DOMAIN ls : ls[k] < i THEN <<Outside>> ELSE <<i>>

\* workPerThread.
ChunkSize(n) == n \div Cardinality(Workers)

\* views::chunk: whole chunks, and a last one with what is left.
ChunkCount(n) == (n + ChunkSize(n) - 1) \div ChunkSize(n)

\* Faulty: a chunk starts at the element the previous one ended with.
ChunkOverlapping(n, c) ==
    LET first == c * ChunkSize(n)
        end   == IF first + ChunkSize(n) < n THEN first + ChunkSize(n) ELSE n
    IN  [k \in 1 .. end - first |-> IF c > 0 THEN first + k - 1 ELSE first + k]

ChunkOf(n, c) ==
    LET first == c * ChunkSize(n)
        end   == IF first + ChunkSize(n) < n THEN first + ChunkSize(n) ELSE n
    IN  [k \in 1 .. end - first |-> first + k]

\* What the i-th task of the call handles, counted from 0.
TaskElements(i) ==
    IF kind = "pipe" THEN ChunkOf(size, i) ELSE PreparedCall(args, i + 1)

-----------------------------------------------------------------------------
(* The caller.                                                              *)

\* Faulty: what an earlier call collected still counts.
BeginKeepsCollected(k, ls, n, m) ==
    /\ Free /\ ~aborted
    /\ client = "idle"
    /\ produceIndex + m =< MaxTasks
    /\ kind' = k /\ args' = ls /\ size' = n /\ tasks' = m
    /\ status' = "pushing"
    /\ base' = produceIndex
    /\ result' = <<>>
    /\ UNCHANGED <<vars, collected, work>>

\* A call of kind k over n elements begins, with m tasks to push.
Begin(k, ls, n, m) ==
    /\ Free /\ ~aborted
    /\ client = "idle"
    /\ produceIndex + m =< MaxTasks
    /\ kind' = k /\ args' = ls /\ size' = n /\ tasks' = m
    /\ status' = "pushing"
    /\ base' = produceIndex
    /\ collected' = 0
    /\ result' = <<>>
    /\ UNCHANGED <<vars, work>>

\* threaded(...).with(tp): a call is prepared per element, before any is pushed.
StartWith ==
    \E ls \in Arguments, k \in {"with", "with_void"} :
        Begin(k, ls, Prepared(ls), Prepared(ls))

\* A chunk size of zero, and no threads at all, is a division by zero.
StartPipeFaults ==
    /\ Free /\ ~aborted
    /\ client = "idle"
    /\ \E n \in DataSizes :
        /\ (Workers = {} \/ ChunkSize(n) = 0)
        /\ size' = n
    /\ kind' = "pipe"
    /\ status' = "crashed"
    /\ UNCHANGED <<vars, args, base, tasks, collected, result, work>>

StartPipe ==
    /\ Workers # {}
    /\ \E n \in DataSizes :
        /\ ChunkSize(n) > 0
        /\ Begin("pipe", <<>>, n, ChunkCount(n))

PushWork ==
    /\ status = "pushing"
    /\ produceIndex < base + tasks
    /\ StartPush
    /\ work' = [work EXCEPT ![produceIndex] =
                    [kind |-> kind, elements |-> TaskElements(produceIndex - base)]]
    /\ UNCHANGED <<status, kind, args, size, base, tasks, collected, result>>

\* Every task is pushed: a void with awaits the pool, the others collect.
StartCollect ==
    /\ ~aborted
    /\ status = "pushing"
    /\ client = "idle"
    /\ produceIndex = base + tasks
    /\ kind # "with_void"
    /\ status' = "collecting"
    /\ UNCHANGED <<vars, kind, args, size, base, tasks, collected, result, work>>

AwaitVoid ==
    /\ status = "pushing"
    /\ produceIndex = base + tasks
    /\ kind = "with_void"
    /\ StartAwait
    /\ status' = "collecting"
    /\ UNCHANGED <<kind, args, size, base, tasks, collected, result, work>>

ReturnVoid ==
    /\ AwaitReturn
    /\ status' = "returned"
    /\ UNCHANGED <<kind, args, size, base, tasks, collected, result, work>>

\* Faulty: a result is taken from any future that is ready.
GetAnyReady ==
    /\ ~aborted
    /\ status = "collecting" /\ kind # "with_void"
    /\ collected < tasks
    /\ \E t \in base .. base + tasks - 1 :
        /\ future[t] = "ready"
        /\ result' = result \o work[t].elements
    /\ collected' = collected + 1
    /\ UNCHANGED <<vars, status, kind, args, size, base, tasks, work>>

\* The futures are got in the order of the tasks; get blocks.
GetNext ==
    /\ ~aborted
    /\ status = "collecting" /\ kind # "with_void"
    /\ collected < tasks
    /\ future[base + collected] = "ready"
    /\ result' = result \o work[base + collected].elements
    /\ collected' = collected + 1
    /\ UNCHANGED <<vars, status, kind, args, size, base, tasks, work>>

\* get on a broken promise throws, and the exception leaves the call.
GetThrows ==
    /\ ~aborted
    /\ status = "collecting" /\ kind # "with_void"
    /\ collected < tasks
    /\ future[base + collected] = "broken"
    /\ status' = "threw"
    /\ UNCHANGED <<vars, kind, args, size, base, tasks, collected, result, work>>

\* Faulty: the call returns once its tasks are pushed.
ReturnEarly ==
    /\ ~aborted
    /\ status = "collecting" /\ kind # "with_void"
    /\ status' = "returned"
    /\ UNCHANGED <<vars, kind, args, size, base, tasks, collected, result, work>>

ReturnResult ==
    /\ ~aborted
    /\ status = "collecting" /\ kind # "with_void"
    /\ collected = tasks
    /\ status' = "returned"
    /\ UNCHANGED <<vars, kind, args, size, base, tasks, collected, result, work>>

DestroyPool ==
    /\ Free
    /\ StartDestroy
    /\ UNCHANGED mapVars

-----------------------------------------------------------------------------
(* The pool.                                                                *)

\* A task that reads beyond the end of a vector may take the process down.
RunFaults(w) ==
    /\ ~aborted
    /\ wpc[w] = "run"
    /\ citem[w] \in Task
    /\ work[citem[w]].elements = <<Outside>>
    /\ status' = "crashed"
    /\ UNCHANGED <<vars, kind, args, size, base, tasks, collected, result, work>>

PoolStep ==
    /\ Push \/ AwaitEmpty \/ AwaitAgain \/ FinishDestroy \/ (\E w \in Workers : Worker(w))
    /\ UNCHANGED mapVars

Call == StartWith \/ StartPipe \/ StartPipeFaults \/ PushWork
Collect == StartCollect \/ AwaitVoid \/ ReturnVoid \/ GetNext \/ GetThrows \/ ReturnResult

MapStopped ==
    /\ client = "destroyed" \/ aborted \/ status = "crashed"
    /\ UNCHANGED allVars

MapNext ==
    \/ /\ status # "crashed"
       /\ Call \/ Collect \/ DestroyPool \/ PoolStep \/ (\E w \in Workers : RunFaults(w))
    \/ MapStopped

MapSpec == MapInit /\ [][MapNext]_allVars

\* The pool's own fairness, for the steps as they appear here, and a caller
\* that goes on with the call it is in.
MapFairness ==
    /\ WF_allVars(PushWork)
    /\ WF_allVars(Collect)
    /\ WF_allVars(Push /\ UNCHANGED mapVars)
    /\ WF_allVars((AwaitEmpty \/ AwaitAgain) /\ UNCHANGED mapVars)
    /\ \A w \in Workers : WF_allVars(Worker(w) /\ UNCHANGED mapVars)
    /\ SF_allVars((\E w \in Workers : DequeueAcquire(w)) /\ UNCHANGED mapVars)

MapFairSpec == MapSpec /\ MapFairness

-----------------------------------------------------------------------------
(* Properties.                                                              *)

Element == Nat \cup {Outside}

MapTypeOK ==
    /\ status \in {"idle", "pushing", "collecting", "returned", "threw", "crashed"}
    /\ kind \in Kinds
    /\ args \in Arguments \cup {<<>>}
    /\ size \in Nat
    /\ base \in 0 .. MaxTasks
    /\ tasks \in 0 .. MaxTasks
    /\ collected \in 0 .. tasks
    /\ result \in Seq(Element)
    /\ work \in [Task -> [kind : Kinds, elements : Seq(Element)]]

EqualLengths(ls) == \A i, j \in DOMAIN ls : ls[i] = ls[j]

\* A call that returned gives what the sequential map gives: one result per
\* element, in the order of the elements (threaded_returnsCorrectValues; and
\* findNumExact compares the threaded scan with the plain one).
ResultsMatchSequential ==
    status = "returned" /\ kind # "with_void" /\ EqualLengths(args) =>
        result = [i \in 1 .. size |-> i]

\* A task reads the caller's data only while the caller is in the call: the
\* chunk, the pipeline and the arguments are references.  Void calls wait with
\* awaitTasks and are excluded; see VoidTasksRun.
BorrowedDataAlive ==
    \A w \in Workers :
        /\ wpc[w] \in {"start", "run"}
        /\ citem[w] \in Task
        /\ work[citem[w]].kind # "with_void"
        => status \in {"pushing", "collecting", "crashed"} /\ citem[w] >= base

\* A void call may return while a task runs, but not while one is queued, so
\* that destroying the pool after it still runs all of them.
VoidTasksRun ==
    client = "destroyed" => \A t \in 0 .. produceIndex - 1 : future[t] = "ready"

\* Only an exception of a task, a pipe over fewer elements than threads or without
\* threads, or vectors of different lengths can take the process down.
CrashesOnlyOnBadSizes ==
    /\ aborted => \E w \in Workers : wpc[w] = "run" /\ citem[w] \in ThrowingTasks
    /\ status = "crashed" =>
        \/ kind = "pipe" /\ (Workers = {} \/ size < Cardinality(Workers))
        \/ \E t \in Task : work[t].elements = <<Outside>>
    /\ kind # "pipe" /\ EqualLengths(args) =>
        \A t \in base .. base + tasks - 1 : work[t].elements # <<Outside>>

\* What the message "Unequal vectorized vector inputs to function!" and the
\* test threaded_unequalVectorLengths say: unequal lengths prepare nothing.
UnequalPreparesNothing ==
    status = "pushing" /\ kind # "pipe" /\ ~EqualLengths(args) => tasks = 0

\* Every call comes back, by a result, an exception or the end of the process,
\* also when its tasks do not fit into the queue at once.
CallReturns ==
    status \in {"pushing", "collecting"} ~> (Free \/ status = "crashed" \/ aborted)
=============================================================================
