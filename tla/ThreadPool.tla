----------------------------- MODULE ThreadPool ------------------------------
(***************************************************************************)
(* The thread pool of include/rmf/utils/threadpool.hpp and                  *)
(* src/utils/threadpool.cpp: one client thread that pushes, awaits and      *)
(* destroys, and the worker threads that run threadFunction, composed over  *)
(* the ring of SPMCQueue.  Task t is the t-th task pushed; its future is    *)
(* kept beside it, since the task owns the promise.                         *)
(*                                                                          *)
(* The client is the ring's single producer, as the ring requires.          *)
(***************************************************************************)
EXTENDS SPMCQueue

CONSTANT
    ThrowingTasks   \* the tasks whose function throws

ASSUME ThrowingAssumption == ThrowingTasks \subseteq Nat

Workers  == Consumers   \* the threads of m_threads dequeue
MaxTasks == MaxItems    \* the items of the ring are tasks
Task     == Item

VARIABLES
    alive,          \* m_alive
    numRunning,     \* m_numRunning
    wpc,            \* where each worker is in threadFunction
    client,         \* which call the client is in
    sawEmpty,       \* the local empty of awaitTasks
    awaited,        \* how many tasks the last awaitTasks that returned covers
    future,         \* the future of each task
    aborted         \* std::terminate or a fault took the process down

vars == <<queueVars, alive, numRunning, wpc, client, sawEmpty, awaited, future,
          aborted>>

Init ==
    /\ QueueInit
    /\ alive = TRUE
    /\ numRunning = 0
    /\ wpc = [w \in Workers |-> "check"]
    /\ client = "idle"
    /\ sawEmpty = FALSE
    /\ awaited = 0
    /\ future = [t \in Task |-> "none"]
    /\ aborted = FALSE

-----------------------------------------------------------------------------
(* The client.                                                              *)

\* pushTask makes the promise and its future, then calls enqueue.
StartPush ==
    /\ ~aborted
    /\ client = "idle"
    /\ produceIndex < MaxTasks
    /\ client' = "push"
    /\ future' = [future EXCEPT ![produceIndex] = "pending"]
    /\ UNCHANGED <<queueVars, alive, numRunning, wpc, sawEmpty, awaited, aborted>>

EnqueueCheck ==
    /\ ~aborted
    /\ client = "push"
    /\ CheckSpace
    /\ UNCHANGED <<alive, numRunning, wpc, client, sawEmpty, awaited, future, aborted>>

\* Assigning over a slot destroys the function it held, and breaks its promise.
EnqueueWrite ==
    /\ ~aborted
    /\ WriteSlot
    /\ future' = [t \in Task |->
                    IF data[SlotOf(produceIndex)] = t THEN "broken" ELSE future[t]]
    /\ UNCHANGED <<alive, numRunning, wpc, client, sawEmpty, awaited, aborted>>

EnqueuePublish ==
    /\ ~aborted
    /\ Publish
    /\ UNCHANGED <<alive, numRunning, wpc, client, sawEmpty, awaited, future, aborted>>

\* The last step of enqueue: pushTask returns the future.
EnqueueRelease ==
    /\ ~aborted
    /\ Release
    /\ client' = "idle"
    /\ UNCHANGED <<alive, numRunning, wpc, sawEmpty, awaited, future, aborted>>

StartAwait ==
    /\ ~aborted
    /\ client = "idle"
    /\ client' = "await_empty"
    /\ UNCHANGED <<queueVars, alive, numRunning, wpc, sawEmpty, awaited, future, aborted>>

AwaitEmpty ==
    /\ ~aborted
    /\ client = "await_empty"
    /\ sawEmpty' = IsEmpty
    /\ client' = "await_running"
    /\ UNCHANGED <<queueVars, alive, numRunning, wpc, awaited, future, aborted>>

\* Faulty: the queue is not looked at.
AwaitReturnIgnoresQueue ==
    /\ ~aborted
    /\ client = "await_running"
    /\ numRunning = 0
    /\ client' = "idle"
    /\ sawEmpty' = FALSE
    /\ awaited' = produceIndex
    /\ UNCHANGED <<queueVars, alive, numRunning, wpc, future, aborted>>

AwaitReturn ==
    /\ ~aborted
    /\ client = "await_running"
    /\ sawEmpty /\ numRunning = 0
    /\ client' = "idle"
    /\ sawEmpty' = FALSE
    /\ awaited' = produceIndex
    /\ UNCHANGED <<queueVars, alive, numRunning, wpc, future, aborted>>

AwaitAgain ==
    /\ ~aborted
    /\ client = "await_running"
    /\ ~(sawEmpty /\ numRunning = 0)
    /\ client' = "await_empty"
    /\ sawEmpty' = FALSE
    /\ UNCHANGED <<queueVars, alive, numRunning, wpc, awaited, future, aborted>>

\* The destructor: no new round for a worker, then join every thread.
StartDestroy ==
    /\ ~aborted
    /\ client = "idle"
    /\ alive' = FALSE
    /\ client' = "joining"
    /\ UNCHANGED <<queueVars, numRunning, wpc, sawEmpty, awaited, future, aborted>>

\* Faulty: the threads are not joined.
DestroyWithoutJoin ==
    /\ ~aborted
    /\ client = "joining"
    /\ client' = "destroyed"
    /\ future' = [t \in Task |->
                    IF \E s \in Slot : data[s] = t THEN "broken" ELSE future[t]]
    /\ UNCHANGED <<queueVars, alive, numRunning, wpc, sawEmpty, awaited, aborted>>

\* Every thread is joined; the members go, and with the queue every function
\* that still sits in it.
FinishDestroy ==
    /\ ~aborted
    /\ client = "joining"
    /\ \A w \in Workers : wpc[w] = "exited"
    /\ client' = "destroyed"
    /\ future' = [t \in Task |->
                    IF \E s \in Slot : data[s] = t THEN "broken" ELSE future[t]]
    /\ UNCHANGED <<queueVars, alive, numRunning, wpc, sawEmpty, awaited, aborted>>

-----------------------------------------------------------------------------
(* A worker.                                                                *)

\* Faulty: the loop does not look at the flag.
CheckNothing(w) ==
    /\ ~aborted
    /\ wpc[w] = "check"
    /\ wpc' = [wpc EXCEPT ![w] = "dequeue"]
    /\ UNCHANGED <<queueVars, alive, numRunning, client, sawEmpty, awaited, future, aborted>>

CheckAlive(w) ==
    /\ ~aborted
    /\ wpc[w] = "check"
    /\ wpc' = [wpc EXCEPT ![w] = IF alive THEN "dequeue" ELSE "exited"]
    /\ UNCHANGED <<queueVars, alive, numRunning, client, sawEmpty, awaited, future, aborted>>

\* try_acquire_for gives up: tryDequeueFor returns nullopt.
Timeout(w) ==
    /\ ~aborted
    /\ wpc[w] = "dequeue"
    /\ cpc[w] = "idle"
    /\ wpc' = [wpc EXCEPT ![w] = "check"]
    /\ UNCHANGED <<queueVars, alive, numRunning, client, sawEmpty, awaited, future, aborted>>

DequeueAcquire(w) ==
    /\ ~aborted
    /\ wpc[w] = "dequeue"
    /\ Acquire(w)
    /\ UNCHANGED <<alive, numRunning, wpc, client, sawEmpty, awaited, future, aborted>>

DequeueClaim(w) ==
    /\ ~aborted
    /\ Claim(w)
    /\ UNCHANGED <<alive, numRunning, wpc, client, sawEmpty, awaited, future, aborted>>

DequeueMove(w) ==
    /\ ~aborted
    /\ MoveOut(w)
    /\ UNCHANGED <<alive, numRunning, wpc, client, sawEmpty, awaited, future, aborted>>

DequeueCommit(w) ==
    /\ ~aborted
    /\ Commit(w)
    /\ wpc' = [wpc EXCEPT ![w] = "start"]
    /\ UNCHANGED <<alive, numRunning, client, sawEmpty, awaited, future, aborted>>

\* Faulty: the task is not counted.
StartUncounted(w) ==
    /\ ~aborted
    /\ wpc[w] = "start"
    /\ wpc' = [wpc EXCEPT ![w] = "run"]
    /\ UNCHANGED <<queueVars, alive, numRunning, client, sawEmpty, awaited, future, aborted>>

CountStart(w) ==
    /\ ~aborted
    /\ wpc[w] = "start"
    /\ numRunning' = numRunning + 1
    /\ wpc' = [wpc EXCEPT ![w] = "run"]
    /\ UNCHANGED <<queueVars, alive, client, sawEmpty, awaited, future, aborted>>

\* The task returns and its wrapper fulfils the promise.
RunTask(w) ==
    /\ ~aborted
    /\ wpc[w] = "run"
    /\ citem[w] \in Task \ ThrowingTasks
    /\ future[citem[w]] = "pending"
    /\ future' = [future EXCEPT ![citem[w]] = "ready"]
    /\ wpc' = [wpc EXCEPT ![w] = "finish"]
    /\ UNCHANGED <<queueVars, alive, numRunning, client, sawEmpty, awaited, aborted>>

\* The task throws and nothing catches it, or the worker calls a moved-from
\* function, or fulfils a promise twice: the process is gone.
RunAborts(w) ==
    /\ ~aborted
    /\ wpc[w] = "run"
    /\ citem[w] \in Task \ ThrowingTasks => future[citem[w]] # "pending"
    /\ aborted' = TRUE
    /\ UNCHANGED <<queueVars, alive, numRunning, wpc, client, sawEmpty, awaited, future>>

CountFinish(w) ==
    /\ ~aborted
    /\ wpc[w] = "finish"
    /\ numRunning' = numRunning - 1
    /\ wpc' = [wpc EXCEPT ![w] = "check"]
    /\ UNCHANGED <<queueVars, alive, client, sawEmpty, awaited, future, aborted>>

-----------------------------------------------------------------------------
\* The pool is gone, or the process is: nothing is left to do.
Stopped ==
    /\ client = "destroyed" \/ aborted
    /\ UNCHANGED vars

Push    == EnqueueCheck \/ EnqueueWrite \/ EnqueuePublish \/ EnqueueRelease
Await   == AwaitEmpty \/ AwaitReturn \/ AwaitAgain
Client  == StartPush \/ Push \/ StartAwait \/ Await \/ StartDestroy \/ FinishDestroy
Dequeue(w) == DequeueAcquire(w) \/ DequeueClaim(w) \/ DequeueMove(w) \/ DequeueCommit(w)
Run(w)  == CountStart(w) \/ RunTask(w) \/ RunAborts(w) \/ CountFinish(w)
Worker(w) == CheckAlive(w) \/ Timeout(w) \/ Dequeue(w) \/ Run(w)

Next == Client \/ (\E w \in Workers : Worker(w)) \/ Stopped

Spec == Init /\ [][Next]_vars

(* A call that was entered goes on, every thread is scheduled, and a permit  *)
(* that workers keep finding is taken in the end.  The client is not obliged *)
(* to make any call.                                                         *)
Fairness ==
    /\ WF_vars(Push)
    /\ WF_vars(Await)
    /\ WF_vars(FinishDestroy)
    /\ \A w \in Workers : WF_vars(Worker(w))
    /\ SF_vars(\E w \in Workers : DequeueAcquire(w))

FairSpec == Spec /\ Fairness

-----------------------------------------------------------------------------
(* Properties.                                                              *)

TypeOK ==
    /\ QueueTypeOK
    /\ alive \in BOOLEAN
    /\ numRunning \in Nat
    /\ wpc \in [Workers -> {"check", "dequeue", "start", "run", "finish", "exited"}]
    /\ client \in {"idle", "push", "await_empty", "await_running", "joining", "destroyed"}
    /\ sawEmpty \in BOOLEAN
    /\ awaited \in 0 .. MaxTasks
    /\ future \in [Task -> {"none", "pending", "ready", "broken"}]
    /\ aborted \in BOOLEAN

Running == {w \in Workers : wpc[w] \in {"run", "finish"}}

\* The counter is the number of workers between its two updates: it never
\* wraps below zero and is zero exactly when nobody runs a task.
RunningIsCounted == numRunning = Cardinality(Running)

\* Whatever awaitTasks covers has left the queue when it returns: a covered
\* task that has not finished is in the hand of a worker, past its dequeue.
AwaitLeavesNoneQueued ==
    \A t \in 0 .. awaited - 1 :
        future[t] = "pending" =>
            \E w \in Workers : wpc[w] \in {"start", "run"} /\ citem[w] = t

\* awaitTasks followed by the destructor is enough to have run every task
\* (ThreadPool_destructorWaits relies on it): none is dropped with the queue.
AwaitedTasksSurviveDestroy ==
    client = "destroyed" => \A t \in 0 .. awaited - 1 : future[t] = "ready"

\* The destructor leaves no future unanswered: a task was run, or it was still
\* in the queue and its promise broke with it; a claimed task is always run.
DestroySettlesFutures ==
    client = "destroyed" =>
        \A t \in 0 .. produceIndex - 1 :
            future[t] = IF t < consumeClaimIndex THEN "ready" ELSE "broken"

\* Only an exception of a task takes the process down: no worker calls a
\* moved-from function or fulfils a promise for the second time.
AbortsOnlyOnThrow ==
    aborted => \E w \in Workers : wpc[w] = "run" /\ citem[w] \in ThrowingTasks

\* A future, once ready or broken, keeps its answer: no task is run twice and
\* no finished task is still in a slot that a push or the destructor clears.
FutureSettlesOnce ==
    [][\A t \in Task : future[t] \in {"ready", "broken"} => future'[t] = future[t]]_vars

\* What the comment in threadFunction ("we know exactly when everything is
\* finished") and the test awaitTasksBlocks say of awaitTasks.
AwaitReturnsOnlyWhenDone ==
    \A t \in 0 .. awaited - 1 : future[t] = "ready"

\* What basicTest says of a client that pushes more tasks than the queue holds
\* and awaits them: it can get every future.
AwaitedNeverBroken ==
    \A t \in 0 .. awaited - 1 : future[t] # "broken"

\* Seen from the client the pool is the task service of TaskPool.
Service == INSTANCE TaskPool WITH
    submitted <- produceIndex,
    taken     <- consumeClaimIndex,
    done      <- {t \in Task : future[t] = "ready"},
    broken    <- {t \in Task : future[t] = "broken"},
    covered   <- awaited,
    closed    <- client = "destroyed"

ServiceImplemented == Service!Spec

\* enqueue's loop ends: room appears, since the workers drain the ring.
PushReturns == client = "push" ~> client # "push"

\* awaitTasks ends once the pushes stop, as they do: the client is inside it.
AwaitReturns == client = "await_empty" ~> client = "idle"

\* The destructor ends: every worker sees the flag within one round.
DestroyReturns == client = "joining" ~> client = "destroyed"

\* Every future is answered in the end, whatever the client does next.
FuturesSettle ==
    \A t \in Task : future[t] = "pending" ~> future[t] \in {"ready", "broken"}
=============================================================================
