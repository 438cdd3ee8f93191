-------------------------- MODULE ThreadPool_proofs --------------------------
(***************************************************************************)
(* Theorems about ThreadPool, for every set of workers, queue size, number  *)
(* of tasks and choice of throwing tasks.                                   *)
(*                                                                          *)
(* The pool uses the ring as SPMCQueue specifies it, so the ring's theorems *)
(* carry over.  What a client can rely on is proved for the rings of        *)
(* SafeRing, where every claimed task is the one that is run.               *)
(***************************************************************************)
EXTENDS ThreadPool, SPMCQueue_proofs

USE DEF Workers, MaxTasks, Task

\* Every step of the pool is a step of the ring, or leaves the ring alone.
LEMMA RingStep == [Next]_vars => [QueueNext]_queueVars
<1> SUFFICES ASSUME [Next]_vars PROVE [QueueNext]_queueVars
  OBVIOUS
<1>1. ASSUME Client PROVE [QueueNext]_queueVars
  BY <1>1
  DEF Client, StartPush, Push, EnqueueCheck, EnqueueWrite, EnqueuePublish,
      EnqueueRelease, StartAwait, Await, AwaitEmpty, AwaitReturn, AwaitAgain,
      StartDestroy, FinishDestroy, QueueNext, Producer
<1>2. ASSUME NEW w \in Consumers, Worker(w) PROVE [QueueNext]_queueVars
  <2>1. ASSUME Dequeue(w) PROVE QueueNext
    BY <2>1
    DEF Dequeue, DequeueAcquire, DequeueClaim, DequeueMove, DequeueCommit,
        QueueNext, Consumer
  <2>2. ASSUME CheckAlive(w) \/ Timeout(w) \/ Run(w) PROVE UNCHANGED queueVars
    BY <2>2
    DEF CheckAlive, Timeout, Run, CountStart, RunTask, RunAborts, CountFinish
  <2> QED
    BY <1>2, <2>1, <2>2 DEF Worker
<1>3. CASE Stopped \/ UNCHANGED vars
  BY <1>3 DEF Stopped, vars
<1> QED
  BY <1>1, <1>2, <1>3 DEF Next

\* The pool respects the ring: one producer, each worker in order.
THEOREM RingRespected == Spec => QueueSpec
<1>1. Init => QueueInit
  BY DEF Init
<1> QED
  BY <1>1, RingStep, PTL DEF Spec, QueueSpec

-----------------------------------------------------------------------------
(* Control: how the callers and the ring fit together, in every ring.       *)

Control ==
    /\ ppc # "idle" => client = "push"
    /\ \A w \in Consumers : cpc[w] # "idle" => wpc[w] = "dequeue"
    /\ client = "destroyed" => \A w \in Consumers : wpc[w] = "exited"

\* What awaitTasks has seen stays true until it returns, and what it covers
\* is past every position a worker is dequeuing.
AwaitInv ==
    /\ client = "await_running" /\ sawEmpty => IsEmpty
    /\ awaited =< consumeClaimIndex
    /\ \A w \in InFlight : awaited =< cidx[w]

PoolInv == TypeOK /\ Control /\ RunningIsCounted /\ AwaitInv

LEMMA PoolInit == Init => PoolInv
<1> SUFFICES ASSUME Init PROVE PoolInv
  OBVIOUS
<1>0. QueueInit /\ QueueTypeOK
  BY AccountingInit DEF Init, Accounting
<1>1. TypeOK
  <2>1. alive \in BOOLEAN /\ sawEmpty \in BOOLEAN /\ aborted \in BOOLEAN
    BY Zenon DEF Init
  <2>2. /\ numRunning \in Nat /\ awaited \in 0 .. MaxItems
        /\ wpc \in [Consumers -> {"check", "dequeue", "start", "run", "finish", "exited"}]
        /\ client \in {"idle", "push", "await_empty", "await_running", "joining", "destroyed"}
        /\ future \in [Item -> {"none", "pending", "ready", "broken"}]
    BY MaxItemsAssumption DEF Init
  <2> QED
    BY <1>0, <2>1, <2>2 DEF TypeOK
<1>2. Control
  BY <1>0 DEF Init, QueueInit, Control
<1>3. Running = {} /\ InFlight = {}
  BY <1>0 DEF Init, QueueInit, Running, InFlight
<1>4. RunningIsCounted
  BY <1>3, FS_EmptySet DEF Init, RunningIsCounted
<1>5. AwaitInv
  BY <1>0, <1>3 DEF Init, QueueInit, AwaitInv
<1> QED
  BY <1>1, <1>2, <1>4, <1>5 DEF PoolInv

LEMMA PoolTypeStep ==
  ASSUME PoolInv, Accounting, [Next]_vars
  PROVE  TypeOK'
<1> DEFINE Flags == alive \in BOOLEAN /\ sawEmpty \in BOOLEAN /\ aborted \in BOOLEAN
           Rest  == /\ numRunning \in Nat /\ awaited \in 0 .. MaxItems
                    /\ wpc \in [Consumers -> {"check", "dequeue", "start", "run", "finish", "exited"}]
                    /\ client \in {"idle", "push", "await_empty", "await_running", "joining", "destroyed"}
                    /\ future \in [Item -> {"none", "pending", "ready", "broken"}]
<1>0. Flags /\ Rest /\ RunningIsCounted /\ QueueTypeOK /\ QueueTypeOK'
  BY RingStep, TypeStep DEF PoolInv, TypeOK
<1>1. Flags'
  <2>1. CASE UNCHANGED <<alive, sawEmpty, aborted>>
    BY <1>0, <2>1, Zenon
  <2>2. CASE AwaitEmpty
    BY <1>0, <2>2, Zenon DEF AwaitEmpty, IsEmpty
  <2>3. CASE AwaitReturn \/ AwaitAgain
    BY <1>0, <2>3, Zenon DEF AwaitReturn, AwaitAgain
  <2>4. CASE StartDestroy
    BY <1>0, <2>4, Zenon DEF StartDestroy
  <2>5. ASSUME NEW w \in Consumers, RunAborts(w) PROVE Flags'
    BY <1>0, <2>5, Zenon DEF RunAborts
  <2>6. ASSUME StartPush \/ Push \/ StartAwait \/ FinishDestroy
        PROVE  UNCHANGED <<alive, sawEmpty, aborted>>
    BY <2>6
    DEF StartPush, Push, EnqueueCheck, EnqueueWrite, EnqueuePublish,
        EnqueueRelease, StartAwait, FinishDestroy
  <2>7. ASSUME NEW w \in Consumers, Worker(w), ~RunAborts(w)
        PROVE  UNCHANGED <<alive, sawEmpty, aborted>>
    <3>1. CASE Dequeue(w)
      BY <3>1 DEF Dequeue, DequeueAcquire, DequeueClaim, DequeueMove, DequeueCommit
    <3>2. CASE CheckAlive(w) \/ Timeout(w) \/ Run(w)
      BY <2>7, <3>2 DEF CheckAlive, Timeout, Run, CountStart, RunTask, CountFinish
    <3> QED
      BY <2>7, <3>1, <3>2 DEF Worker
  <2>8. ASSUME Stopped \/ UNCHANGED vars PROVE UNCHANGED <<alive, sawEmpty, aborted>>
    BY <2>8 DEF Stopped, vars
  <2> HIDE DEF Flags
  <2> QED
    BY <2>1, <2>2, <2>3, <2>4, <2>5, <2>6, <2>7, <2>8 DEF Next, Client, Await
<1>2. Rest'
  <2>1. CASE Client
    <3>1. CASE StartPush \/ Push \/ FinishDestroy
      BY <1>0, <3>1
      DEF StartPush, Push, EnqueueCheck, EnqueueWrite, EnqueuePublish,
          EnqueueRelease, FinishDestroy
    <3>2. CASE StartAwait \/ Await \/ StartDestroy
      BY <1>0, <3>2
      DEF StartAwait, Await, AwaitEmpty, AwaitReturn, AwaitAgain, StartDestroy,
          QueueTypeOK
    <3> QED
      BY <2>1, <3>1, <3>2 DEF Client
  <2>2. ASSUME NEW w \in Consumers, CountFinish(w) PROVE Rest'
    <3>1. w \in Running /\ Running \in SUBSET Consumers
      BY <2>2 DEF CountFinish, Running
    <3>2. numRunning \in Nat /\ numRunning >= 1
      BY <1>0, <3>1, CountOne DEF RunningIsCounted
    <3> QED
      BY <1>0, <2>2, <3>2 DEF CountFinish
  <2>3. ASSUME NEW w \in Consumers, Dequeue(w) PROVE Rest'
    BY <1>0, <2>3 DEF Dequeue, DequeueAcquire, DequeueClaim, DequeueMove, DequeueCommit
  <2>4. ASSUME NEW w \in Consumers, CheckAlive(w) \/ Timeout(w) PROVE Rest'
    BY <1>0, <2>4 DEF CheckAlive, Timeout
  <2>5. ASSUME NEW w \in Consumers, CountStart(w) \/ RunTask(w) \/ RunAborts(w)
        PROVE  Rest'
    BY <1>0, <2>5 DEF CountStart, RunTask, RunAborts
  <2>6. CASE Stopped \/ UNCHANGED vars
    BY <1>0, <2>6 DEF Stopped, vars
  <2> HIDE DEF Rest
  <2> QED
    BY <2>1, <2>2, <2>3, <2>4, <2>5, <2>6 DEF Next, Worker, Run
<1> QED
  BY <1>0, <1>1, <1>2 DEF TypeOK

LEMMA ControlStep ==
  ASSUME PoolInv, Accounting, [Next]_vars
  PROVE  Control'
<1>0. /\ Control
      /\ cpc \in [Consumers -> {"idle", "claim", "move", "commit"}]
      /\ wpc \in [Consumers -> {"check", "dequeue", "start", "run", "finish", "exited"}]
  BY DEF PoolInv, TypeOK, QueueTypeOK
<1> USE DEF Control, indices, queueVars
<1>1. CASE Client
  BY <1>0, <1>1
  DEF Client, StartPush, Push, EnqueueCheck, EnqueueWrite, EnqueuePublish,
      EnqueueRelease, StartAwait, Await, AwaitEmpty, AwaitReturn, AwaitAgain,
      StartDestroy, FinishDestroy, CheckSpace, WriteSlot, Publish, Release
<1>2. ASSUME NEW w \in Consumers, Worker(w) PROVE Control'
  <2>1. CASE CheckAlive(w) \/ Timeout(w)
    BY <1>0, <2>1 DEF CheckAlive, Timeout
  <2>2. CASE DequeueAcquire(w) \/ DequeueClaim(w) \/ DequeueMove(w)
    BY <1>0, <2>2 DEF DequeueAcquire, DequeueClaim, DequeueMove, Acquire, Claim, MoveOut
  <2>3. CASE DequeueCommit(w)
    BY <1>0, <2>3 DEF DequeueCommit, Commit
  <2>4. CASE Run(w)
    BY <1>0, <2>4 DEF Run, CountStart, RunTask, RunAborts, CountFinish
  <2> QED
    BY <1>2, <2>1, <2>2, <2>3, <2>4 DEF Worker, Dequeue
<1>3. CASE Stopped \/ UNCHANGED vars
  BY <1>0, <1>3 DEF Stopped, vars
<1> QED
  BY <1>1, <1>2, <1>3 DEF Next

LEMMA RunningStep ==
  ASSUME PoolInv, [Next]_vars
  PROVE  RunningIsCounted'
<1>0. /\ RunningIsCounted /\ Control /\ Running \in SUBSET Consumers
      /\ wpc \in [Consumers -> {"check", "dequeue", "start", "run", "finish", "exited"}]
  BY DEF PoolInv, TypeOK, Running
<1> USE DEF RunningIsCounted
<1>1. CASE UNCHANGED <<numRunning, wpc>>
  BY <1>0, <1>1 DEF Running
<1>2. ASSUME NEW w \in Consumers, CountStart(w) PROVE RunningIsCounted'
  <2>1. Running' = Running \cup {w} /\ w \notin Running
    BY <1>0, <1>2 DEF CountStart, Running
  <2> QED
    BY <1>0, <1>2, <2>1, CountOne DEF CountStart
<1>3. ASSUME NEW w \in Consumers, CountFinish(w) PROVE RunningIsCounted'
  <2>1. Running' = Running \ {w} /\ w \in Running
    BY <1>0, <1>3 DEF CountFinish, Running
  <2> QED
    BY <1>0, <1>3, <2>1, CountOne DEF CountFinish
<1>4. ASSUME NEW w \in Consumers,
             CheckAlive(w) \/ Timeout(w) \/ DequeueCommit(w) \/ RunTask(w)
      PROVE  RunningIsCounted'
  <2>1. Running' = Running /\ numRunning' = numRunning
    BY <1>0, <1>4 DEF CheckAlive, Timeout, DequeueCommit, RunTask, Running, Commit, Control
  <2> QED
    BY <1>0, <2>1
<1> QED
  BY <1>1, <1>2, <1>3, <1>4
  DEF Next, Client, StartPush, Push, EnqueueCheck, EnqueueWrite, EnqueuePublish,
      EnqueueRelease, StartAwait, Await, AwaitEmpty, AwaitReturn, AwaitAgain,
      StartDestroy, FinishDestroy, Worker, Dequeue, DequeueAcquire, DequeueClaim,
      DequeueMove, Run, RunAborts, Stopped, vars

LEMMA AwaitStep ==
  ASSUME PoolInv, Accounting, [Next]_vars
  PROVE  AwaitInv'
<1>0. /\ AwaitInv /\ Control /\ CommitCountsMoves /\ Accounting
      /\ cpc \in [Consumers -> {"idle", "claim", "move", "commit"}]
      /\ cidx \in [Consumers -> Nat] /\ awaited \in Nat
      /\ produceIndex \in Nat /\ consumeClaimIndex \in Nat /\ consumeCommitIndex \in Nat
  BY MaxItemsAssumption DEF PoolInv, TypeOK, QueueTypeOK, Accounting
<1> DEFINE Seen    == client = "await_running" /\ sawEmpty => IsEmpty
           Covered == /\ awaited =< consumeClaimIndex
                      /\ \A w \in InFlight : awaited =< cidx[w]
<1>i. /\ consumeCommitIndex =< consumeClaimIndex
      /\ consumeClaimIndex =< produceIndex
  <2>1. Released \in Int
    BY <1>0 DEF Released
  <2> QED
    BY <1>0, <2>1, IndexOrder
<1>1. Seen'
  <2>1. CASE AwaitEmpty
    BY <1>0, <2>1, Zenon DEF AwaitEmpty, IsEmpty, queueVars, indices
  <2>2. ASSUME NEW w \in Consumers, DequeueCommit(w) PROVE Seen'
    \* Nothing is in flight once commit and produce indices agree.
    <3>1. w \in InFlight /\ InFlight \in SUBSET Consumers
      BY <2>2 DEF DequeueCommit, Commit, InFlight
    <3>2. Cardinality(InFlight) \in Nat /\ Cardinality(InFlight) >= 1
      BY <3>1, CountOne
    <3>3. ~IsEmpty
      BY <1>0, <1>i, <3>2 DEF CommitCountsMoves, IsEmpty
    <3>4. UNCHANGED <<client, sawEmpty>>
      BY <2>2 DEF DequeueCommit
    <3> QED
      BY <1>0, <3>3, <3>4, Zenon DEF AwaitInv
  <2>3. ASSUME NEW w \in Consumers, Worker(w), ~DequeueCommit(w)
        PROVE  UNCHANGED <<client, sawEmpty, produceIndex, consumeCommitIndex>>
    <3>1. CASE Dequeue(w)
      BY <2>3, <3>1
      DEF Dequeue, DequeueAcquire, DequeueClaim, DequeueMove, Acquire, Claim,
          MoveOut, indices
    <3>2. CASE CheckAlive(w) \/ Timeout(w) \/ Run(w)
      BY <3>2
      DEF CheckAlive, Timeout, Run, CountStart, RunTask, RunAborts, CountFinish,
          queueVars, indices
    <3> QED
      BY <2>3, <3>1, <3>2 DEF Worker
  <2>4. ASSUME Client, ~AwaitEmpty PROVE client' # "await_running"
    BY <1>0, <2>4
    DEF Client, StartPush, Push, EnqueueCheck, EnqueueWrite, EnqueuePublish,
        EnqueueRelease, StartAwait, Await, AwaitReturn, AwaitAgain,
        StartDestroy, FinishDestroy, Control, Publish, WriteSlot, Release
  <2>5. ASSUME Stopped \/ UNCHANGED vars
        PROVE  UNCHANGED <<client, sawEmpty, produceIndex, consumeCommitIndex>>
    BY <2>5 DEF Stopped, vars, queueVars, indices
  <2>6. ASSUME UNCHANGED <<client, sawEmpty, produceIndex, consumeCommitIndex>>
        PROVE  Seen'
    BY <1>0, <2>6, Zenon DEF AwaitInv, IsEmpty
  <2>7. ASSUME client' # "await_running" PROVE Seen'
    BY <2>7, Zenon
  <2> HIDE DEF Seen
  <2> QED
    BY <2>1, <2>2, <2>3, <2>4, <2>5, <2>6, <2>7 DEF Next
<1>2. Covered'
  <2>0. Covered
    BY <1>0 DEF AwaitInv
  <2>1. CASE AwaitReturn
    <3>1. IsEmpty /\ awaited' = produceIndex
          /\ UNCHANGED <<consumeClaimIndex, cpc, cidx>>
      BY <1>0, <2>1 DEF AwaitReturn, AwaitInv, queueVars, indices
    <3>2. consumeClaimIndex = produceIndex /\ Cardinality(InFlight) = 0
      BY <1>0, <1>i, <3>1, GroupsCounted DEF IsEmpty, CommitCountsMoves
    <3>3. InFlight = {}
      <4>1. IsFiniteSet(InFlight)
        BY ConsumersAssumption, FS_Subset DEF InFlight
      <4> QED
        BY <3>2, <4>1, FS_EmptySet
    <3> QED
      BY <1>0, <3>1, <3>2, <3>3 DEF InFlight
  <2>2. ASSUME NEW w \in Consumers, DequeueClaim(w) PROVE Covered'
    BY <1>0, <2>0, <2>2 DEF DequeueClaim, Claim, InFlight
  <2>3. ASSUME NEW w \in Consumers,
               DequeueAcquire(w) \/ DequeueMove(w) \/ DequeueCommit(w)
        PROVE  Covered'
    BY <1>0, <2>0, <2>3
    DEF DequeueAcquire, DequeueMove, DequeueCommit, Acquire, MoveOut, Commit,
        InFlight, indices
  <2>4. ASSUME Client, ~AwaitReturn
        PROVE  UNCHANGED <<awaited, consumeClaimIndex, cpc, cidx>>
    BY <2>4
    DEF Client, StartPush, Push, EnqueueCheck, EnqueueWrite, EnqueuePublish,
        EnqueueRelease, StartAwait, Await, AwaitEmpty, AwaitAgain, StartDestroy,
        FinishDestroy, CheckSpace, WriteSlot, Publish, Release, queueVars, indices
  <2>5. ASSUME NEW w \in Consumers, CheckAlive(w) \/ Timeout(w) \/ Run(w)
        PROVE  UNCHANGED <<awaited, consumeClaimIndex, cpc, cidx>>
    BY <2>5
    DEF CheckAlive, Timeout, Run, CountStart, RunTask, RunAborts, CountFinish,
        queueVars, indices
  <2>6. ASSUME Stopped \/ UNCHANGED vars
        PROVE  UNCHANGED <<awaited, consumeClaimIndex, cpc, cidx>>
    BY <2>6 DEF Stopped, vars, queueVars, indices
  <2>7. ASSUME UNCHANGED <<awaited, consumeClaimIndex, cpc, cidx>> PROVE Covered'
    BY <2>0, <2>7 DEF InFlight
  <2> HIDE DEF Covered
  <2> QED
    BY <2>1, <2>2, <2>3, <2>4, <2>5, <2>6, <2>7 DEF Next, Worker, Dequeue
<1> QED
  BY <1>1, <1>2, Zenon DEF AwaitInv

\* The control invariant holds of every pool, on every ring.
THEOREM PoolInvHolds == Spec => [](PoolInv /\ Accounting)
<1>1. Init => PoolInv /\ Accounting
  BY PoolInit, AccountingInit DEF Init
<1>2. PoolInv /\ Accounting /\ [Next]_vars => (PoolInv /\ Accounting)'
  BY RingStep, AccountingStep, PoolTypeStep, ControlStep, RunningStep, AwaitStep
  DEF PoolInv
<1> QED
  BY <1>1, <1>2, PTL DEF Spec

\* Every variable of the pool keeps its type: above all, numRunning never
\* wraps below zero.
THEOREM PoolTypeCorrect == Spec => []TypeOK
<1>1. PoolInv => TypeOK
  BY DEF PoolInv
<1> QED
  BY <1>1, PoolInvHolds, PTL

\* numRunning counts the workers that run a task, on every ring.
THEOREM RunningCorrect == Spec => []RunningIsCounted
<1>1. PoolInv => RunningIsCounted
  BY DEF PoolInv
<1> QED
  BY <1>1, PoolInvHolds, PTL

-----------------------------------------------------------------------------
(* Futures: what became of every task, in a SafeRing.                       *)

\* The workers that have a claimed task and have not finished it.
Handling == {w \in Consumers : cpc[w] \in {"move", "commit"} \/ wpc[w] \in {"start", "run"}}

\* The client is between making a future and publishing its task.
Pushing == client = "push" /\ ppc # "release"

\* An unpublished task has no future yet, but the one being pushed; a queued
\* one is pending until the queue goes with it; a claimed one is finished or in
\* the hand of a worker.
Waiting ==
    /\ \A t \in Item : t >= produceIndex =>
           future[t] = IF t = produceIndex /\ Pushing THEN "pending" ELSE "none"
    /\ \A t \in Item : consumeClaimIndex =< t /\ t < produceIndex =>
           future[t] = IF client = "destroyed" THEN "broken" ELSE "pending"

Claimed ==
    \A t \in Item : t < consumeClaimIndex =>
        \/ future[t] = "ready"
        \/ future[t] = "pending" /\ \E w \in Handling : cidx[w] = t

\* A worker that has a task has one of its own, still pending, and the task is
\* the one enqueued at the position it claimed.
InHand ==
    /\ \A w \in Handling : cidx[w] < consumeClaimIndex /\ future[cidx[w]] = "pending"
    /\ \A v, w \in Handling : v # w => cidx[v] # cidx[w]
    /\ \A w \in Consumers : wpc[w] \in {"start", "run"} => citem[w] = cidx[w]

\* The inductive invariant of a pool over a SafeRing.
PoolFutures == PoolInv /\ RingInv /\ Waiting /\ Claimed /\ InHand /\ AbortsOnlyOnThrow

\* The facts about the ring and the types that the steps below use.
Facts ==
    /\ produceIndex \in Nat /\ consumeClaimIndex \in Nat
    /\ produceIndex =< MaxItems /\ consumeClaimIndex =< produceIndex
    /\ Item \subseteq Nat
    /\ \A i \in Nat : i < MaxItems => i \in Item
    /\ cidx \in [Consumers -> Nat]
    /\ cpc \in [Consumers -> {"idle", "claim", "move", "commit"}]
    /\ wpc \in [Consumers -> {"check", "dequeue", "start", "run", "finish", "exited"}]
    /\ future \in [Item -> {"none", "pending", "ready", "broken"}]
    /\ Control
    /\ DeliveredInPlace

LEMMA FactsHold == ASSUME PoolFutures PROVE Facts
<1>1. Accounting /\ QueueTypeOK /\ DeliveredInPlace
  BY DEF PoolFutures, RingInv, Placement, ClaimsInv, Accounting, Placed
<1>2. produceIndex \in Nat /\ consumeClaimIndex \in Nat /\ produceIndex =< MaxItems
  BY <1>1, MaxItemsAssumption DEF QueueTypeOK
<1>3. Released \in Int
  BY <1>2 DEF Released
<1>4. consumeClaimIndex =< produceIndex
  BY <1>1, <1>2, <1>3, IndexOrder
<1>5. Item \subseteq Nat /\ \A i \in Nat : i < MaxItems => i \in Item
  BY MaxItemsAssumption DEF Item
<1> QED
  BY <1>1, <1>2, <1>4, <1>5 DEF PoolFutures, PoolInv, TypeOK, QueueTypeOK, Facts

\* A push assigns over an empty slot: no future breaks with it.
LEMMA WriteBreaksNothing ==
  ASSUME PoolFutures, EnqueueWrite
  PROVE  future' = future
<1>1. data[SlotOf(produceIndex)] = Empty
  BY FreshSlot DEF PoolFutures, EnqueueWrite, WriteSlot
<1>2. \A t \in Item : data[SlotOf(produceIndex)] # t
  BY <1>1, FactsHold, EmptyAssumption DEF Facts
<1> QED
  BY <1>2, FactsHold DEF EnqueueWrite, Facts

\* The destructor breaks the futures of the tasks that were not claimed.
LEMMA DestroyBreaksQueued ==
  ASSUME PoolFutures, FinishDestroy
  PROVE  future' = [t \in Item |->
                      IF consumeClaimIndex =< t /\ t < produceIndex
                      THEN "broken" ELSE future[t]]
<1>1. /\ ppc = "idle" /\ \A w \in Consumers : cpc[w] = "idle"
  BY FactsHold DEF FinishDestroy, Facts, Control
<1>2. ASSUME NEW t \in Item
      PROVE  (\E s \in Slot : data[s] = t) <=> consumeClaimIndex =< t /\ t < produceIndex
  <2>1. t \in Nat /\ t # Empty
    BY FactsHold, EmptyAssumption DEF Facts
  <2>2. ASSUME NEW s \in Slot, data[s] = t
        PROVE  consumeClaimIndex =< t /\ t < produceIndex
    BY <1>1, <2>1, <2>2 DEF PoolFutures, RingInv, Contents
  <2>3. ASSUME consumeClaimIndex =< t, t < produceIndex
        PROVE  \E s \in Slot : data[s] = t
    BY <2>1, <2>3, SlotInRing DEF PoolFutures, RingInv, Placement, Placed
  <2> QED
    BY <2>2, <2>3
<1> QED
  BY <1>2 DEF FinishDestroy

LEMMA FuturesInit == Init => Waiting /\ Claimed /\ InHand /\ AbortsOnlyOnThrow
<1> SUFFICES ASSUME Init PROVE Waiting /\ Claimed /\ InHand /\ AbortsOnlyOnThrow
  OBVIOUS
<1>1. Item \subseteq Nat
  BY MaxItemsAssumption DEF Item
<1>2. Handling = {}
  BY DEF Init, QueueInit, Handling
<1>3. Waiting
  BY <1>1 DEF Init, QueueInit, Waiting, Pushing
<1>4. Claimed
  BY <1>1 DEF Init, QueueInit, Claimed
<1>5. InHand
  BY <1>2 DEF Init, InHand
<1>6. AbortsOnlyOnThrow
  BY Zenon DEF Init, AbortsOnlyOnThrow
<1> QED
  BY <1>3, <1>4, <1>5, <1>6

LEMMA AbortStep ==
  ASSUME PoolFutures, [Next]_vars
  PROVE  AbortsOnlyOnThrow'
<1>1. ASSUME Client PROVE ~aborted'
  <2>1. ASSUME StartPush \/ Push PROVE ~aborted'
    BY <2>1, Zenon
    DEF StartPush, Push, EnqueueCheck, EnqueueWrite, EnqueuePublish, EnqueueRelease
  <2>2. ASSUME StartAwait \/ Await \/ StartDestroy \/ FinishDestroy PROVE ~aborted'
    BY <2>2, Zenon
    DEF StartAwait, Await, AwaitEmpty, AwaitReturn, AwaitAgain, StartDestroy, FinishDestroy
  <2> QED
    BY <1>1, <2>1, <2>2, Zenon DEF Client
<1>2. ASSUME NEW w \in Consumers, Worker(w), ~RunAborts(w) PROVE ~aborted'
  <2>1. ASSUME Dequeue(w) PROVE ~aborted'
    BY <2>1, Zenon
    DEF Dequeue, DequeueAcquire, DequeueClaim, DequeueMove, DequeueCommit
  <2>2. ASSUME CheckAlive(w) \/ Timeout(w) PROVE ~aborted'
    BY <2>2, Zenon DEF CheckAlive, Timeout
  <2>3. ASSUME CountStart(w) \/ RunTask(w) \/ CountFinish(w) PROVE ~aborted'
    BY <2>3, Zenon DEF CountStart, RunTask, CountFinish
  <2> QED
    BY <1>2, <2>1, <2>2, <2>3, Zenon DEF Worker, Run
<1>3. ASSUME NEW w \in Consumers, RunAborts(w)
      PROVE  wpc'[w] = "run" /\ citem'[w] \in ThrowingTasks
  <2>1. /\ wpc[w] = "run" /\ UNCHANGED <<wpc, citem>>
        /\ citem[w] \in Item \ ThrowingTasks => future[citem[w]] # "pending"
    BY <1>3 DEF RunAborts, queueVars
  <2>2. w \in Handling /\ InHand
    BY <2>1 DEF Handling, PoolFutures
  <2>3. citem[w] = cidx[w] /\ cidx[w] < consumeClaimIndex /\ future[cidx[w]] = "pending"
    BY <2>1, <2>2 DEF InHand
  <2>4. cidx[w] \in Item
    BY <2>3, FactsHold, MaxItemsAssumption DEF Facts
  <2> QED
    BY <2>1, <2>3, <2>4
<1>4. ASSUME Stopped \/ UNCHANGED vars PROVE AbortsOnlyOnThrow'
  <2>1. AbortsOnlyOnThrow /\ UNCHANGED <<aborted, wpc, citem>>
    BY <1>4 DEF Stopped, vars, queueVars, PoolFutures
  <2> QED
    BY <2>1, Zenon DEF AbortsOnlyOnThrow
<1>5. ASSUME ~aborted' PROVE AbortsOnlyOnThrow'
  BY <1>5, Zenon DEF AbortsOnlyOnThrow
<1>6. ASSUME NEW w \in Consumers, RunAborts(w) PROVE AbortsOnlyOnThrow'
  BY <1>3, <1>6, Zenon DEF AbortsOnlyOnThrow
<1> QED
  BY <1>1, <1>2, <1>4, <1>5, <1>6, Zenon DEF Next

\* The client's steps: a future appears with a push, and queued ones break
\* with the queue.
LEMMA ClientFutures ==
  ASSUME PoolFutures, Client
  PROVE  Waiting' /\ Claimed' /\ InHand'
<1>0. Facts /\ Waiting /\ Claimed /\ InHand
  BY FactsHold DEF PoolFutures
<1>h. ASSUME UNCHANGED <<cpc, wpc>> PROVE Handling' = Handling
  BY <1>h DEF Handling
<1> USE DEF Facts
<1>1. CASE StartPush
  <2>1. /\ client = "idle" /\ client' = "push" /\ ppc = "idle"
        /\ produceIndex \in Item
        /\ future' = [future EXCEPT ![produceIndex] = "pending"]
        /\ UNCHANGED <<produceIndex, consumeClaimIndex, ppc, cpc, cidx, citem, wpc>>
    BY <1>0, <1>1 DEF StartPush, queueVars, indices, Control
  <2>2. Waiting'
    BY <1>0, <2>1 DEF Waiting, Pushing
  <2>3. Claimed'
    BY <1>0, <1>h, <2>1 DEF Claimed
  <2>4. InHand'
    <3>1. \A w \in Handling : w \in Consumers
      BY DEF Handling
    <3>2. \A w \in Handling : cidx[w] \in Item /\ cidx[w] # produceIndex
      BY <1>0, <3>1, MaxItemsAssumption DEF InHand
    <3> QED
      BY <1>0, <1>h, <2>1, <3>2 DEF InHand
  <2> QED
    BY <2>2, <2>3, <2>4
<1>2. CASE EnqueuePublish
  <2>1. /\ client = "push" /\ client' = "push" /\ ppc = "publish" /\ ppc' = "release"
        /\ produceIndex' = produceIndex + 1
        /\ UNCHANGED <<consumeClaimIndex, cpc, cidx, citem, wpc, future>>
    BY <1>0, <1>2 DEF EnqueuePublish, Publish, Control
  <2>2. Waiting'
    BY <1>0, <2>1 DEF Waiting, Pushing
  <2> QED
    BY <1>0, <1>h, <2>1, <2>2 DEF Claimed, InHand
<1>3. CASE FinishDestroy
  <2>1. /\ client = "joining" /\ client' = "destroyed"
        /\ future' = [t \in Item |->
                        IF consumeClaimIndex =< t /\ t < produceIndex
                        THEN "broken" ELSE future[t]]
        /\ UNCHANGED <<produceIndex, consumeClaimIndex, ppc, cpc, cidx, citem, wpc>>
    BY <1>3, DestroyBreaksQueued DEF FinishDestroy, queueVars, indices
  <2>2. Handling = {}
    BY <1>0, <1>3 DEF FinishDestroy, Handling, Control
  <2>3. Waiting'
    BY <1>0, <2>1 DEF Waiting, Pushing
  <2>4. Claimed'
    BY <1>0, <1>h, <2>1, <2>2 DEF Claimed
  <2>5. InHand'
    BY <1>0, <1>h, <2>1, <2>2 DEF InHand
  <2> QED
    BY <2>3, <2>4, <2>5
<1>4. ASSUME \/ EnqueueCheck \/ EnqueueWrite \/ EnqueueRelease
             \/ StartAwait \/ Await \/ StartDestroy
      PROVE  Waiting' /\ Claimed' /\ InHand'
  <2>1. UNCHANGED <<produceIndex, consumeClaimIndex, cpc, cidx, citem, wpc, future>>
    <3>1. CASE EnqueueCheck \/ EnqueueWrite \/ EnqueueRelease
      BY <3>1, WriteBreaksNothing
      DEF EnqueueCheck, EnqueueWrite, EnqueueRelease, CheckSpace, WriteSlot,
          Release, queueVars, indices
    <3>2. CASE StartAwait \/ Await \/ StartDestroy
      BY <3>2
      DEF StartAwait, Await, AwaitEmpty, AwaitReturn, AwaitAgain, StartDestroy,
          queueVars, indices
    <3> QED
      BY <1>4, <3>1, <3>2
  <2>2. /\ Pushing' = Pushing
        /\ client # "destroyed" /\ client' # "destroyed"
    <3>1. CASE EnqueueCheck \/ EnqueueWrite \/ EnqueueRelease
      BY <1>0, <3>1
      DEF EnqueueCheck, EnqueueWrite, EnqueueRelease, CheckSpace, WriteSlot,
          Release, Control, Pushing
    <3>2. CASE StartAwait \/ Await \/ StartDestroy
      BY <3>2
      DEF StartAwait, Await, AwaitEmpty, AwaitReturn, AwaitAgain, StartDestroy,
          Pushing
    <3> QED
      BY <1>4, <3>1, <3>2
  <2>3. Waiting'
    BY <1>0, <2>1, <2>2 DEF Waiting
  <2> QED
    BY <1>0, <1>h, <2>1, <2>3 DEF Claimed, InHand
<1> QED
  BY <1>1, <1>2, <1>3, <1>4 DEF Client, Push

\* A worker's steps: a claim takes the oldest queued task, and only the run
\* answers its future.
LEMMA WorkerFutures ==
  ASSUME PoolFutures, NEW w \in Consumers, Worker(w)
  PROVE  Waiting' /\ Claimed' /\ InHand'
<1>0. Facts /\ Waiting /\ Claimed /\ InHand
  BY FactsHold DEF PoolFutures
<1> USE DEF Facts
<1>1. CASE DequeueClaim(w)
  <2>1. /\ cpc[w] = "claim" /\ cpc' = [cpc EXCEPT ![w] = "move"]
        /\ cidx' = [cidx EXCEPT ![w] = consumeClaimIndex]
        /\ consumeClaimIndex' = consumeClaimIndex + 1
        /\ UNCHANGED <<produceIndex, ppc, citem, wpc, client, future>>
    BY <1>1 DEF DequeueClaim, Claim
  <2>2. consumeClaimIndex < produceIndex
    BY <2>1, ClaimHasItem DEF PoolFutures, RingInv, Placement, ClaimsInv
  <2>3. wpc[w] = "dequeue" /\ client # "destroyed"
    BY <1>0, <2>1 DEF Control
  <2>4. Handling' = Handling \cup {w} /\ w \notin Handling
    BY <1>0, <2>1, <2>3 DEF Handling
  <2>5. consumeClaimIndex \in Item /\ future[consumeClaimIndex] = "pending"
    BY <1>0, <2>2, <2>3, MaxItemsAssumption DEF Waiting
  <2>6. /\ cidx'[w] = consumeClaimIndex
        /\ \A v \in Handling : cidx'[v] = cidx[v] /\ v \in Consumers
    BY <1>0, <2>1, <2>4 DEF Handling
  <2>7. Waiting'
    BY <1>0, <2>1 DEF Waiting, Pushing
  <2>8. Claimed'
    <3> SUFFICES ASSUME NEW t \in Item, t < consumeClaimIndex + 1
                 PROVE  \/ future[t] = "ready"
                        \/ future[t] = "pending" /\ \E v \in Handling' : cidx'[v] = t
      BY <2>1 DEF Claimed
    <3>1. CASE t = consumeClaimIndex
      BY <2>4, <2>5, <2>6, <3>1
    <3>2. CASE t < consumeClaimIndex
      BY <1>0, <2>4, <2>6, <3>2 DEF Claimed
    <3> QED
      BY <1>0, <3>1, <3>2
  <2>9. InHand'
    <3>1. \A v \in Handling' : /\ cidx'[v] < consumeClaimIndex'
                               /\ future'[cidx'[v]] = "pending"
      BY <1>0, <2>1, <2>4, <2>5, <2>6 DEF InHand
    <3>2. \A u, v \in Handling' : u # v => cidx'[u] # cidx'[v]
      BY <1>0, <2>4, <2>6 DEF InHand
    <3>3. \A v \in Consumers : wpc'[v] \in {"start", "run"} => citem'[v] = cidx'[v]
      BY <1>0, <2>1, <2>3 DEF InHand
    <3> QED
      BY <3>1, <3>2, <3>3 DEF InHand
  <2> QED
    BY <2>7, <2>8, <2>9
<1>2. CASE RunTask(w)
  <2>1. /\ wpc[w] = "run" /\ wpc' = [wpc EXCEPT ![w] = "finish"]
        /\ future' = [future EXCEPT ![citem[w]] = "ready"]
        /\ citem[w] \in Item
        /\ UNCHANGED <<produceIndex, consumeClaimIndex, ppc, cpc, cidx, citem, client>>
    BY <1>2 DEF RunTask, queueVars, indices
  <2>2. cpc[w] = "idle" /\ w \in Handling
    BY <1>0, <2>1 DEF Control, Handling
  <2>3. citem[w] = cidx[w] /\ cidx[w] < consumeClaimIndex
    BY <1>0, <2>1, <2>2 DEF InHand
  <2>4. Handling' = Handling \ {w}
    BY <1>0, <2>1, <2>2 DEF Handling
  <2>5. Waiting'
    BY <1>0, <2>1, <2>3 DEF Waiting, Pushing
  <2>6. Claimed'
    BY <1>0, <2>1, <2>2, <2>3, <2>4 DEF Claimed, InHand
  <2>7. InHand'
    <3>1. \A v \in Handling' : cidx[v] \in Item /\ cidx[v] # cidx[w]
      <4>1. \A v \in Handling : v \in Consumers
        BY DEF Handling
      <4> QED
        BY <1>0, <2>2, <2>4, <4>1, MaxItemsAssumption DEF InHand
    <3>2. \A v \in Handling' : cidx'[v] < consumeClaimIndex' /\ future'[cidx'[v]] = "pending"
      BY <1>0, <2>1, <2>3, <2>4, <3>1 DEF InHand
    <3> QED
      BY <1>0, <2>1, <2>4, <3>2 DEF InHand
  <2> QED
    BY <2>5, <2>6, <2>7
<1>3. CASE DequeueCommit(w)
  <2>1. /\ cpc[w] = "commit" /\ cpc' = [cpc EXCEPT ![w] = "idle"]
        /\ wpc' = [wpc EXCEPT ![w] = "start"]
        /\ UNCHANGED <<produceIndex, consumeClaimIndex, ppc, cidx, citem, client, future>>
    BY <1>3 DEF DequeueCommit, Commit
  <2>2. Handling' = Handling
    BY <1>0, <2>1 DEF Handling
  <2>3. citem[w] = cidx[w]
    BY <1>0, <2>1 DEF DeliveredInPlace
  <2>4. Waiting' /\ Claimed'
    BY <1>0, <2>1, <2>2 DEF Waiting, Claimed, Pushing
  <2>5. InHand'
    BY <1>0, <2>1, <2>2, <2>3 DEF InHand
  <2> QED
    BY <2>4, <2>5
<1>4. CASE DequeueMove(w)
  <2>1. /\ cpc[w] = "move" /\ cpc' = [cpc EXCEPT ![w] = "commit"]
        /\ \A v \in Consumers \ {w} : citem'[v] = citem[v]
        /\ UNCHANGED <<produceIndex, consumeClaimIndex, ppc, cidx, wpc, client, future>>
    BY <1>0, <1>4 DEF DequeueMove, MoveOut, indices
  <2>2. Handling' = Handling /\ wpc[w] = "dequeue"
    BY <1>0, <2>1 DEF Handling, Control
  <2>3. Waiting' /\ Claimed'
    BY <1>0, <2>1, <2>2 DEF Waiting, Claimed, Pushing
  <2>4. InHand'
    BY <1>0, <2>1, <2>2 DEF InHand
  <2> QED
    BY <2>3, <2>4
<1>5. ASSUME \/ CheckAlive(w) \/ Timeout(w) \/ DequeueAcquire(w)
             \/ CountStart(w) \/ RunAborts(w) \/ CountFinish(w)
      PROVE  Waiting' /\ Claimed' /\ InHand'
  <2>1. /\ UNCHANGED <<produceIndex, consumeClaimIndex, ppc, cidx, citem, client, future>>
        /\ Handling' = Handling
        /\ \A v \in Consumers : wpc'[v] \in {"start", "run"} => wpc[v] \in {"start", "run"}
    <3>1. CASE CheckAlive(w) \/ Timeout(w)
      BY <1>0, <3>1 DEF CheckAlive, Timeout, Handling, Control, queueVars, indices
    <3>2. CASE DequeueAcquire(w)
      BY <1>0, <3>2 DEF DequeueAcquire, Acquire, Handling, Control, indices
    <3>3. CASE CountStart(w)
      BY <1>0, <3>3 DEF CountStart, Handling, Control, queueVars, indices
    <3>4. CASE RunAborts(w)
      BY <1>0, <3>4 DEF RunAborts, Handling, queueVars, indices
    <3>5. CASE CountFinish(w)
      BY <1>0, <3>5 DEF CountFinish, Handling, Control, queueVars, indices
    <3> QED
      BY <1>5, <3>1, <3>2, <3>3, <3>4, <3>5
  <2> QED
    BY <1>0, <2>1 DEF Waiting, Claimed, InHand, Pushing
<1> QED
  BY <1>1, <1>2, <1>3, <1>4, <1>5 DEF Worker, Dequeue, Run

LEMMA FuturesStep ==
  ASSUME PoolFutures, [Next]_vars
  PROVE  Waiting' /\ Claimed' /\ InHand'
<1>1. ASSUME Stopped \/ UNCHANGED vars PROVE Waiting' /\ Claimed' /\ InHand'
  <2>1. UNCHANGED <<produceIndex, consumeClaimIndex, ppc, cpc, cidx, citem, wpc,
                    client, future>>
    BY <1>1 DEF Stopped, vars, queueVars, indices
  <2>2. Handling' = Handling /\ Pushing' = Pushing
    BY <2>1 DEF Handling, Pushing
  <2> QED
    BY <2>1, <2>2 DEF PoolFutures, Waiting, Claimed, InHand
<1> QED
  BY <1>1, ClientFutures, WorkerFutures DEF Next

\* The futures invariant holds of every pool over a SafeRing.
THEOREM PoolFuturesHolds ==
  ASSUME SafeRing
  PROVE  Spec => []PoolFutures
<1>1. Init => PoolFutures
  BY PoolInit, RingInvInit, FuturesInit DEF Init, PoolFutures
<1>2. PoolFutures /\ [Next]_vars => PoolFutures'
  <2> SUFFICES ASSUME PoolFutures, [Next]_vars PROVE PoolFutures'
    OBVIOUS
  <2>1. Accounting /\ PoolInv /\ RingInv
    BY DEF PoolFutures, RingInv, Placement, ClaimsInv
  <2>2. PoolInv'
    BY <2>1, PoolTypeStep, ControlStep, RunningStep, AwaitStep DEF PoolInv
  <2>3. RingInv'
    BY <2>1, RingStep, RingInvStep
  <2> QED
    BY <2>2, <2>3, FuturesStep, AbortStep DEF PoolFutures
<1> QED
  BY <1>1, <1>2, PTL DEF Spec

\* When awaitTasks returns, every task it covers has left the queue.
THEOREM AwaitCorrect ==
  ASSUME SafeRing
  PROVE  Spec => []AwaitLeavesNoneQueued
<1>1. ASSUME PoolFutures PROVE AwaitLeavesNoneQueued
  <2>0. Facts /\ AwaitInv /\ Claimed /\ InHand /\ awaited \in Nat
    BY <1>1, FactsHold, MaxItemsAssumption DEF PoolFutures, PoolInv, TypeOK
  <2> SUFFICES ASSUME NEW t \in 0 .. awaited - 1, future[t] = "pending"
               PROVE  \E w \in Consumers : wpc[w] \in {"start", "run"} /\ citem[w] = t
    BY DEF AwaitLeavesNoneQueued
  <2>1. t \in Item /\ t < consumeClaimIndex /\ t < awaited
    BY <2>0, MaxItemsAssumption DEF AwaitInv, Facts
  <2>2. PICK w \in Handling : cidx[w] = t
    BY <2>0, <2>1 DEF Claimed
  <2>3. w \in Consumers /\ w \notin InFlight
    BY <2>0, <2>1, <2>2 DEF AwaitInv, Handling, Facts
  <2>4. wpc[w] \in {"start", "run"}
    BY <2>2, <2>3 DEF Handling, InFlight
  <2> QED
    BY <2>0, <2>2, <2>3, <2>4 DEF InHand
<1> QED
  BY <1>1, PoolFuturesHolds, PTL

\* In a destroyed pool what was claimed is ready, and what was awaited was claimed.
LEMMA DestroyedSettled ==
  ASSUME PoolFutures
  PROVE  DestroySettlesFutures /\ AwaitedTasksSurviveDestroy
<1>0. Facts /\ AwaitInv /\ Waiting /\ Claimed /\ awaited \in Nat
  BY FactsHold, MaxItemsAssumption DEF PoolFutures, PoolInv, TypeOK
<1> SUFFICES ASSUME client = "destroyed"
             PROVE  /\ \A t \in 0 .. produceIndex - 1 :
                         future[t] = IF t < consumeClaimIndex THEN "ready" ELSE "broken"
                    /\ \A t \in 0 .. awaited - 1 : future[t] = "ready"
  BY DEF DestroySettlesFutures, AwaitedTasksSurviveDestroy
<1>1. Handling = {}
  BY <1>0 DEF Handling, Facts, Control
<1>2. \A t \in 0 .. produceIndex - 1 :
          future[t] = IF t < consumeClaimIndex THEN "ready" ELSE "broken"
  <2> SUFFICES ASSUME NEW t \in 0 .. produceIndex - 1
               PROVE  future[t] = IF t < consumeClaimIndex THEN "ready" ELSE "broken"
    OBVIOUS
  <2>1. t \in Item /\ t \in Nat /\ t < produceIndex
    BY <1>0, MaxItemsAssumption DEF Facts
  <2> QED
    BY <1>0, <1>1, <2>1 DEF Waiting, Claimed, Facts
<1>3. \A t \in 0 .. awaited - 1 : t \in 0 .. produceIndex - 1 /\ t < consumeClaimIndex
  BY <1>0 DEF AwaitInv, Facts
<1> QED
  BY <1>2, <1>3

\* A destroyed pool has answered every future, and has run what was claimed.
THEOREM DestroyCorrect ==
  ASSUME SafeRing
  PROVE  Spec => []DestroySettlesFutures
<1>1. PoolFutures => DestroySettlesFutures
  BY DestroyedSettled
<1> QED
  BY <1>1, PoolFuturesHolds, PTL

\* What an awaitTasks covered is ready once the pool is destroyed, although the
\* await itself may return before (AwaitLeavesNoneQueued).
THEOREM AwaitedCorrect ==
  ASSUME SafeRing
  PROVE  Spec => []AwaitedTasksSurviveDestroy
<1>1. PoolFutures => AwaitedTasksSurviveDestroy
  BY DestroyedSettled
<1> QED
  BY <1>1, PoolFuturesHolds, PTL

\* Only a task that throws takes the process down.
THEOREM AbortCorrect ==
  ASSUME SafeRing
  PROVE  Spec => []AbortsOnlyOnThrow
<1>1. PoolFutures => AbortsOnlyOnThrow
  BY DEF PoolFutures
<1> QED
  BY <1>1, PoolFuturesHolds, PTL

-----------------------------------------------------------------------------
(* The pool implements the service.                                         *)

\* Which futures a step can change, and how.
LEMMA FutureChanges ==
  ASSUME PoolFutures, [Next]_vars
  PROVE  \/ future' = future
         \/ /\ StartPush
            /\ produceIndex \in Item /\ future[produceIndex] = "none"
            /\ future' = [future EXCEPT ![produceIndex] = "pending"]
         \/ \E w \in Consumers :
               /\ RunTask(w)
               /\ citem[w] \in Item /\ citem[w] < consumeClaimIndex
               /\ future[citem[w]] = "pending" /\ client # "destroyed"
               /\ future' = [future EXCEPT ![citem[w]] = "ready"]
         \/ /\ FinishDestroy
            /\ \A t \in Item : consumeClaimIndex =< t /\ t < produceIndex
                                  => future[t] = "pending"
            /\ future' = [t \in Item |->
                            IF consumeClaimIndex =< t /\ t < produceIndex
                            THEN "broken" ELSE future[t]]
<1>0. Facts /\ Waiting /\ InHand
  BY FactsHold DEF PoolFutures
<1>1. ASSUME StartPush
      PROVE  /\ produceIndex \in Item /\ future[produceIndex] = "none"
             /\ future' = [future EXCEPT ![produceIndex] = "pending"]
  BY <1>0, <1>1 DEF StartPush, Facts, Waiting, Pushing
<1>2. ASSUME EnqueueWrite PROVE future' = future
  BY <1>2, WriteBreaksNothing
<1>3. ASSUME FinishDestroy
      PROVE  /\ \A t \in Item : consumeClaimIndex =< t /\ t < produceIndex
                                  => future[t] = "pending"
             /\ future' = [t \in Item |->
                             IF consumeClaimIndex =< t /\ t < produceIndex
                             THEN "broken" ELSE future[t]]
  BY <1>0, <1>3, DestroyBreaksQueued DEF FinishDestroy, Waiting
<1>4. ASSUME NEW w \in Consumers, RunTask(w)
      PROVE  /\ citem[w] \in Item /\ citem[w] < consumeClaimIndex
             /\ future[citem[w]] = "pending" /\ client # "destroyed"
             /\ future' = [future EXCEPT ![citem[w]] = "ready"]
  <2>1. w \in Handling /\ wpc[w] = "run"
    BY <1>4 DEF RunTask, Handling
  <2>2. citem[w] = cidx[w] /\ cidx[w] < consumeClaimIndex
    BY <1>0, <2>1 DEF InHand
  <2>3. client # "destroyed"
    BY <1>0, <2>1 DEF Facts, Control
  <2> QED
    BY <1>4, <2>2, <2>3 DEF RunTask
<1>5. ASSUME Client, ~StartPush, ~EnqueueWrite, ~FinishDestroy PROVE future' = future
  BY <1>5
  DEF Client, Push, EnqueueCheck, EnqueuePublish, EnqueueRelease, StartAwait,
      Await, AwaitEmpty, AwaitReturn, AwaitAgain, StartDestroy
<1>6. ASSUME NEW w \in Consumers, Worker(w), ~RunTask(w) PROVE future' = future
  BY <1>6
  DEF Worker, CheckAlive, Timeout, Dequeue, DequeueAcquire, DequeueClaim,
      DequeueMove, DequeueCommit, Run, CountStart, RunAborts, CountFinish
<1>7. ASSUME Stopped \/ UNCHANGED vars PROVE future' = future
  BY <1>7 DEF Stopped, vars
<1> QED
  BY <1>1, <1>2, <1>3, <1>4, <1>5, <1>6, <1>7 DEF Next

AnswersKept ==
  \A t \in Item : future[t] \in {"ready", "broken"} => future'[t] = future[t]

\* No step takes an answer back.
LEMMA AnswersStay ==
  ASSUME PoolFutures, [Next]_vars
  PROVE  AnswersKept
<1>1. Facts
  BY FactsHold
<1>2. ASSUME NEW u \in Item, future[u] \in {"none", "pending"},
             NEW x, future' = [future EXCEPT ![u] = x]
      PROVE  AnswersKept
  BY <1>1, <1>2 DEF Facts, AnswersKept
<1>3. ASSUME \A t \in Item : consumeClaimIndex =< t /\ t < produceIndex
                                => future[t] = "pending",
             future' = [t \in Item |-> IF consumeClaimIndex =< t /\ t < produceIndex
                                       THEN "broken" ELSE future[t]]
      PROVE  AnswersKept
  BY <1>3 DEF AnswersKept
<1>4. future' = future => AnswersKept
  BY DEF AnswersKept
<1> QED
  BY <1>2, <1>3, <1>4, FutureChanges

\* A future keeps its answer.
THEOREM SettlesOnceCorrect ==
  ASSUME SafeRing
  PROVE  Spec => FutureSettlesOnce
<1>1. PoolFutures /\ [Next]_vars => [AnswersKept]_vars
  BY AnswersStay
<1> QED
  BY <1>1, PoolFuturesHolds, PTL DEF Spec, FutureSettlesOnce, AnswersKept

Done   == {t \in Item : future[t] = "ready"}
Broken == {t \in Item : future[t] = "broken"}

LEMMA ServiceInit == Init => Service!Init
<1> SUFFICES ASSUME Init PROVE Service!Init
  OBVIOUS
<1>1. produceIndex = 0 /\ consumeClaimIndex = 0 /\ awaited = 0
  BY DEF Init, QueueInit
<1>2. Done = {} /\ Broken = {}
  BY DEF Init, Done, Broken
<1>3. (client = "destroyed") = FALSE
  BY DEF Init
<1> QED
  BY <1>1, <1>2, <1>3 DEF Service!Init, Done, Broken

LEMMA ServiceStep ==
  ASSUME PoolFutures, [Next]_vars
  PROVE  [Service!Next]_(Service!vars)
<1> USE DEF Service!vars
<1>0. Facts /\ Claimed
  BY FactsHold DEF PoolFutures
<1>s. Done \subseteq Item /\ Broken \subseteq Item
  BY DEF Done, Broken
<1>f. ASSUME UNCHANGED future PROVE UNCHANGED <<Done, Broken>>
  BY <1>f DEF Done, Broken
<1>1. CASE EnqueuePublish
  <2>1. /\ produceIndex' = produceIndex + 1 /\ produceIndex < MaxItems
        /\ UNCHANGED <<consumeClaimIndex, awaited, future, client>>
        /\ client # "destroyed"
    <3>1. ProducerRoom /\ ppc = "publish"
      BY <1>1 DEF EnqueuePublish, Publish, PoolFutures, RingInv, Placement,
                  ClaimsInv, Accounting
    <3> QED
      BY <1>0, <1>1, <3>1 DEF EnqueuePublish, Publish, Facts, Control, ProducerRoom
  <2> QED
    BY <1>f, <2>1 DEF Service!Next, Service!Submit, Done, Broken
<1>2. ASSUME NEW w \in Consumers, DequeueClaim(w) PROVE Service!Next
  <2>1. /\ cpc[w] = "claim" /\ consumeClaimIndex' = consumeClaimIndex + 1
        /\ UNCHANGED <<produceIndex, awaited, future, client>>
    BY <1>2 DEF DequeueClaim, Claim
  <2>2. consumeClaimIndex < produceIndex
    BY <2>1, ClaimHasItem DEF PoolFutures, RingInv, Placement, ClaimsInv
  <2>3. client # "destroyed"
    BY <1>0, <2>1 DEF Facts, Control
  <2> QED
    BY <1>f, <2>1, <2>2, <2>3 DEF Service!Next, Service!Take, Done, Broken
<1>3. CASE AwaitReturn
  <2>1. /\ IsEmpty /\ awaited' = produceIndex /\ client = "await_running" /\ client' = "idle"
        /\ UNCHANGED <<produceIndex, consumeClaimIndex, future>>
    BY <1>3 DEF AwaitReturn, PoolFutures, PoolInv, AwaitInv, queueVars, indices
  <2>2. consumeClaimIndex = produceIndex
    <3>1. Accounting /\ consumeCommitIndex \in Nat
      BY DEF PoolFutures, RingInv, Placement, ClaimsInv, Accounting, QueueTypeOK
    <3> QED
      BY <1>0, <2>1, <3>1, IndexOrder DEF Facts, IsEmpty
  <2> QED
    BY <1>f, <2>1, <2>2 DEF Service!Next, Service!AwaitReturn, Done, Broken
<1>4. CASE FinishDestroy
  <2>1. /\ client = "joining" /\ client' = "destroyed"
        /\ future' = [t \in Item |->
                        IF consumeClaimIndex =< t /\ t < produceIndex
                        THEN "broken" ELSE future[t]]
        /\ UNCHANGED <<produceIndex, consumeClaimIndex, awaited>>
    BY <1>4, DestroyBreaksQueued DEF FinishDestroy, queueVars, indices
  <2>2. Handling = {}
    BY <1>0, <1>4 DEF FinishDestroy, Handling, Facts, Control
  <2>3. \A t \in Item : /\ t < consumeClaimIndex => future[t] = "ready"
                        /\ consumeClaimIndex =< t /\ t < produceIndex => future[t] = "pending"
                        /\ t >= produceIndex => future[t] = "none"
    BY <1>0, <2>1, <2>2 DEF Claimed, Waiting, Pushing, PoolFutures
  <2>r. /\ 0 .. consumeClaimIndex - 1 = {t \in Item : t < consumeClaimIndex}
        /\ consumeClaimIndex .. produceIndex - 1
             = {t \in Item : consumeClaimIndex =< t /\ t < produceIndex}
    BY <1>0, MaxItemsAssumption DEF Facts, Item
  <2>4. Done = 0 .. consumeClaimIndex - 1
    <3>1. \A t \in Item : future[t] = "ready" <=> t < consumeClaimIndex
      BY <1>0, <2>3 DEF Facts
    <3> QED
      BY <2>r, <3>1 DEF Done
  <2>5. Done' = Done
    BY <1>0, <2>1, <2>3 DEF Done, Facts
  <2>6. Broken' = consumeClaimIndex .. produceIndex - 1
    <3>1. \A t \in Item : future'[t] = "broken"
                             <=> consumeClaimIndex =< t /\ t < produceIndex
      BY <1>0, <2>1, <2>3 DEF Facts
    <3> QED
      BY <2>r, <3>1 DEF Broken
  <2> QED
    BY <2>1, <2>4, <2>5, <2>6 DEF Service!Next, Service!Close, Done, Broken
<1>5. ASSUME NEW w \in Consumers, RunTask(w), NEW t \in Item,
             t < consumeClaimIndex, future[t] = "pending", client # "destroyed",
             future' = [future EXCEPT ![t] = "ready"]
      PROVE  Service!Next
  <2>1. UNCHANGED <<produceIndex, consumeClaimIndex, awaited, client>>
    BY <1>5 DEF RunTask, queueVars, indices
  <2>2. Done' = Done \cup {t} /\ t \notin Done /\ Broken' = Broken
    BY <1>0, <1>5 DEF Done, Broken, Facts
  <2>3. t \in 0 .. MaxItems - 1
    BY DEF Item
  <2> QED
    BY <1>5, <2>1, <2>2, <2>3 DEF Service!Next, Service!Finish, Done, Broken
<1>6. CASE StartPush
  <2>1. UNCHANGED <<produceIndex, consumeClaimIndex, awaited>>
        /\ client # "destroyed" /\ client' # "destroyed"
    BY <1>6 DEF StartPush, queueVars, indices
  <2>2. UNCHANGED <<Done, Broken>>
    BY <1>0, <1>6, FutureChanges DEF StartPush, Done, Broken, Facts, Waiting, Pushing, PoolFutures
  <2> QED
    BY <2>1, <2>2 DEF Done, Broken
<1>7. ASSUME UNCHANGED future,
             UNCHANGED <<produceIndex, consumeClaimIndex, awaited>>,
             (client = "destroyed") = (client' = "destroyed")
      PROVE  UNCHANGED (Service!vars)
  BY <1>f, <1>7 DEF Done, Broken
<1>8. ASSUME Client, ~EnqueuePublish, ~AwaitReturn, ~FinishDestroy, ~StartPush
      PROVE  /\ UNCHANGED future
             /\ UNCHANGED <<produceIndex, consumeClaimIndex, awaited>>
             /\ (client = "destroyed") = (client' = "destroyed")
  <2>1. ASSUME EnqueueCheck \/ EnqueueWrite \/ EnqueueRelease
        PROVE  /\ UNCHANGED <<future, produceIndex, consumeClaimIndex, awaited>>
               /\ client # "destroyed" /\ client' # "destroyed"
    BY <1>0, <2>1, WriteBreaksNothing
    DEF EnqueueCheck, EnqueueWrite, EnqueueRelease, CheckSpace, WriteSlot,
        Release, Facts, Control, queueVars, indices
  <2>2. ASSUME StartAwait \/ AwaitEmpty \/ AwaitAgain \/ StartDestroy
        PROVE  /\ UNCHANGED <<future, produceIndex, consumeClaimIndex, awaited>>
               /\ client # "destroyed" /\ client' # "destroyed"
    BY <2>2 DEF StartAwait, AwaitEmpty, AwaitAgain, StartDestroy, queueVars, indices
  <2> QED
    BY <1>8, <2>1, <2>2 DEF Client, Push, Await
<1>9. ASSUME NEW w \in Consumers, Worker(w), ~DequeueClaim(w), ~RunTask(w)
      PROVE  UNCHANGED <<future, produceIndex, consumeClaimIndex, awaited, client>>
  <2>1. CASE Dequeue(w)
    BY <1>9, <2>1
    DEF Dequeue, DequeueAcquire, DequeueMove, DequeueCommit, Acquire, MoveOut,
        Commit, indices
  <2>2. CASE CheckAlive(w) \/ Timeout(w) \/ Run(w)
    BY <1>9, <2>2
    DEF CheckAlive, Timeout, Run, CountStart, RunAborts, CountFinish, queueVars, indices
  <2> QED
    BY <1>9, <2>1, <2>2 DEF Worker
<1>10. ASSUME Stopped \/ UNCHANGED vars
       PROVE  UNCHANGED <<future, produceIndex, consumeClaimIndex, awaited, client>>
  BY <1>10 DEF Stopped, vars, queueVars, indices
<1>11. ASSUME NEW w \in Consumers, RunTask(w) PROVE Service!Next
  <2>1. /\ citem[w] \in Item /\ citem[w] < consumeClaimIndex
        /\ future[citem[w]] = "pending" /\ client # "destroyed"
        /\ future' = [future EXCEPT ![citem[w]] = "ready"]
    <3>1. w \in Handling /\ wpc[w] = "run" /\ citem[w] \in Item
      BY <1>11 DEF RunTask, Handling
    <3>2. citem[w] = cidx[w] /\ cidx[w] < consumeClaimIndex
      BY <3>1 DEF InHand, PoolFutures
    <3> QED
      BY <1>0, <1>11, <3>1, <3>2 DEF RunTask, Facts, Control
  <2> QED
    BY <1>5, <1>11, <2>1
<1>12. CASE Client
  <2> HIDE DEF Service!vars
  <2> QED
    BY <1>1, <1>3, <1>4, <1>6, <1>7, <1>8, <1>12
<1>13. ASSUME NEW w \in Consumers, Worker(w) PROVE [Service!Next]_(Service!vars)
  <2> HIDE DEF Service!vars
  <2> QED
    BY <1>2, <1>7, <1>9, <1>11, <1>13
<1>14. ASSUME Stopped \/ UNCHANGED vars PROVE UNCHANGED (Service!vars)
  <2> HIDE DEF Service!vars
  <2> QED
    BY <1>7, <1>10, <1>14
<1> HIDE DEF Service!vars
<1> QED
  BY <1>12, <1>13, <1>14 DEF Next

\* Over a SafeRing the pool implements the task service: tasks are taken in
\* the order of their pushes, each is run at most once and only when taken,
\* an await covers only taken tasks, and destruction breaks the others.
THEOREM ServiceCorrect ==
  ASSUME SafeRing
  PROVE  Spec => ServiceImplemented
<1>1. PoolFutures /\ [Next]_vars => [Service!Next]_(Service!vars)
  BY ServiceStep
<1> QED
  BY <1>1, ServiceInit, PoolFuturesHolds, PTL DEF Spec, ServiceImplemented, Service!Spec
=============================================================================
