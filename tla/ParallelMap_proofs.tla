-------------------------- MODULE ParallelMap_proofs -------------------------
(***************************************************************************)
(* Theorems about ParallelMap, for every pool, every choice of arguments    *)
(* and every size of the piped data: the calls use the pool as ThreadPool   *)
(* specifies it, and what a call returns is the sequential result, on every *)
(* ring, also on those where tasks get lost.                                *)
(***************************************************************************)
EXTENDS ParallelMap, ThreadPool_proofs, SequenceTheorems

USE DEF Workers, MaxTasks, Task

\* Every step of a call or of the pool is a step of the pool, or leaves it
\* alone.
LEMMA MapStepIsPoolStep == [MapNext]_allVars => [Next]_vars
<1> SUFFICES ASSUME [MapNext]_allVars PROVE [Next]_vars
  OBVIOUS
<1>1. ASSUME Call PROVE [Next]_vars
  BY <1>1
  DEF Call, StartWith, StartPipe, StartPipeFaults, Begin, PushWork, Next, Client
<1>2. ASSUME Collect PROVE [Next]_vars
  BY <1>2
  DEF Collect, StartCollect, AwaitVoid, ReturnVoid, GetNext, GetThrows,
      ReturnResult, Next, Client, Await
<1>3. ASSUME DestroyPool PROVE [Next]_vars
  BY <1>3 DEF DestroyPool, Next, Client
<1>4. ASSUME PoolStep PROVE [Next]_vars
  BY <1>4 DEF PoolStep, Next, Client, Await
<1>5. ASSUME NEW w \in Workers, RunFaults(w) PROVE UNCHANGED vars
  BY <1>5 DEF RunFaults
<1>6. CASE MapStopped \/ UNCHANGED allVars
  BY <1>6 DEF MapStopped, allVars
<1> QED
  BY <1>1, <1>2, <1>3, <1>4, <1>5, <1>6 DEF MapNext

\* The calls use the pool as its own specification allows, so that every
\* theorem about the pool holds of a program that only makes such calls.
THEOREM PoolRespected == MapSpec => Spec
<1>1. MapInit => Init
  BY DEF MapInit
<1> QED
  BY <1>1, MapStepIsPoolStep, PTL DEF MapSpec, Spec

-----------------------------------------------------------------------------
(* Sequences of consecutive numbers.                                        *)

Upto(n) == [i \in 1 .. n |-> i]

\* Appending the next p numbers.
LEMMA UptoAppend ==
    ASSUME NEW m \in Nat, NEW p \in Nat
    PROVE  Upto(m) \o [k \in 1 .. p |-> m + k] = Upto(m + p)
<1> DEFINE s == Upto(m)
           t == [k \in 1 .. p |-> m + k]
<1>1. s \in Seq(Nat) /\ Len(s) = m
  BY IsASeq DEF Upto
<1>2. t \in Seq(Nat) /\ Len(t) = p
  BY IsASeq
<1>3. \A i \in 1 .. m : s[i] = i
  BY DEF Upto
<1>4. \A i \in 1 .. p : t[i] = m + i
  OBVIOUS
<1> HIDE DEF s, t
<1>5. /\ s \o t \in Seq(Nat)
      /\ Len(s \o t) = m + p
      /\ \A i \in 1 .. m + p :
            (s \o t)[i] = IF i =< m THEN s[i] ELSE t[i - m]
  BY <1>1, <1>2, ConcatProperties
<1>6. \A i \in 1 .. m + p : (s \o t)[i] = i
  BY <1>3, <1>4, <1>5
<1>7. Upto(m + p) \in Seq(Nat) /\ Len(Upto(m + p)) = m + p
  BY IsASeq DEF Upto
<1>8. \A i \in 1 .. m + p : Upto(m + p)[i] = i
  BY DEF Upto
<1> QED
  BY <1>5, <1>6, <1>7, <1>8, SeqEqual DEF s, t

\* The numbers up to n are a sequence.
LEMMA UptoType == ASSUME NEW n \in Nat PROVE Upto(n) \in Seq(Nat) /\ Len(Upto(n)) = n
  BY IsASeq DEF Upto

-----------------------------------------------------------------------------
(* Chunks.                                                                  *)

\* The chunks cover the data, and none begins past its end.
LEMMA Covering ==
    ASSUME NEW n \in Nat, NEW k \in Nat, k > 0
    PROVE  LET m == (n + k - 1) \div k
           IN  /\ m \in Nat
               /\ m * k >= n
               /\ \A c \in Nat : c < m => c * k < n
<1> DEFINE m == (n + k - 1) \div k
<1>1. m \in Nat
  OBVIOUS
<1>2. m * k =< n + k - 1 /\ n + k - 1 < (m + 1) * k
  OBVIOUS
<1>3. (m + 1) * k = m * k + k
  BY <1>1
<1>4. ASSUME NEW c \in Nat, c < m PROVE c * k < n
  <2>1. (c + 1) * k =< m * k
    BY <1>1, <1>4
  <2>2. (c + 1) * k = c * k + k
    OBVIOUS
  <2> QED
    BY <1>1, <1>2, <2>1, <2>2
<1> HIDE DEF m
<1>5. m * k >= n
  BY <1>1, <1>2, <1>3
<1> QED
  BY <1>1, <1>4, <1>5 DEF m
\* The size of a chunk is a number where there is a thread to divide by.
LEMMA ChunkSizeType ==
    ASSUME NEW n \in Nat, Workers # {} PROVE ChunkSize(n) \in Nat
<1>1. Cardinality(Workers) \in Nat /\ Cardinality(Workers) # 0
  BY ConsumersAssumption, FS_CardinalityType, FS_EmptySet
<1> QED
  BY <1>1 DEF ChunkSize

\* The number of chunks: they cover the data, and each begins inside it.
LEMMA ChunkCountCovers ==
    ASSUME NEW n \in Nat, Workers # {}, ChunkSize(n) > 0
    PROVE  /\ ChunkCount(n) \in Nat
           /\ ChunkCount(n) * ChunkSize(n) >= n
           /\ \A c \in Nat : c < ChunkCount(n) => c * ChunkSize(n) < n
<1> DEFINE k == ChunkSize(n)
<1>1. k \in Nat /\ k > 0
  BY ChunkSizeType
<1> HIDE DEF k
<1>2. /\ (n + k - 1) \div k \in Nat
      /\ ((n + k - 1) \div k) * k >= n
      /\ \A c \in Nat : c < (n + k - 1) \div k => c * k < n
  BY <1>1, Covering
<1> QED
  BY <1>2 DEF k, ChunkCount

\* A chunk continues where the ones before it end.
LEMMA ChunkContinues ==
    ASSUME NEW n \in Nat, Workers # {}, ChunkSize(n) > 0,
           NEW c \in Nat, c < ChunkCount(n)
    PROVE  /\ c * ChunkSize(n) \in Nat
           /\ c * ChunkSize(n) < n
           /\ \E p \in Nat :
                /\ ChunkOf(n, c) = [k \in 1 .. p |-> c * ChunkSize(n) + k]
                /\ c * ChunkSize(n) + p =
                     IF (c + 1) * ChunkSize(n) >= n THEN n ELSE (c + 1) * ChunkSize(n)
<1> DEFINE s     == ChunkSize(n)
           first == c * s
           end   == IF first + s < n THEN first + s ELSE n
<1>1. s \in Nat /\ s > 0
  BY ChunkSizeType
<1>2. first < n
  BY ChunkCountCovers
<1>3. ChunkOf(n, c) = [k \in 1 .. end - first |-> first + k]
  BY DEF ChunkOf
<1> HIDE DEF s
<1>4. first \in Nat /\ (c + 1) * s = first + s
  BY <1>1
<1> HIDE DEF first
<1>5. end - first \in Nat
  BY <1>1, <1>2, <1>4
<1>6. first + (end - first) = IF (c + 1) * s >= n THEN n ELSE (c + 1) * s
  BY <1>1, <1>2, <1>4
<1> HIDE DEF end
<1>7. \E p \in Nat : /\ ChunkOf(n, c) = [k \in 1 .. p |-> first + k]
                     /\ first + p = IF (c + 1) * s >= n THEN n ELSE (c + 1) * s
  BY <1>3, <1>5, <1>6
<1> QED
  BY <1>2, <1>4, <1>7 DEF first, s

\* How many calls are prepared is a number.
LEMMA PreparedType ==
    ASSUME NEW ls \in Arguments \cup {<<>>} PROVE Prepared(ls) \in Nat
<1>1. ls \in Seq(Nat)
  BY ArgumentsAssumption, EmptySeq
<1>2. CASE ls = <<>>
  BY <1>2 DEF Prepared
<1>3. CASE ls # <<>>
  <2>1. Len(ls) \in 1 .. Len(ls)
    BY <1>1, <1>3, EmptySeq
  <2>2. ls[Len(ls)] \in Nat
    BY <1>1, <2>1, ElementOfSeq
  <2> QED
    BY <2>2 DEF Prepared
<1> QED
  BY <1>2, <1>3

\* Where the vectors have one length, every call prepared reads its element.
LEMMA EqualReadsOwn ==
    ASSUME NEW ls \in Arguments \cup {<<>>}, EqualLengths(ls),
           NEW i \in Nat, i < Prepared(ls)
    PROVE  PreparedCall(ls, i + 1) = <<i + 1>>
<1>1. ls \in Seq(Nat)
  BY ArgumentsAssumption, EmptySeq
<1>2. ls # <<>> /\ Prepared(ls) = ls[Len(ls)]
  BY DEF Prepared
<1>3. Len(ls) \in DOMAIN ls
  BY <1>1, <1>2, EmptySeq
<1>4. \A k \in DOMAIN ls : ls[k] = Prepared(ls)
  BY <1>2, <1>3 DEF EqualLengths
<1>5. \A k \in DOMAIN ls : ~(ls[k] < i + 1)
  BY <1>4, PreparedType
<1> QED
  BY <1>5 DEF PreparedCall

-----------------------------------------------------------------------------
(* The inductive invariant.                                                 *)

\* How many tasks exist: the one being pushed counts until it is published.
Created == IF Pushing THEN produceIndex + 1 ELSE produceIndex

\* Where the call is in its pushing, and what it has pushed.
CallPushed ==
    /\ client = "push" => status \in {"pushing", "crashed"}
    /\ client \in {"joining", "destroyed"} => Free \/ status = "crashed"
    /\ client \in {"await_empty", "await_running"} =>
        kind = "with_void" /\ status \in {"collecting", "crashed"}
    /\ status \in {"pushing", "collecting"} => base =< Created /\ Created =< base + tasks
    /\ status = "collecting" => Created = base + tasks
    /\ status \in {"pushing", "collecting"} =>
        \A i \in 0 .. Created - base - 1 : work[base + i].elements = TaskElements(i)

\* How many tasks a call of its kind and size makes.
TasksFit ==
    status # "crashed" =>
        IF kind = "pipe"
        THEN Workers # {} /\ ChunkSize(size) > 0 /\ tasks = ChunkCount(size)
        ELSE size = Prepared(args) /\ tasks = Prepared(args)

\* How many elements the first c tasks cover.
Reached(c) ==
    IF kind = "pipe" /\ c * ChunkSize(size) >= size THEN size
    ELSE IF kind = "pipe" THEN c * ChunkSize(size) ELSE c

\* The result so far, and that a call returns only when it is complete.
SoFar ==
    /\ status # "crashed" /\ EqualLengths(args) => result = Upto(Reached(collected))
    /\ status = "returned" /\ kind # "with_void" => collected = tasks

MapInv == MapTypeOK /\ CallPushed /\ TasksFit /\ SoFar
-----------------------------------------------------------------------------
(* Every step preserves the invariant.                                      *)

\* The pool's own steps do not change where a call is.
LEMMA PoolKeepsCalls ==
    ASSUME PoolInv, PoolStep
    PROVE  /\ UNCHANGED mapVars
           /\ Created' = Created
           /\ client' = "push" => client = "push"
           /\ client' \in {"joining", "destroyed"} => client \in {"joining", "destroyed"}
           /\ client' \in {"await_empty", "await_running"} =>
                client \in {"await_empty", "await_running"}
<1>0. UNCHANGED mapVars
  BY DEF PoolStep
<1>1. ASSUME Push
      PROVE  /\ Created' = Created
             /\ client = "push" /\ client' \in {"push", "idle"}
  <2>1. produceIndex \in Nat /\ (ppc # "idle" => client = "push")
    BY MaxItemsAssumption DEF PoolInv, TypeOK, QueueTypeOK, Control
  <2> QED
    BY <1>1, <2>1
    DEF Push, EnqueueCheck, EnqueueWrite, EnqueuePublish, EnqueueRelease,
        CheckSpace, WriteSlot, Publish, Release, indices, Created, Pushing
<1>2. ASSUME AwaitEmpty \/ AwaitAgain
      PROVE  /\ Created' = Created
             /\ client \in {"await_empty", "await_running"}
             /\ client' \in {"await_empty", "await_running"}
  BY <1>2 DEF AwaitEmpty, AwaitAgain, queueVars, indices, Created, Pushing
<1>3. ASSUME FinishDestroy
      PROVE  Created' = Created /\ client = "joining" /\ client' = "destroyed"
  BY <1>3 DEF FinishDestroy, queueVars, indices, Created, Pushing
<1>4. ASSUME NEW w \in Workers, Worker(w) PROVE Created' = Created /\ client' = client
  BY <1>4
  DEF Worker, CheckAlive, Timeout, Dequeue, DequeueAcquire, DequeueClaim,
      DequeueMove, DequeueCommit, Acquire, Claim, MoveOut, Commit, Run,
      CountStart, RunTask, RunAborts, CountFinish, queueVars, indices, Created,
      Pushing
<1> QED
  BY <1>0, <1>1, <1>2, <1>3, <1>4 DEF PoolStep

\* What a task of the call handles is a sequence of elements.
LEMMA ElementsType ==
    ASSUME MapTypeOK, TasksFit, status # "crashed", NEW i \in Nat, i < tasks
    PROVE  TaskElements(i) \in Seq(Element)
<1>1. CASE kind = "pipe"
  <2>1. /\ size \in Nat /\ Workers # {} /\ ChunkSize(size) > 0
        /\ i < ChunkCount(size)
    BY <1>1 DEF MapTypeOK, TasksFit
  <2>2. i * ChunkSize(size) \in Nat
    BY <2>1, ChunkContinues
  <2>3. PICK p \in Nat : ChunkOf(size, i) = [k \in 1 .. p |-> i * ChunkSize(size) + k]
    BY <2>1, ChunkContinues
  <2> DEFINE first == i * ChunkSize(size)
  <2> HIDE DEF first
  <2>4. ASSUME first \in Nat PROVE [k \in 1 .. p |-> first + k] \in Seq(Element)
    <3>1. \A k \in 1 .. p : first + k \in Element
      BY <2>4 DEF Element
    <3> QED
      BY <3>1, IsASeq
  <2>5. ChunkOf(size, i) \in Seq(Element)
    BY <2>2, <2>3, <2>4 DEF first
  <2> QED
    BY <1>1, <2>5 DEF TaskElements
<1>2. CASE kind # "pipe"
  <2>1. PreparedCall(args, i + 1) \in {<<Outside>>, <<i + 1>>}
    BY DEF PreparedCall
  <2>2. Outside \in Element /\ i + 1 \in Element
    BY DEF Element
  <2>3. PreparedCall(args, i + 1) \in Seq(Element)
    BY <2>1, <2>2
  <2> QED
    BY <1>2, <2>3 DEF TaskElements
<1> QED
  BY <1>1, <1>2

\* The beginning of a call: how many tasks it makes.
LEMMA BeginFits ==
    ASSUME StartWith \/ StartPipe
    PROVE  \E k \in Kinds, ls \in Arguments \cup {<<>>}, n \in Nat, m \in Nat :
              /\ Begin(k, ls, n, m)
              /\ IF k = "pipe" THEN Workers # {} /\ ChunkSize(n) > 0 /\ m = ChunkCount(n)
                 ELSE n = Prepared(ls) /\ m = Prepared(ls)
<1>1. CASE StartWith
  <2>1. PICK ls \in Arguments, k \in {"with", "with_void"} :
            Begin(k, ls, Prepared(ls), Prepared(ls))
    BY <1>1 DEF StartWith
  <2>2. Prepared(ls) \in Nat
    BY PreparedType
  <2> QED
    BY <2>1, <2>2 DEF Kinds
<1>2. CASE StartPipe
  <2>1. PICK n \in DataSizes : ChunkSize(n) > 0 /\ Begin("pipe", <<>>, n, ChunkCount(n))
    BY <1>2 DEF StartPipe
  <2>2. n \in Nat /\ Workers # {}
    BY <1>2, DataSizesAssumption DEF StartPipe
  <2>3. ChunkCount(n) \in Nat
    BY <2>1, <2>2, ChunkCountCovers
  <2> QED
    BY <2>1, <2>2, <2>3 DEF Kinds
<1> QED
  BY <1>1, <1>2
\* The pushed tasks and the counts, as the steps of a call need them.
LEMMA MapFacts ==
    ASSUME MapInv, PoolInv
    PROVE  /\ produceIndex \in 0 .. MaxTasks /\ Created \in Nat
           /\ base \in 0 .. MaxTasks /\ tasks \in 0 .. MaxTasks /\ collected \in 0 .. tasks
           /\ client = "idle" => Created = produceIndex /\ ppc = "idle"
  BY MaxItemsAssumption
  DEF MapInv, MapTypeOK, PoolInv, TypeOK, QueueTypeOK, Control, Created, Pushing

\* The variables of a call keep their types.
LEMMA MapTypeStep == ASSUME MapInv, PoolInv, [MapNext]_allVars PROVE MapTypeOK'
<1>0. MapTypeOK
  BY DEF MapInv
<1>1. ASSUME StartWith \/ StartPipe PROVE MapTypeOK'
  <2>1. PICK k \in Kinds, ls \in Arguments \cup {<<>>}, n \in Nat, m \in Nat :
            Begin(k, ls, n, m)
    BY <1>1, BeginFits
  <2>2. produceIndex \in 0 .. MaxTasks /\ m \in 0 .. MaxTasks
    BY <2>1, MapFacts, MaxItemsAssumption DEF Begin
  <2>3. <<>> \in Seq(Element)
    BY EmptySeq
  <2> QED
    BY <1>0, <2>1, <2>2, <2>3 DEF Begin, MapTypeOK
<1>2. ASSUME StartPipeFaults PROVE MapTypeOK'
  BY <1>0, <1>2, DataSizesAssumption DEF StartPipeFaults, MapTypeOK, Kinds
<1>3. ASSUME PushWork PROVE MapTypeOK'
  <2>1. /\ status = "pushing" /\ client = "idle"
        /\ produceIndex < base + tasks /\ produceIndex < MaxTasks
    BY <1>3 DEF PushWork, StartPush
  <2>2. base =< produceIndex
    BY <2>1, MapFacts DEF MapInv, CallPushed
  <2>3. produceIndex - base \in Nat /\ produceIndex - base < tasks
    BY <2>1, <2>2, MapFacts
  <2>4. TaskElements(produceIndex - base) \in Seq(Element)
    BY <1>0, <2>1, <2>3, ElementsType DEF MapInv
  <2>5. work' \in [Task -> [kind : Kinds, elements : Seq(Element)]]
    BY <1>0, <1>3, <2>4 DEF PushWork, MapTypeOK
  <2> QED
    BY <1>0, <1>3, <2>5 DEF PushWork, MapTypeOK
<1>4. ASSUME StartCollect \/ AwaitVoid \/ ReturnVoid \/ GetThrows \/ ReturnResult
      PROVE  MapTypeOK'
  BY <1>0, <1>4
  DEF StartCollect, AwaitVoid, ReturnVoid, GetThrows, ReturnResult, MapTypeOK
<1>5. ASSUME GetNext PROVE MapTypeOK'
  <2>1. /\ status = "collecting" /\ collected < tasks
        /\ result' = result \o work[base + collected].elements
        /\ collected' = collected + 1
        /\ UNCHANGED <<status, kind, args, size, base, tasks, work>>
    BY <1>5 DEF GetNext
  <2>2. base + collected \in Task
    <3>1. Created =< MaxTasks
      BY <2>1, MapFacts DEF Created, Pushing, MapInv, CallPushed
    <3> QED
      BY <2>1, <3>1, MapFacts, MaxItemsAssumption DEF MapInv, CallPushed, Item
  <2>3. work[base + collected].elements \in Seq(Element)
    BY <1>0, <2>2 DEF MapTypeOK
  <2>4. result' \in Seq(Element)
    BY <1>0, <2>1, <2>3, ConcatProperties DEF MapTypeOK
  <2>5. collected' \in 0 .. tasks
    BY <2>1, MapFacts
  <2> QED
    BY <1>0, <2>1, <2>4, <2>5 DEF MapTypeOK
<1>6. ASSUME DestroyPool \/ PoolStep \/ MapStopped \/ UNCHANGED allVars PROVE MapTypeOK'
  <2>1. UNCHANGED mapVars
    BY <1>6 DEF DestroyPool, PoolStep, MapStopped, allVars
  <2> QED
    BY <1>0, <2>1 DEF mapVars, MapTypeOK
<1>7. ASSUME NEW w \in Workers, RunFaults(w) PROVE MapTypeOK'
  BY <1>0, <1>7 DEF RunFaults, MapTypeOK
<1> QED
  BY <1>1, <1>2, <1>3, <1>4, <1>5, <1>6, <1>7 DEF MapNext, Call, Collect

\* The tasks that were pushed are the call's own, in order.
LEMMA CallPushedStep == ASSUME MapInv, PoolInv, [MapNext]_allVars PROVE CallPushed'
<1>0. CallPushed
  BY DEF MapInv
<1>1. ASSUME StartWith \/ StartPipe PROVE CallPushed'
  <2>1. PICK k \in Kinds, ls \in Arguments \cup {<<>>}, n \in Nat, m \in Nat :
            Begin(k, ls, n, m)
    BY <1>1, BeginFits
  <2>2. /\ client' = "idle" /\ status' = "pushing"
        /\ produceIndex' = produceIndex /\ base' = produceIndex /\ tasks' = m
    BY <2>1 DEF Begin, vars, queueVars, indices
  <2>3. Created' = produceIndex
    BY <2>2 DEF Created, Pushing
  <2>4. produceIndex \in Nat
    BY MapFacts
  <2> QED
    BY <2>2, <2>3, <2>4 DEF CallPushed
<1>2. ASSUME StartPipeFaults PROVE CallPushed'
  BY <1>2 DEF StartPipeFaults, CallPushed, vars
<1>3. ASSUME PushWork PROVE CallPushed'
  <2>1. /\ status = "pushing" /\ client = "idle" /\ client' = "push"
        /\ produceIndex < base + tasks /\ produceIndex < MaxTasks
        /\ produceIndex' = produceIndex /\ ppc' = ppc
        /\ UNCHANGED <<status, kind, args, size, base, tasks>>
        /\ work' = [work EXCEPT ![produceIndex] =
                      [kind |-> kind, elements |-> TaskElements(produceIndex - base)]]
    BY <1>3 DEF PushWork, StartPush, queueVars, indices
  <2>2. Created = produceIndex /\ Created' = produceIndex + 1 /\ base =< produceIndex
    BY <1>0, <2>1, MapFacts DEF Created, Pushing, CallPushed
  <2>3. \A i : TaskElements(i)' = TaskElements(i)
    BY <2>1 DEF TaskElements
  <2>4. produceIndex \in DOMAIN work
    BY <2>1, MapFacts, MaxItemsAssumption DEF MapInv, MapTypeOK, Item
  <2>5. ASSUME NEW i \in 0 .. Created' - base - 1
        PROVE  work'[base + i].elements = TaskElements(i)
    <3>1. CASE base + i = produceIndex
      <4>1. i = produceIndex - base
        BY <3>1, MapFacts
      <4> QED
        BY <2>1, <2>4, <3>1, <4>1
    <3>2. CASE base + i # produceIndex
      <4>1. i \in 0 .. Created - base - 1
        BY <2>2, <3>2, MapFacts
      <4>2. work[base + i].elements = TaskElements(i)
        BY <1>0, <2>1, <4>1 DEF CallPushed
      <4>3. work'[base + i] = work[base + i]
        BY <2>1, <3>2 DEF MapInv, MapTypeOK
      <4> QED
        BY <4>2, <4>3
    <3> QED
      BY <3>1, <3>2
  <2>6. base' =< Created' /\ Created' =< base' + tasks'
    BY <2>1, <2>2, MapFacts
  <2>7. base' = base /\ client' = "push" /\ status' = "pushing"
    BY <2>1
  <2> QED
    BY <2>3, <2>5, <2>6, <2>7 DEF CallPushed
<1>4. ASSUME StartCollect \/ AwaitVoid
      PROVE  CallPushed'
  <2>1. /\ status = "pushing" /\ client = "idle" /\ produceIndex = base + tasks
        /\ client' \in {"idle", "await_empty"} /\ (client' = "await_empty" => kind = "with_void")
        /\ produceIndex' = produceIndex
        /\ status' = "collecting" /\ ppc' = ppc
        /\ UNCHANGED <<kind, args, size, base, tasks, work>>
    BY <1>4 DEF StartCollect, AwaitVoid, StartAwait, vars, queueVars, indices
  <2>2. Created = produceIndex /\ Created' = produceIndex
    BY <2>1, MapFacts DEF Created, Pushing
  <2>3. \A i : TaskElements(i)' = TaskElements(i)
    BY <2>1 DEF TaskElements
  <2>4. \A i \in 0 .. Created - base - 1 : work[base + i].elements = TaskElements(i)
    BY <1>0, <2>1 DEF CallPushed
  <2>5. base' =< Created' /\ Created' = base' + tasks'
    BY <2>1, <2>2, MapFacts
  <2> QED
    BY <2>1, <2>2, <2>3, <2>4, <2>5, MapFacts DEF CallPushed
<1>5. ASSUME ReturnVoid \/ GetThrows \/ ReturnResult PROVE CallPushed'
  <2>1. /\ status' \in {"returned", "threw"}
        /\ client' \in {"idle", "joining", "destroyed"}
    <3>1. CASE ReturnVoid
      BY <3>1 DEF ReturnVoid, AwaitReturn
    <3>2. CASE GetThrows \/ ReturnResult
      <4>1. client' = client /\ status = "collecting" /\ kind # "with_void"
        BY <3>2 DEF GetThrows, ReturnResult, vars
      <4>2. client \in {"idle", "push", "await_empty", "await_running", "joining", "destroyed"}
        BY DEF PoolInv, TypeOK
      <4> QED
        BY <1>0, <3>2, <4>1, <4>2 DEF CallPushed, GetThrows, ReturnResult
    <3> QED
      BY <1>5, <3>1, <3>2
  <2> QED
    BY <2>1 DEF CallPushed, Free
<1>6. ASSUME GetNext \/ MapStopped \/ UNCHANGED allVars PROVE CallPushed'
  <2>1. /\ Created' = Created /\ client' = client
        /\ UNCHANGED <<status, kind, args, size, base, tasks, work>>
    BY <1>6
    DEF GetNext, MapStopped, allVars, mapVars, vars, queueVars, indices, Created, Pushing
  <2>2. \A i : TaskElements(i)' = TaskElements(i)
    BY <2>1 DEF TaskElements
  <2> QED
    BY <1>0, <2>1, <2>2 DEF CallPushed, Free
<1>7. ASSUME DestroyPool PROVE CallPushed'
  <2>1. client' = "joining" /\ Free' /\ status' = status
    BY <1>7 DEF DestroyPool, StartDestroy, mapVars, Free
  <2> QED
    BY <2>1 DEF CallPushed, Free
<1>8. ASSUME PoolStep PROVE CallPushed'
  <2>1. /\ Created' = Created
        /\ client' = "push" => client = "push"
        /\ client' \in {"joining", "destroyed"} => client \in {"joining", "destroyed"}
        /\ client' \in {"await_empty", "await_running"} =>
             client \in {"await_empty", "await_running"}
        /\ UNCHANGED <<status, kind, args, size, base, tasks, work>>
    BY <1>8, PoolKeepsCalls DEF mapVars
  <2>2. \A i : TaskElements(i)' = TaskElements(i)
    BY <2>1 DEF TaskElements
  <2> QED
    BY <1>0, <2>1, <2>2 DEF CallPushed, Free
<1>9. ASSUME NEW w \in Workers, RunFaults(w) PROVE CallPushed'
  <2>1. status' = "crashed" /\ client' = client /\ kind' = kind
    BY <1>9 DEF RunFaults, vars
  <2> QED
    BY <1>0, <2>1 DEF CallPushed
<1> QED
  BY <1>1, <1>2, <1>3, <1>4, <1>5, <1>6, <1>7, <1>8, <1>9 DEF MapNext, Call, Collect

\* The number of tasks keeps fitting the call.
LEMMA TasksFitStep == ASSUME MapInv, PoolInv, [MapNext]_allVars PROVE TasksFit'
<1>0. TasksFit
  BY DEF MapInv
<1>1. ASSUME StartWith \/ StartPipe PROVE TasksFit'
  <2>1. PICK k \in Kinds, ls \in Arguments \cup {<<>>}, n \in Nat, m \in Nat :
            /\ Begin(k, ls, n, m)
            /\ IF k = "pipe" THEN Workers # {} /\ ChunkSize(n) > 0 /\ m = ChunkCount(n)
               ELSE n = Prepared(ls) /\ m = Prepared(ls)
    BY <1>1, BeginFits
  <2>2. kind' = k /\ args' = ls /\ size' = n /\ tasks' = m
    BY <2>1 DEF Begin
  <2> QED
    BY <2>1, <2>2 DEF TasksFit
<1>2. ASSUME StartPipeFaults \/ (\E w \in Workers : RunFaults(w)) PROVE TasksFit'
  BY <1>2 DEF StartPipeFaults, RunFaults, TasksFit
<1>3. CASE UNCHANGED <<kind, args, size, tasks>> /\ (status = "crashed" => status' = "crashed")
  BY <1>0, <1>3 DEF TasksFit
<1>4. ASSUME PushWork \/ (Collect /\ status # "crashed") \/ DestroyPool \/ PoolStep
             \/ MapStopped \/ UNCHANGED allVars
      PROVE  UNCHANGED <<kind, args, size, tasks>> /\ (status = "crashed" => status' = "crashed")
  BY <1>4
  DEF PushWork, Collect, StartCollect, AwaitVoid, ReturnVoid, GetNext, GetThrows,
      ReturnResult, DestroyPool, PoolStep, MapStopped, allVars, mapVars
<1> QED
  BY <1>1, <1>2, <1>3, <1>4 DEF MapNext, Call

\* Collecting the next future adds the elements of the next task.
LEMMA NextElements ==
    ASSUME MapInv, PoolInv, status = "collecting", collected < tasks, EqualLengths(args)
    PROVE  result \o work[base + collected].elements = Upto(Reached(collected + 1))
<1>1. result = Upto(Reached(collected)) /\ collected \in Nat
  BY MapFacts DEF MapInv, SoFar
<1>2. work[base + collected].elements = TaskElements(collected)
  <2>1. collected \in 0 .. Created - base - 1
    BY MapFacts DEF MapInv, CallPushed
  <2> QED
    BY <2>1 DEF MapInv, CallPushed
<1>3. CASE kind = "pipe"
  <2>1. /\ size \in Nat /\ Workers # {} /\ ChunkSize(size) > 0
        /\ collected < ChunkCount(size)
    BY <1>3 DEF MapInv, MapTypeOK, TasksFit
  <2> DEFINE first == collected * ChunkSize(size)
             last  == Reached(collected + 1)
  <2>2. first \in Nat /\ first < size
    BY <1>1, <2>1, ChunkContinues
  <2>3. PICK p \in Nat :
            /\ ChunkOf(size, collected) = [k \in 1 .. p |-> first + k]
            /\ first + p = last
    BY <1>1, <1>3, <2>1, ChunkContinues DEF Reached
  <2>4. Reached(collected) = first
    BY <1>3, <2>1, <2>2 DEF Reached
  <2> HIDE DEF first, last
  <2>5. Upto(first) \o [k \in 1 .. p |-> first + k] = Upto(first + p)
    BY <2>2, UptoAppend
  <2> QED
    BY <1>1, <1>2, <1>3, <2>3, <2>4, <2>5 DEF TaskElements, last
<1>4. CASE kind # "pipe"
  <2>1. args \in Arguments \cup {<<>>} /\ collected < Prepared(args)
    BY <1>4 DEF MapInv, MapTypeOK, TasksFit
  <2>2. TaskElements(collected) = <<collected + 1>>
    BY <1>1, <1>4, <2>1, EqualReadsOwn DEF TaskElements
  <2>3. <<collected + 1>> = [k \in 1 .. 1 |-> collected + k]
    OBVIOUS
  <2>4. Upto(collected) \o [k \in 1 .. 1 |-> collected + k] = Upto(collected + 1)
    BY <1>1, UptoAppend
  <2> QED
    BY <1>1, <1>2, <1>4, <2>2, <2>3, <2>4 DEF Reached
<1> QED
  BY <1>3, <1>4

\* What was collected stays the first part of the sequential result.
LEMMA SoFarStep == ASSUME MapInv, PoolInv, [MapNext]_allVars PROVE SoFar'
<1>0. SoFar
  BY DEF MapInv
<1>1. ASSUME StartWith \/ StartPipe PROVE SoFar'
  <2>1. PICK k \in Kinds, ls \in Arguments \cup {<<>>}, n \in Nat, m \in Nat :
            /\ Begin(k, ls, n, m)
            /\ k = "pipe" => Workers # {}
    BY <1>1, BeginFits
  <2>2. /\ kind' = k /\ size' = n /\ status' = "pushing"
        /\ collected' = 0 /\ result' = <<>>
    BY <2>1 DEF Begin
  <2>3. Reached(0)' = 0
    <3>1. CASE k = "pipe"
      <4>1. 0 * ChunkSize(n) = 0
        BY <2>1, <3>1, ChunkSizeType
      <4> QED
        BY <2>2, <3>1, <4>1 DEF Reached
    <3>2. CASE k # "pipe"
      BY <2>2, <3>2 DEF Reached
    <3> QED
      BY <3>1, <3>2
  <2>4. Upto(0) = <<>>
    BY UptoType, EmptySeq
  <2> QED
    BY <2>2, <2>3, <2>4 DEF SoFar, Reached
<1>2. ASSUME StartPipeFaults \/ (\E w \in Workers : RunFaults(w)) PROVE SoFar'
  BY <1>2 DEF StartPipeFaults, RunFaults, SoFar
<1>3. ASSUME status # "crashed",
             PushWork \/ StartCollect \/ AwaitVoid \/ ReturnVoid \/ GetThrows \/ ReturnResult
      PROVE  SoFar'
  <2>1. /\ UNCHANGED <<kind, args, size, tasks, collected, result>>
        /\ status # "crashed"
        /\ status' = "returned" /\ kind # "with_void" => collected = tasks
    <3>1. ASSUME ReturnVoid PROVE kind = "with_void"
      BY <3>1 DEF ReturnVoid, AwaitReturn, MapInv, CallPushed
    <3> QED
      BY <1>3, <3>1
      DEF PushWork, StartCollect, AwaitVoid, ReturnVoid, GetThrows, ReturnResult
  <2> QED
    BY <1>0, <2>1 DEF SoFar, Reached
<1>4. ASSUME GetNext PROVE SoFar'
  <2>1. /\ status = "collecting" /\ collected < tasks
        /\ result' = result \o work[base + collected].elements
        /\ collected' = collected + 1
        /\ UNCHANGED <<status, kind, args, size>>
    BY <1>4 DEF GetNext
  <2>2. EqualLengths(args) => result' = Upto(Reached(collected + 1))
    BY <2>1, NextElements
  <2> QED
    BY <2>1, <2>2 DEF SoFar, Reached
<1>5. ASSUME DestroyPool \/ PoolStep \/ MapStopped \/ UNCHANGED allVars PROVE SoFar'
  <2>1. UNCHANGED mapVars
    BY <1>5 DEF DestroyPool, PoolStep, MapStopped, allVars
  <2> QED
    BY <1>0, <2>1 DEF mapVars, SoFar, Reached
<1> QED
  BY <1>1, <1>2, <1>3, <1>4, <1>5 DEF MapNext, Call, Collect
-----------------------------------------------------------------------------
(* The theorems.                                                            *)

\* The invariant holds before the first call.
LEMMA MapInvInit == MapInit => MapInv
<1> SUFFICES ASSUME MapInit PROVE MapInv
  OBVIOUS
<1>1. /\ client = "idle" /\ status = "idle" /\ kind = "with" /\ args = <<>> /\ size = 0
      /\ base = 0 /\ tasks = 0 /\ collected = 0 /\ result = <<>>
      /\ work = [t \in Task |-> [kind |-> "with", elements |-> <<>>]]
  BY DEF MapInit, Init
<1>2. <<>> \in Seq(Element)
  BY EmptySeq
<1>3. MapTypeOK
  BY <1>1, <1>2, MaxItemsAssumption DEF MapTypeOK, Kinds
<1>4. CallPushed
  BY <1>1 DEF CallPushed
<1>5. TasksFit
  BY <1>1 DEF TasksFit, Prepared
<1>6. Upto(0) = <<>>
  BY UptoType, EmptySeq
<1>7. SoFar
  BY <1>1, <1>6 DEF SoFar, Reached
<1> QED
  BY <1>3, <1>4, <1>5, <1>7 DEF MapInv

\* The invariant holds of every program of such calls, on every ring.
THEOREM MapInvHolds == MapSpec => []MapInv
<1>1. MapInit => MapInv
  BY MapInvInit
<1>2. MapInv /\ PoolInv /\ [MapNext]_allVars => MapInv'
  BY MapTypeStep, CallPushedStep, TasksFitStep, SoFarStep DEF MapInv
<1>3. MapSpec => [](PoolInv /\ Accounting)
  BY PoolRespected, PoolInvHolds, PTL
<1>4. PoolInv /\ Accounting => PoolInv
  OBVIOUS
<1> QED
  BY <1>1, <1>2, <1>3, <1>4, PTL DEF MapSpec

\* The variables of a call keep their types: above all, no more futures are
\* got than tasks were made.
THEOREM MapTypeCorrect == MapSpec => []MapTypeOK
<1>1. MapInv => MapTypeOK
  BY DEF MapInv
<1> QED
  BY <1>1, MapInvHolds, PTL

\* A call of threaded or of a threaded pipe that returns gives the sequential
\* result: each element once, in order, whatever order the workers finish in
\* and whatever the size of the last chunk.
THEOREM ResultsCorrect == MapSpec => []ResultsMatchSequential
<1>1. ASSUME MapInv PROVE ResultsMatchSequential
  <2> SUFFICES ASSUME status = "returned", kind # "with_void", EqualLengths(args)
               PROVE  result = Upto(size)
    BY DEF ResultsMatchSequential, Upto
  <2>1. result = Upto(Reached(tasks))
    BY <1>1 DEF MapInv, SoFar
  <2>2. CASE kind = "pipe"
    <3>1. /\ size \in Nat /\ Workers # {} /\ ChunkSize(size) > 0
          /\ tasks = ChunkCount(size)
      BY <1>1, <2>2 DEF MapInv, MapTypeOK, TasksFit
    <3>2. tasks * ChunkSize(size) >= size
      BY <3>1, ChunkCountCovers
    <3> QED
      BY <2>1, <2>2, <3>2 DEF Reached
  <2>3. CASE kind # "pipe"
    BY <1>1, <2>1, <2>3 DEF MapInv, TasksFit, Reached
  <2> QED
    BY <2>2, <2>3
<1> QED
  BY <1>1, MapInvHolds, PTL

-----------------------------------------------------------------------------
(* What the tasks of a call refer to, on every ring.                        *)

\* A task that was not made yet refers to nothing, the tasks of the call under
\* way are of its kind, and none of a call whose vectors have one length reads
\* beyond their end.
OwnWork ==
    /\ base + tasks =< MaxTasks
    /\ \A t \in Task : t >= Created => work[t].elements = <<>>
    /\ status \in {"pushing", "collecting"} =>
        \A t \in Task : base =< t /\ t < Created => work[t].kind = kind
    /\ kind # "pipe" /\ EqualLengths(args) =>
        \A t \in base .. base + tasks - 1 : work[t].elements # <<Outside>>

\* Only PushWork makes a task.
LEMMA WorkKept ==
    ASSUME MapInv, PoolInv, [MapNext]_allVars, ~PushWork
    PROVE  Created' = Created /\ work' = work
<1>1. CASE StartWith \/ StartPipe \/ StartPipeFaults
  BY <1>1 DEF StartWith, StartPipe, StartPipeFaults, Begin, vars, queueVars,
              indices, Created, Pushing
<1>2. CASE StartCollect \/ GetNext \/ GetThrows \/ ReturnResult
  BY <1>2 DEF StartCollect, GetNext, GetThrows, ReturnResult, vars, queueVars,
              indices, Created, Pushing
<1>3. CASE AwaitVoid \/ ReturnVoid \/ DestroyPool
  BY <1>3 DEF AwaitVoid, StartAwait, ReturnVoid, AwaitReturn, DestroyPool,
              StartDestroy, mapVars, queueVars, indices, Created, Pushing
<1>4. CASE PoolStep
  BY <1>4, PoolKeepsCalls DEF mapVars
<1>5. CASE (\E w \in Workers : RunFaults(w)) \/ MapStopped \/ UNCHANGED allVars
  BY <1>5 DEF RunFaults, MapStopped, allVars, mapVars, vars, queueVars, indices,
              Created, Pushing
<1> QED
  BY <1>1, <1>2, <1>3, <1>4, <1>5 DEF MapNext, Call, Collect

LEMMA OwnWorkStep ==
    ASSUME MapInv, PoolInv, OwnWork, [MapNext]_allVars
    PROVE  OwnWork'
<1>1. CASE StartWith \/ StartPipe
  <2>1. PICK k \in Kinds, ls \in Arguments \cup {<<>>}, n \in Nat, m \in Nat :
            Begin(k, ls, n, m)
    BY <1>1, BeginFits
  <2>2. /\ client = "idle" /\ base' = produceIndex /\ tasks' = m
        /\ produceIndex + m =< MaxTasks
    BY <2>1 DEF Begin
  <2>3. Created = produceIndex /\ produceIndex \in Nat
    BY <2>2, MapFacts
  <2>4. Created' = Created /\ work' = work
    BY <1>1, WorkKept DEF PushWork, StartPush, StartWith, StartPipe, Begin, vars
  <2>5. ASSUME NEW t \in base' .. base' + tasks' - 1
        PROVE  work'[t].elements # <<Outside>>
    <3>1. t \in Task /\ t >= Created
      BY <2>2, <2>3, <2>5, MaxItemsAssumption DEF Item
    <3>2. <<>> # <<Outside>>
      OBVIOUS
    <3>3. work[t].elements = <<>>
      BY <3>1 DEF OwnWork
    <3> QED
      BY <2>4, <3>2, <3>3
  <2>6. \A t \in Task : ~(base' =< t /\ t < Created')
    BY <2>2, <2>3, <2>4, MaxItemsAssumption DEF Item
  <2> QED
    BY <2>2, <2>4, <2>5, <2>6 DEF OwnWork
<1>2. CASE PushWork
  <2>1. /\ status = "pushing" /\ client = "idle" /\ client' = "push"
        /\ produceIndex < base + tasks /\ produceIndex < MaxTasks
        /\ produceIndex' = produceIndex /\ ppc' = ppc
        /\ UNCHANGED <<status, kind, args, size, base, tasks>>
        /\ work' = [work EXCEPT ![produceIndex] =
                      [kind |-> kind, elements |-> TaskElements(produceIndex - base)]]
    BY <1>2 DEF PushWork, StartPush, queueVars, indices
  <2>2. Created = produceIndex /\ Created' = produceIndex + 1 /\ base =< produceIndex
    BY <2>1, MapFacts DEF Created, Pushing, MapInv, CallPushed
  <2>3. /\ produceIndex \in Task /\ DOMAIN work = Task /\ Task \subseteq Nat
        /\ work'[produceIndex] = [kind |-> kind,
                                  elements |-> TaskElements(produceIndex - base)]
        /\ \A t \in Task : t # produceIndex => work'[t] = work[t]
    BY <2>1, MapFacts, MaxItemsAssumption DEF MapInv, MapTypeOK, Item
  <2>4. \A t \in Task : t >= Created' => work'[t].elements = <<>>
    BY <2>2, <2>3 DEF OwnWork
  <2>5. \A t \in Task : base =< t /\ t < Created' => work'[t].kind = kind
    BY <2>1, <2>2, <2>3 DEF OwnWork
  <2>6. ASSUME kind # "pipe", EqualLengths(args), NEW t \in base .. base + tasks - 1
        PROVE  work'[t].elements # <<Outside>>
    <3>1. CASE t = produceIndex
      <4>1. /\ produceIndex - base \in Nat /\ produceIndex - base < Prepared(args)
            /\ args \in Arguments \cup {<<>>}
        BY <2>1, <2>2, <2>6, MapFacts DEF MapInv, MapTypeOK, TasksFit
      <4>2. TaskElements(produceIndex - base) = <<produceIndex - base + 1>>
        BY <2>6, <4>1, EqualReadsOwn DEF TaskElements
      <4>3. <<produceIndex - base + 1>> # <<Outside>>
        BY <4>1, OutsideAssumption
      <4> QED
        BY <2>3, <3>1, <4>2, <4>3
    <3>2. CASE t # produceIndex
      <4>1. t \in Task
        BY <2>6, MapFacts, MaxItemsAssumption DEF OwnWork, Item
      <4> QED
        BY <2>3, <2>6, <3>2, <4>1 DEF OwnWork
    <3> QED
      BY <3>1, <3>2
  <2> QED
    BY <2>1, <2>4, <2>5, <2>6 DEF OwnWork, EqualLengths
<1>3. CASE StartPipeFaults \/ (\E w \in Workers : RunFaults(w))
  <2>1. Created' = Created /\ work' = work
    BY <1>3, WorkKept DEF PushWork, StartPush, StartPipeFaults, RunFaults, vars
  <2>2. /\ base' = base /\ tasks' = tasks /\ args' = args /\ status' = "crashed"
        /\ kind' = "pipe" \/ kind' = kind
    BY <1>3 DEF StartPipeFaults, RunFaults
  <2> QED
    BY <2>1, <2>2 DEF OwnWork, EqualLengths
<1>4. CASE Collect
  <2>1. Created' = Created /\ work' = work
    BY <1>4, WorkKept DEF PushWork, StartPush, Collect, StartCollect, AwaitVoid,
       StartAwait, ReturnVoid, AwaitReturn, GetNext, GetThrows, ReturnResult, vars
  <2>2. /\ UNCHANGED <<kind, args, base, tasks>>
        /\ status' \in {"pushing", "collecting"} => status \in {"pushing", "collecting"}
    BY <1>4 DEF Collect, StartCollect, AwaitVoid, ReturnVoid, GetNext, GetThrows,
                ReturnResult
  <2> QED
    BY <2>1, <2>2 DEF OwnWork, EqualLengths
<1>5. CASE DestroyPool \/ PoolStep \/ MapStopped \/ UNCHANGED allVars
  <2>1. UNCHANGED mapVars
    BY <1>5 DEF DestroyPool, PoolStep, MapStopped, allVars
  <2>2. Created' = Created
    <3>1. CASE PoolStep
      BY <3>1, PoolKeepsCalls
    <3>2. CASE DestroyPool \/ MapStopped \/ UNCHANGED allVars
      BY <3>2 DEF DestroyPool, StartDestroy, MapStopped, allVars, vars, queueVars,
                  indices, Created, Pushing
    <3> QED
      BY <1>5, <3>1, <3>2
  <2> QED
    BY <2>1, <2>2 DEF OwnWork, EqualLengths, mapVars
<1> QED
  BY <1>1, <1>2, <1>3, <1>4, <1>5 DEF MapNext, Call

-----------------------------------------------------------------------------
(* What became of the tasks of a call, on a SafeRing.                       *)

\* The task is done, or it belongs to a void call that was awaited.
Answered(t) == future[t] = "ready" \/ (work[t].kind = "with_void" /\ t < awaited)

\* The tasks of the calls that are over.
Over == IF Free THEN produceIndex ELSE base

\* The tasks of earlier calls are answered, what was collected is ready, and no
\* call throws.
CallsAnswered ==
    /\ status # "threw"
    /\ client = "destroyed" => status # "crashed"
    /\ status = "pushing" => collected = 0
    /\ status # "crashed" =>
        /\ \A t \in Task : t < Over => Answered(t)
        /\ status = "collecting" /\ kind # "with_void" =>
            \A t \in Task : base =< t /\ t < base + collected => future[t] = "ready"

\* What was answered stays answered.
LEMMA AnsweredStays ==
    ASSUME MapInv, PoolInv, PoolFutures, [MapNext]_allVars
    PROVE  /\ \A t \in Task : t < Created /\ Answered(t) => Answered(t)'
           /\ \A t \in Task : future[t] = "ready" => future'[t] = "ready"
<1>1. \A t \in Task : future[t] = "ready" => future'[t] = "ready"
  BY MapStepIsPoolStep, AnswersStay DEF AnswersKept
<1>2. awaited' \in {awaited, produceIndex} /\ awaited =< produceIndex
  <2>1. awaited =< produceIndex
    BY FactsHold, MaxItemsAssumption DEF PoolInv, TypeOK, AwaitInv, Facts
  <2>2. ASSUME Client PROVE awaited' \in {awaited, produceIndex}
    BY <2>2
    DEF Client, StartPush, Push, EnqueueCheck, EnqueueWrite, EnqueuePublish,
        EnqueueRelease, StartAwait, Await, AwaitEmpty, AwaitReturn, AwaitAgain,
        StartDestroy, FinishDestroy
  <2>3. ASSUME NEW w \in Consumers, Worker(w) PROVE awaited' = awaited
    BY <2>3
    DEF Worker, CheckAlive, Timeout, Dequeue, DequeueAcquire, DequeueClaim,
        DequeueMove, DequeueCommit, Run, CountStart, RunTask, RunAborts, CountFinish
  <2>4. ASSUME Stopped \/ UNCHANGED vars PROVE awaited' = awaited
    BY <2>4 DEF Stopped, vars
  <2> QED
    BY <2>1, <2>2, <2>3, <2>4, MapStepIsPoolStep DEF Next
<1>3. \A t \in Task : t < Created => work'[t] = work[t]
  <2>1. CASE PushWork
    <3>1. /\ client = "idle" /\ produceIndex < MaxTasks
          /\ \E x : work' = [work EXCEPT ![produceIndex] = x]
      BY <2>1 DEF PushWork, StartPush
    <3>2. Created = produceIndex
      BY <3>1, MapFacts
    <3> QED
      BY <3>1, <3>2, MapFacts, MaxItemsAssumption DEF MapInv, MapTypeOK, Item
  <2>2. CASE ~PushWork
    BY <2>2, WorkKept
  <2> QED
    BY <2>1, <2>2
<1>4. Task \subseteq Nat /\ awaited \in Nat /\ produceIndex \in Nat
  BY MapFacts, MaxItemsAssumption DEF Item, PoolInv, TypeOK
<1>5. ASSUME NEW t \in Task, t < Created, Answered(t) PROVE Answered(t)'
  <2>1. t < awaited => t < awaited'
    BY <1>2, <1>4
  <2> QED
    BY <1>1, <1>3, <1>5, <2>1 DEF Answered
<1> QED
  BY <1>1, <1>5

\* In a pool that is not destroyed no future of a task that was pushed is broken.
LEMMA NothingBroken ==
    ASSUME PoolFutures, client # "destroyed", NEW t \in Task, t < produceIndex
    PROVE  future[t] \in {"pending", "ready"}
<1>1. t \in Nat /\ consumeClaimIndex \in Nat
  BY FactsHold DEF Facts
<1> QED
  BY <1>1 DEF PoolFutures, Waiting, Claimed

\* Who is answered is in no worker's hand.
LEMMA AnsweredNotInHand ==
    ASSUME PoolFutures, MapTypeOK, CallsAnswered, status # "crashed"
    PROVE  BorrowedDataAlive
<1> SUFFICES ASSUME NEW w \in Workers, wpc[w] \in {"start", "run"}, citem[w] \in Task,
                    work[citem[w]].kind # "with_void"
             PROVE  status \in {"pushing", "collecting", "crashed"} /\ citem[w] >= base
  BY DEF BorrowedDataAlive
<1>1. w \in Handling /\ citem[w] = cidx[w]
  BY DEF Handling, PoolFutures, InHand
<1>2. future[citem[w]] = "pending" /\ citem[w] < consumeClaimIndex
  BY <1>1 DEF PoolFutures, InHand
<1>3. citem[w] < produceIndex /\ citem[w] \in Nat
  BY <1>2, FactsHold DEF Facts
<1>4. ~Answered(citem[w])
  BY <1>2 DEF Answered
<1>5. ~(citem[w] < Over)
  BY <1>4 DEF CallsAnswered
<1>6. ~Free /\ ~(citem[w] < base)
  BY <1>3, <1>5 DEF Over
<1>7. base \in Nat
  BY MaxItemsAssumption DEF MapTypeOK
<1> QED
  BY <1>3, <1>6, <1>7 DEF Free, MapTypeOK

\* Every step keeps the earlier calls answered.
LEMMA CallsAnsweredStep ==
    ASSUME MapInv, PoolInv, PoolFutures, OwnWork, CallsAnswered, [MapNext]_allVars
    PROVE  CallsAnswered'
<1>0. /\ produceIndex \in 0 .. MaxTasks /\ Created \in Nat
      /\ base \in Nat /\ tasks \in Nat /\ collected \in 0 .. tasks
      /\ Task \subseteq Nat /\ produceIndex =< Created
  BY MapFacts, MaxItemsAssumption DEF Created, Item
<1>a. status # "crashed" => Over =< Created
  BY <1>0 DEF Over, Free, MapInv, MapTypeOK, CallPushed, CallsAnswered
<1>b. ASSUME status # "crashed", NEW t \in Task, t < Over PROVE Answered(t)'
  <2>1. t < Created /\ Answered(t)
    BY <1>0, <1>a, <1>b DEF CallsAnswered, Over
  <2> QED
    BY <2>1, AnsweredStays
<1>c. ASSUME status = "collecting", kind # "with_void",
             NEW t \in Task, base =< t, t < base + collected
      PROVE  future'[t] = "ready"
  BY <1>c, AnsweredStays DEF CallsAnswered
<1>1. CASE StartWith \/ StartPipe
  <2>1. PICK k \in Kinds, ls \in Arguments \cup {<<>>}, n \in Nat, m \in Nat :
            Begin(k, ls, n, m)
    BY <1>1, BeginFits
  <2>2. /\ Free /\ status' = "pushing" /\ base' = produceIndex /\ collected' = 0
        /\ client' = "idle" /\ status # "crashed"
    BY <2>1 DEF Begin, vars, Free
  <2>3. Over' = Over
    BY <2>2 DEF Over, Free
  <2> QED
    BY <1>b, <2>2, <2>3 DEF CallsAnswered
<1>2. CASE StartPipeFaults
  <2>1. client' = "idle" /\ status' = "crashed"
    BY <1>2 DEF StartPipeFaults, vars
  <2> QED
    BY <2>1 DEF CallsAnswered
<1>3. ASSUME NEW w \in Workers, RunFaults(w) PROVE CallsAnswered'
  <2>1. client' = client /\ status' = "crashed" /\ wpc[w] = "run"
    BY <1>3 DEF RunFaults, vars
  <2>2. client # "destroyed"
    BY <2>1 DEF PoolInv, Control
  <2> QED
    BY <2>1, <2>2 DEF CallsAnswered
<1>4. CASE PushWork
  <2>1. /\ status = "pushing" /\ client' = "push"
        /\ UNCHANGED <<status, base, collected>>
    BY <1>4 DEF PushWork, StartPush
  <2>2. Over' = Over
    BY <2>1 DEF Over, Free
  <2> QED
    BY <1>b, <2>1, <2>2 DEF CallsAnswered
<1>5. CASE StartCollect \/ AwaitVoid
  <2>1. /\ status = "pushing" /\ status' = "collecting"
        /\ client' \in {"idle", "await_empty"}
        /\ UNCHANGED <<base, collected>>
    BY <1>5 DEF StartCollect, AwaitVoid, StartAwait, vars
  <2>2. Over' = Over /\ collected' = 0
    BY <2>1 DEF Over, Free, CallsAnswered
  <2> QED
    BY <1>0, <1>b, <2>1, <2>2 DEF CallsAnswered
<1>6. CASE ReturnVoid
  <2>1. /\ client = "await_running" /\ client' = "idle"
        /\ status' = "returned" /\ awaited' = produceIndex
        /\ produceIndex' = produceIndex /\ work' = work
    BY <1>6 DEF ReturnVoid, AwaitReturn, queueVars, indices
  <2>2. /\ kind = "with_void" /\ status \in {"collecting", "crashed"}
        /\ Created = produceIndex
    BY <2>1 DEF MapInv, CallPushed, Created, Pushing
  <2>3. CASE status = "crashed"
    BY <2>3, <1>6 DEF MapNext, ReturnVoid, AwaitReturn, MapStopped, allVars, vars
  <2>4. CASE status = "collecting"
    <3>1. Over = base /\ Over' = produceIndex
      BY <2>1, <2>4 DEF Over, Free
    <3>2. ASSUME NEW t \in Task, t < produceIndex PROVE Answered(t)'
      <4>1. CASE t < base
        BY <1>b, <2>4, <3>1, <4>1
      <4>2. CASE base =< t
        <5>1. work[t].kind = "with_void"
          BY <2>2, <2>4, <3>2, <4>2 DEF OwnWork
        <5> QED
          BY <2>1, <3>2, <5>1 DEF Answered
      <4> QED
        BY <1>0, <4>1, <4>2
    <3> QED
      BY <2>1, <3>1, <3>2 DEF CallsAnswered
  <2> QED
    BY <2>2, <2>3, <2>4
<1>7. CASE GetNext
  <2>1. /\ status = "collecting" /\ kind # "with_void"
        /\ future[base + collected] = "ready" /\ collected' = collected + 1
        /\ UNCHANGED <<status, kind, base>> /\ client' = client
    BY <1>7 DEF GetNext, vars
  <2>2. Over' = Over
    BY <2>1 DEF Over, Free
  <2>3. ASSUME NEW t \in Task, base =< t, t < base + collected'
        PROVE  future'[t] = "ready"
    <3>1. CASE t < base + collected
      BY <1>c, <2>1, <2>3, <3>1
    <3>2. CASE t = base + collected
      BY <2>1, <3>2, AnsweredStays
    <3> QED
      BY <1>0, <2>1, <2>3, <3>1, <3>2
  <2> QED
    BY <1>b, <2>1, <2>2, <2>3 DEF CallsAnswered
<1>8. CASE GetThrows \/ ReturnResult
  <2>1. /\ status = "collecting" /\ kind # "with_void"
        /\ client' = client /\ produceIndex' = produceIndex
    BY <1>8 DEF GetThrows, ReturnResult, vars, queueVars, indices
  <2>2. client = "idle"
    BY <2>1 DEF PoolInv, TypeOK, MapInv, CallPushed, Free
  <2>3. produceIndex = base + tasks
    BY <2>1, <2>2, MapFacts DEF MapInv, CallPushed
  <2>4. CASE GetThrows
    <3>1. /\ collected < tasks /\ future[base + collected] = "broken"
      BY <2>4 DEF GetThrows
    <3>2. base + collected \in Task /\ base + collected < produceIndex
      BY <1>0, <2>3, <3>1, MaxItemsAssumption DEF Item
    <3> QED
      BY <2>2, <3>1, <3>2, NothingBroken
  <2>5. CASE ReturnResult
    <3>1. collected = tasks /\ status' = "returned"
      BY <2>5 DEF ReturnResult
    <3>2. Over = base /\ Over' = produceIndex
      BY <2>1, <3>1 DEF Over, Free
    <3>3. ASSUME NEW t \in Task, t < produceIndex PROVE Answered(t)'
      <4>1. CASE t < base
        BY <1>b, <2>1, <3>2, <4>1
      <4>2. CASE base =< t
        BY <1>c, <2>1, <2>3, <3>1, <3>3, <4>2 DEF Answered
      <4> QED
        BY <1>0, <4>1, <4>2
    <3> QED
      BY <2>1, <2>2, <3>1, <3>2, <3>3 DEF CallsAnswered
  <2> QED
    BY <1>8, <2>4, <2>5
<1>9. CASE DestroyPool \/ PoolStep
  <2>1. UNCHANGED mapVars
    BY <1>9 DEF DestroyPool, PoolStep
  <2>2. Free => produceIndex' = produceIndex
    <3>1. CASE DestroyPool
      BY <3>1 DEF DestroyPool, StartDestroy, queueVars, indices
    <3>2. CASE PoolStep
      <4>1. Free => client # "push"
        BY DEF MapInv, CallPushed, Free
      <4> QED
        BY <3>2, <4>1, PoolKeepsCalls DEF Created, Pushing
    <3> QED
      BY <1>9, <3>1, <3>2
  <2>3. Over' = Over
    BY <2>1, <2>2 DEF Over, Free, mapVars
  <2>4. client' = "destroyed" => status # "crashed"
    <3>1. client' = "destroyed" => client \in {"joining", "destroyed"}
      BY <1>9, PoolKeepsCalls DEF DestroyPool, StartDestroy
    <3>2. status = "crashed" => client' = client
      BY <1>9 DEF MapNext, MapStopped, allVars, vars, DestroyPool, StartDestroy, PoolStep
    <3> QED
      BY <3>1, <3>2 DEF CallsAnswered
  <2> QED
    BY <1>b, <1>c, <2>1, <2>3, <2>4 DEF CallsAnswered, mapVars
<1>10. CASE MapStopped \/ UNCHANGED allVars
  <2>1. UNCHANGED <<status, kind, base, collected, work, client, future, awaited>>
        /\ produceIndex' = produceIndex
    BY <1>10 DEF MapStopped, allVars, mapVars, vars, queueVars, indices
  <2>2. Over' = Over
    BY <2>1 DEF Over, Free
  <2> QED
    BY <1>b, <1>c, <2>1, <2>2 DEF CallsAnswered
<1> QED
  BY <1>1, <1>2, <1>3, <1>4, <1>5, <1>6, <1>7, <1>8, <1>9, <1>10
  DEF MapNext, Call, Collect

LEMMA OwnWorkInit == MapInit => OwnWork
<1> SUFFICES ASSUME MapInit PROVE OwnWork
  OBVIOUS
<1>1. /\ status = "idle" /\ args = <<>> /\ base = 0 /\ tasks = 0
      /\ work = [t \in Task |-> [kind |-> "with", elements |-> <<>>]]
  BY DEF MapInit
<1> QED
  BY <1>1, MaxItemsAssumption DEF OwnWork

\* What tasks refer to is accounted for on every ring.
THEOREM OwnWorkHolds == MapSpec => []OwnWork
<1>1. OwnWork /\ MapInv /\ PoolInv /\ [MapNext]_allVars => OwnWork'
  BY OwnWorkStep
<1>2. MapSpec => [](PoolInv /\ Accounting)
  BY PoolRespected, PoolInvHolds, PTL
<1>3. PoolInv /\ Accounting => PoolInv
  OBVIOUS
<1> QED
  BY OwnWorkInit, <1>1, <1>2, <1>3, MapInvHolds, PTL DEF MapSpec

\* The inductive invariant of the calls over a SafeRing.
CallsInv ==
    MapInv /\ OwnWork /\ PoolFutures /\ CallsAnswered /\ BorrowedDataAlive

LEMMA CallsInit == MapInit => CallsAnswered /\ BorrowedDataAlive
<1> SUFFICES ASSUME MapInit PROVE CallsAnswered /\ BorrowedDataAlive
  OBVIOUS
<1>1. /\ status = "idle" /\ client = "idle" /\ produceIndex = 0
      /\ wpc = [w \in Workers |-> "check"]
  BY DEF MapInit, Init, QueueInit
<1>2. Over = 0
  BY <1>1 DEF Over, Free
<1>3. CallsAnswered
  BY <1>1, <1>2, MaxItemsAssumption DEF CallsAnswered, Item
<1>4. BorrowedDataAlive
  BY <1>1 DEF BorrowedDataAlive
<1> QED
  BY <1>3, <1>4

\* A crash leaves the pool where it was, so that who had a task still has it.
LEMMA BorrowedDataStep ==
    ASSUME BorrowedDataAlive, [MapNext]_allVars, status' = "crashed"
    PROVE  BorrowedDataAlive'
<1>1. UNCHANGED <<wpc, citem, work, base>>
  BY DEF MapNext, Call, Collect, StartWith, StartPipe, StartPipeFaults, Begin, PushWork,
         StartCollect, AwaitVoid, ReturnVoid, GetNext, GetThrows, ReturnResult,
         DestroyPool, PoolStep, RunFaults, MapStopped, allVars, mapVars, vars, queueVars
<1> QED
  BY <1>1 DEF BorrowedDataAlive

\* On a SafeRing every call that is over is answered, and no task of it is left
\* that could read what its caller has freed.
THEOREM CallsInvHolds ==
    ASSUME SafeRing
    PROVE  MapSpec => []CallsInv
<1>1. MapSpec => []PoolFutures
  BY PoolRespected, PoolFuturesHolds, PTL
<1>2. MapSpec => [](PoolInv /\ Accounting)
  BY PoolRespected, PoolInvHolds, PTL
<1>3. CallsAnswered /\ MapInv /\ OwnWork /\ (PoolInv /\ Accounting) /\ PoolFutures
        /\ [MapNext]_allVars
      => CallsAnswered'
  BY CallsAnsweredStep
<1>4. MapSpec => []CallsAnswered
  BY <1>1, <1>2, <1>3, CallsInit, MapInvHolds, OwnWorkHolds, PTL DEF MapSpec
<1>5. PoolFutures /\ MapInv /\ CallsAnswered => (status = "crashed" \/ BorrowedDataAlive)
  BY AnsweredNotInHand DEF MapInv
<1>6. BorrowedDataAlive /\ (status = "crashed" \/ BorrowedDataAlive)' /\ [MapNext]_allVars
      => BorrowedDataAlive'
  BY BorrowedDataStep
<1>7. MapSpec => []BorrowedDataAlive
  BY <1>1, <1>4, <1>5, <1>6, CallsInit, MapInvHolds, PTL DEF MapSpec
<1>8. MapInv /\ OwnWork /\ PoolFutures /\ CallsAnswered /\ BorrowedDataAlive => CallsInv
  BY DEF CallsInv
<1> QED
  BY <1>1, <1>4, <1>7, <1>8, MapInvHolds, OwnWorkHolds, PTL

\* A task reads what the caller lent it only while the caller is in the call:
\* with, and the threaded stage of a pipe, return after their last task is done.
THEOREM BorrowedDataCorrect ==
    ASSUME SafeRing
    PROVE  MapSpec => []BorrowedDataAlive
<1>1. CallsInv => BorrowedDataAlive
  BY DEF CallsInv
<1> QED
  BY <1>1, CallsInvHolds, PTL

\* Destroying the pool after a call, a void one too, has run every task.
THEOREM VoidTasksCorrect ==
    ASSUME SafeRing
    PROVE  MapSpec => []VoidTasksRun
<1>1. ASSUME CallsInv PROVE VoidTasksRun
  <2> SUFFICES ASSUME client = "destroyed", NEW t \in 0 .. produceIndex - 1
               PROVE  future[t] = "ready"
    BY DEF VoidTasksRun
  <2>1. Free /\ status # "crashed"
    BY <1>1 DEF CallsInv, MapInv, CallPushed, CallsAnswered
  <2>2. t \in Task /\ t < produceIndex /\ awaited \in Nat /\ t \in Nat
    BY <1>1, FactsHold, MaxItemsAssumption DEF CallsInv, Facts, PoolFutures, PoolInv, TypeOK
  <2>3. Answered(t)
    BY <1>1, <2>1, <2>2 DEF CallsInv, CallsAnswered, Over
  <2>4. t < awaited => future[t] = "ready"
    BY <1>1, <2>2, DestroyedSettled DEF CallsInv, AwaitedTasksSurviveDestroy
  <2> QED
    BY <2>3, <2>4 DEF Answered
<1> QED
  BY <1>1, CallsInvHolds, PTL

\* No call of the library throws: the futures it gets are never broken.
THEOREM CallsNeverThrow ==
    ASSUME SafeRing
    PROVE  MapSpec => [](status # "threw")
<1>1. CallsInv => status # "threw"
  BY DEF CallsInv, CallsAnswered
<1> QED
  BY <1>1, CallsInvHolds, PTL

-----------------------------------------------------------------------------
(* Crashes.                                                                 *)

\* A pipe that crashes has no thread, or fewer elements than threads.
LEMMA SmallChunk ==
    ASSUME NEW n \in Nat, Workers # {}, ChunkSize(n) = 0
    PROVE  n < Cardinality(Workers)
<1>1. Cardinality(Workers) \in Nat /\ Cardinality(Workers) # 0
  BY ConsumersAssumption, FS_CardinalityType, FS_EmptySet
<1>2. n \div Cardinality(Workers) = 0
  BY DEF ChunkSize
<1>3. ASSUME NEW k \in Nat, k # 0, n \div k = 0 PROVE n < k
  BY <1>3
<1> QED
  BY <1>1, <1>2, <1>3

\* What a crash is due to.
CrashDue ==
    status = "crashed" =>
        \/ kind = "pipe" /\ (Workers = {} \/ size < Cardinality(Workers))
        \/ \E t \in Task : work[t].elements = <<Outside>>

LEMMA CrashDueStep == ASSUME CrashDue, [MapNext]_allVars PROVE CrashDue'
<1>1. CASE StartPipeFaults
  <2>1. PICK n \in DataSizes : (Workers = {} \/ ChunkSize(n) = 0) /\ size' = n
    BY <1>1 DEF StartPipeFaults
  <2>2. Workers # {} => n < Cardinality(Workers)
    BY <2>1, SmallChunk, DataSizesAssumption
  <2>3. kind' = "pipe"
    BY <1>1 DEF StartPipeFaults
  <2> QED
    BY <2>1, <2>2, <2>3 DEF CrashDue
<1>2. ASSUME NEW w \in Workers, RunFaults(w) PROVE CrashDue'
  <2>1. citem[w] \in Task /\ work[citem[w]].elements = <<Outside>> /\ work' = work
    BY <1>2 DEF RunFaults
  <2> QED
    BY <2>1 DEF CrashDue
<1>3. CASE UNCHANGED <<status, kind, size, work>>
  BY <1>3 DEF CrashDue
<1>4. CASE status' # "crashed"
  BY <1>4 DEF CrashDue
<1>5. ASSUME StartWith \/ StartPipe \/ PushWork \/ Collect, status # "crashed"
      PROVE  status' # "crashed"
  BY <1>5
  DEF StartWith, StartPipe, Begin, PushWork, Collect, StartCollect, AwaitVoid, ReturnVoid,
      GetNext, GetThrows, ReturnResult
<1>6. ASSUME DestroyPool \/ PoolStep \/ MapStopped \/ UNCHANGED allVars
      PROVE  UNCHANGED <<status, kind, size, work>>
  BY <1>6 DEF DestroyPool, PoolStep, MapStopped, allVars, mapVars
<1> QED
  BY <1>1, <1>2, <1>3, <1>4, <1>5, <1>6 DEF MapNext, Call

\* What takes the process down is an exception of a task, a pipe over a pool
\* without threads or with more threads than elements, or vectors of different
\* lengths; vectors of one length are never read beyond their end.
THEOREM CrashesCorrect ==
    ASSUME SafeRing
    PROVE  MapSpec => []CrashesOnlyOnBadSizes
<1>1. MapInit => CrashDue
  BY DEF MapInit, CrashDue
<1>2. CrashDue /\ [MapNext]_allVars => CrashDue'
  BY CrashDueStep
<1>3. CallsInv /\ CrashDue => CrashesOnlyOnBadSizes
  BY DEF CallsInv, PoolFutures, AbortsOnlyOnThrow, CrashDue, OwnWork, CrashesOnlyOnBadSizes
<1> QED
  BY <1>1, <1>2, <1>3, CallsInvHolds, PTL DEF MapSpec
=============================================================================
