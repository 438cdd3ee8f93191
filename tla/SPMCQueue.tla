------------------------------ MODULE SPMCQueue ------------------------------
(***************************************************************************)
(* The bounded single-producer, multi-consumer ring of                      *)
(* include/rmf/utils/threadpool.hpp (class SPMCQueue), one action per       *)
(* access to shared memory.  The item enqueued at position n is the number  *)
(* n, so that a slot, a local variable and an index can be compared.        *)
(*                                                                          *)
(* The atomics are interleaved sequentially: the release/acquire pairs of   *)
(* the code order what the model orders.  The two relaxed choices of the    *)
(* code, the producer's reload of its own index and the acquire-only        *)
(* increment of the claim index, concern a variable nobody else writes and  *)
(* a read-modify-write, so they add no outcome.                             *)
(***************************************************************************)
EXTENDS Naturals, FiniteSets

CONSTANTS
    Consumers,  \* the threads that dequeue
    Size,       \* number of slots of the ring (member size)
    MaxItems,   \* bound: how many items the producer ever enqueues
    Empty       \* a slot, or a local, that holds a moved-from value

ASSUME ConsumersAssumption == IsFiniteSet(Consumers)
ASSUME SizeAssumption      == Size \in Nat \ {0}
ASSUME MaxItemsAssumption  == MaxItems \in Nat
ASSUME EmptyAssumption     == Empty \notin Nat

VARIABLES
    data,               \* m_data
    produceIndex,       \* m_produceIndex
    consumeCommitIndex, \* m_consumeCommitIndex
    consumeClaimIndex,  \* m_consumeClaimIndex
    semaphore,          \* m_semaphore
    ppc,                \* where the producer is inside (try)enqueue
    cpc,                \* where each consumer is inside tryDequeue(For)
    cidx,               \* local consumeIndex of each consumer
    citem               \* local data of each consumer

indices   == <<produceIndex, consumeCommitIndex, consumeClaimIndex>>
queueVars == <<data, indices, semaphore, ppc, cpc, cidx, citem>>

Item == 0 .. MaxItems - 1
Slot == 0 .. Size - 1

SlotOf(i) == i % Size

QueueInit ==
    /\ data = [s \in Slot |-> Empty]
    /\ produceIndex = 0
    /\ consumeCommitIndex = 0
    /\ consumeClaimIndex = 0
    /\ semaphore = 0
    /\ ppc = "idle"
    /\ cpc = [c \in Consumers |-> "idle"]
    /\ cidx = [c \in Consumers |-> 0]
    /\ citem = [c \in Consumers |-> Empty]

-----------------------------------------------------------------------------
(* The producer.  A failed check leaves tryEnqueue with false, or goes round *)
(* enqueue's loop after a sleep: neither changes the state.                  *)

\* Faulty: the ring may be filled past its last slot.
HasSpaceOverfull == produceIndex - consumeCommitIndex =< Size

HasSpace == produceIndex - consumeCommitIndex < Size - 1

\* The check of tryEnqueue and of enqueue's loop that finds room.
CheckSpace ==
    /\ ppc = "idle"
    /\ produceIndex < MaxItems
    /\ HasSpace
    /\ ppc' = "write"
    /\ UNCHANGED <<data, indices, semaphore, cpc, cidx, citem>>

WriteSlot ==
    /\ ppc = "write"
    /\ data' = [data EXCEPT ![SlotOf(produceIndex)] = produceIndex]
    /\ ppc' = "publish"
    /\ UNCHANGED <<indices, semaphore, cpc, cidx, citem>>

Publish ==
    /\ ppc = "publish"
    /\ produceIndex' = produceIndex + 1
    /\ ppc' = "release"
    /\ UNCHANGED <<data, consumeCommitIndex, consumeClaimIndex, semaphore,
                   cpc, cidx, citem>>

\* Faulty: the item is published and nobody is told.
ReleaseForgotten ==
    /\ ppc = "release"
    /\ ppc' = "idle"
    /\ UNCHANGED <<data, indices, semaphore, cpc, cidx, citem>>

Release ==
    /\ ppc = "release"
    /\ semaphore' = semaphore + 1
    /\ ppc' = "idle"
    /\ UNCHANGED <<data, indices, cpc, cidx, citem>>

\* What empty() answers.
IsEmpty == produceIndex = consumeCommitIndex

-----------------------------------------------------------------------------
(* A consumer.  A failed or timed out acquire returns nullopt and changes   *)
(* nothing.                                                                 *)

\* Faulty: the result of try_acquire is not looked at.
AcquireUnchecked(c) ==
    /\ cpc[c] = "idle"
    /\ semaphore' = semaphore - 1
    /\ cpc' = [cpc EXCEPT ![c] = "claim"]
    /\ UNCHANGED <<data, indices, ppc, cidx, citem>>

Acquire(c) ==
    /\ cpc[c] = "idle"
    /\ semaphore > 0
    /\ semaphore' = semaphore - 1
    /\ cpc' = [cpc EXCEPT ![c] = "claim"]
    /\ UNCHANGED <<data, indices, ppc, cidx, citem>>

\* Faulty: the position is read from the commit index.
ClaimReadsCommit(c) ==
    /\ cpc[c] = "claim"
    /\ cidx' = [cidx EXCEPT ![c] = consumeCommitIndex]
    /\ consumeClaimIndex' = consumeClaimIndex + 1
    /\ cpc' = [cpc EXCEPT ![c] = "move"]
    /\ UNCHANGED <<data, produceIndex, consumeCommitIndex, semaphore, ppc, citem>>

\* Faulty: the position is committed as soon as it is claimed.
ClaimCommits(c) ==
    /\ cpc[c] = "claim"
    /\ cidx' = [cidx EXCEPT ![c] = consumeClaimIndex]
    /\ consumeClaimIndex' = consumeClaimIndex + 1
    /\ consumeCommitIndex' = consumeCommitIndex + 1
    /\ cpc' = [cpc EXCEPT ![c] = "move"]
    /\ UNCHANGED <<data, produceIndex, semaphore, ppc, citem>>

Claim(c) ==
    /\ cpc[c] = "claim"
    /\ cidx' = [cidx EXCEPT ![c] = consumeClaimIndex]
    /\ consumeClaimIndex' = consumeClaimIndex + 1
    /\ cpc' = [cpc EXCEPT ![c] = "move"]
    /\ UNCHANGED <<data, produceIndex, consumeCommitIndex, semaphore, ppc, citem>>

\* Faulty: the value is copied and stays in its slot.
MoveCopies(c) ==
    /\ cpc[c] = "move"
    /\ citem' = [citem EXCEPT ![c] = data[SlotOf(cidx[c])]]
    /\ cpc' = [cpc EXCEPT ![c] = "commit"]
    /\ UNCHANGED <<data, indices, semaphore, ppc, cidx>>

\* Moving the value out leaves the slot moved-from.
MoveOut(c) ==
    /\ cpc[c] = "move"
    /\ citem' = [citem EXCEPT ![c] = data[SlotOf(cidx[c])]]
    /\ data' = [data EXCEPT ![SlotOf(cidx[c])] = Empty]
    /\ cpc' = [cpc EXCEPT ![c] = "commit"]
    /\ UNCHANGED <<indices, semaphore, ppc, cidx>>

\* Faulty: the slot is never given back.
CommitForgotten(c) ==
    /\ cpc[c] = "commit"
    /\ cpc' = [cpc EXCEPT ![c] = "idle"]
    /\ UNCHANGED <<data, indices, semaphore, ppc, cidx, citem>>

Commit(c) ==
    /\ cpc[c] = "commit"
    /\ consumeCommitIndex' = consumeCommitIndex + 1
    /\ cpc' = [cpc EXCEPT ![c] = "idle"]
    /\ UNCHANGED <<data, produceIndex, consumeClaimIndex, semaphore, ppc,
                   cidx, citem>>

\* Every item the bound allows went through: the consumers only poll.
QueueDrained ==
    /\ consumeCommitIndex = MaxItems
    /\ ppc = "idle"
    /\ UNCHANGED queueVars

Producer    == CheckSpace \/ WriteSlot \/ Publish \/ Release
Consumer(c) == Acquire(c) \/ Claim(c) \/ MoveOut(c) \/ Commit(c)

QueueNext == Producer \/ (\E c \in Consumers : Consumer(c)) \/ QueueDrained

QueueSpec == QueueInit /\ [][QueueNext]_queueVars

-----------------------------------------------------------------------------
(* Properties.                                                              *)

QueueTypeOK ==
    /\ data \in [Slot -> Item \cup {Empty}]
    /\ produceIndex \in 0 .. MaxItems
    /\ consumeCommitIndex \in Nat
    /\ consumeClaimIndex \in Nat
    /\ semaphore \in Nat
    /\ ppc \in {"idle", "write", "publish", "release"}
    /\ cpc \in [Consumers -> {"idle", "claim", "move", "commit"}]
    /\ cidx \in [Consumers -> Nat]
    /\ citem \in [Consumers -> Item \cup {Empty}]

Claiming == {c \in Consumers : cpc[c] = "claim"}
InFlight == {c \in Consumers : cpc[c] \in {"move", "commit"}}

\* Items whose permit has reached the semaphore.
Released == IF ppc = "release" THEN produceIndex - 1 ELSE produceIndex

\* Every published item has exactly one permit, and the permit is in the
\* semaphore, in the hand of a thread about to claim, or spent on a claim.
\* A claim without a permit would read a slot nobody has filled.
PermitsMatchItems ==
    semaphore + Cardinality(Claiming) + consumeClaimIndex = Released

\* The commit index counts the claims that have been completed: the two
\* consumer indices differ by the number of threads between the two.
CommitCountsMoves ==
    consumeClaimIndex = consumeCommitIndex + Cardinality(InFlight)

\* At most size - 1 items are outstanding ("full is -1" in tryEnqueue), the
\* one being written included, so the counting semaphore stays under size.
CapacityRespected ==
    /\ consumeCommitIndex =< produceIndex
    /\ produceIndex - consumeCommitIndex =< Size - 1
    /\ semaphore =< Size - 1
    /\ ppc \in {"write", "publish"} => HasSpace

\* No two threads between claim and commit hold the same position.
ClaimsDistinct ==
    \A c, d \in InFlight : c # d => cidx[c] # cidx[d]

\* The producer never assigns a slot while a consumer moves out of it; both
\* accesses are plain, so an overlap would be a data race.
NoSlotRace ==
    \A c \in Consumers :
        ppc = "write" /\ cpc[c] = "move" => SlotOf(cidx[c]) # SlotOf(produceIndex)

\* A consumer that claimed position i moves out item i: never a later item
\* that wrapped round, never a moved-from slot.
DeliveredInPlace ==
    \A c \in Consumers : cpc[c] = "commit" => citem[c] = cidx[c]

\* An item that was published and not yet claimed is still in its slot.
UnclaimedIntact ==
    \A i \in Item :
        consumeClaimIndex =< i /\ i < produceIndex => data[SlotOf(i)] = i

\* What the comment on m_consumeCommitIndex says: it "represents the next
\* index that is guaranteed to be done", so no position below it is in flight.
CommitMeansDone ==
    \A c \in InFlight : cidx[c] >= consumeCommitIndex

\* The rings for which the commit index is as good as its comment: the indices
\* never wrap, or one thread consumes, or a single item is out at a time.
SafeRing ==
    \/ MaxItems =< Size
    \/ \A c, d \in Consumers : c = d
    \/ Size =< 2

\* A slot that is being refilled was emptied by the consumer of its previous
\* item: the producer never destroys an item (both enqueues assign over it).
NeverOverwrites ==
    [][\A s \in Slot : data[s] # Empty => data'[s] \in {data[s], Empty}]_queueVars
=============================================================================
