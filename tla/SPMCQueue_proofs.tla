--------------------------- MODULE SPMCQueue_proofs --------------------------
(***************************************************************************)
(* Theorems about SPMCQueue, for every set of consumers, ring size and      *)
(* number of items.                                                         *)
(*                                                                          *)
(* The accounting of permits, claims and commits holds always.  That a      *)
(* claimed position delivers its own item holds for the rings of SafeRing;  *)
(* outside them TLC finds the counterexample (run pool_lost_task_violation).        *)
(***************************************************************************)
EXTENDS SPMCQueue, FiniteSetTheorems, TLAPS

-----------------------------------------------------------------------------
(* Arithmetic of the ring.                                                  *)

\* The slot computed from an index exists.
LEMMA SlotInRing == ASSUME NEW i \in Nat PROVE SlotOf(i) \in Slot
  BY SizeAssumption DEF SlotOf, Slot

\* Two indices less than one ring apart name different slots.
LEMMA SlotsDiffer ==
  ASSUME NEW i \in Nat, NEW j \in Nat, i < j, j < i + Size
  PROVE  SlotOf(i) # SlotOf(j)
<1>1. SUFFICES ASSUME i % Size = j % Size PROVE FALSE
  BY DEF SlotOf
<1> DEFINE a == i \div Size
           b == j \div Size
<1>2. /\ i = Size * a + (i % Size)
      /\ j = Size * b + (j % Size)
      /\ a \in Nat /\ b \in Nat /\ i % Size \in Nat
  BY SizeAssumption
<1> HIDE DEF a, b
<1>3. j - i = Size * b - Size * a
  BY <1>1, <1>2, SizeAssumption
<1>4. CASE b =< a
  <2>1. Size * b =< Size * a
    BY <1>2, <1>4, SizeAssumption
  <2> QED
    BY <1>2, <1>3, <2>1, SizeAssumption
<1>5. CASE b >= a + 1
  <2>1. Size * b >= Size * (a + 1)
    BY <1>2, <1>5, SizeAssumption
  <2>2. Size * (a + 1) = Size * a + Size
    BY <1>2, SizeAssumption
  <2> QED
    BY <1>2, <1>3, <2>1, <2>2, SizeAssumption
<1> QED
  BY <1>2, <1>4, <1>5

-----------------------------------------------------------------------------
(* Counting consumers.                                                      *)

\* A consumer that enters a group adds one to it, one that leaves takes one.
LEMMA CountOne ==
  ASSUME NEW S \in SUBSET Consumers, NEW c \in Consumers
  PROVE  /\ Cardinality(S) \in Nat
         /\ c \notin S => Cardinality(S \cup {c}) = Cardinality(S) + 1
         /\ c \in S => Cardinality(S \ {c}) = Cardinality(S) - 1
         /\ c \in S => Cardinality(S) >= 1
<1>1. IsFiniteSet(S) /\ Cardinality(S) \in Nat
  BY ConsumersAssumption, FS_Subset, FS_CardinalityType
<1>2. c \notin S => Cardinality(S \cup {c}) = Cardinality(S) + 1
  BY <1>1, FS_AddElement
<1>3. c \in S => Cardinality(S \ {c}) = Cardinality(S) - 1
  BY <1>1, FS_RemoveElement
<1>4. c \in S => Cardinality(S \ {c}) \in Nat
  BY <1>1, FS_Subset, ConsumersAssumption, FS_CardinalityType
<1> QED
  BY <1>1, <1>2, <1>3, <1>4

\* Both groups are finite.
LEMMA GroupsCounted ==
  /\ Cardinality(Claiming) \in Nat
  /\ Cardinality(InFlight) \in Nat
<1>1. Claiming \in SUBSET Consumers /\ InFlight \in SUBSET Consumers
  BY DEF Claiming, InFlight
<1> QED
  BY <1>1, ConsumersAssumption, FS_Subset, FS_CardinalityType

-----------------------------------------------------------------------------
(* The accounting invariant.                                                *)

\* What the producer knows between its check and its publication, and that a
\* permit it is about to release belongs to an item.
ProducerRoom ==
    /\ ppc \in {"write", "publish"} => produceIndex < MaxItems /\ HasSpace
    /\ ppc = "release" => produceIndex >= 1

Outstanding == produceIndex =< consumeCommitIndex + (Size - 1)

Accounting ==
    /\ QueueTypeOK
    /\ ProducerRoom
    /\ PermitsMatchItems
    /\ CommitCountsMoves
    /\ Outstanding

\* Consequences of the accounting that need no further step of the program.
LEMMA IndexOrder ==
  ASSUME Accounting
  PROVE  /\ consumeCommitIndex =< consumeClaimIndex
         /\ consumeClaimIndex =< Released
         /\ Released =< produceIndex
         /\ semaphore =< produceIndex - consumeCommitIndex
<1> USE DEF Accounting
<1>1. /\ produceIndex \in Nat /\ consumeCommitIndex \in Nat
      /\ consumeClaimIndex \in Nat /\ semaphore \in Nat
  BY MaxItemsAssumption DEF QueueTypeOK
<1>2. Released \in Nat /\ Released =< produceIndex
  BY <1>1 DEF Released, ProducerRoom
<1> QED
  BY <1>1, <1>2, GroupsCounted DEF PermitsMatchItems, CommitCountsMoves

LEMMA AccountingInit == QueueInit => Accounting
<1> SUFFICES ASSUME QueueInit PROVE Accounting
  OBVIOUS
<1>1. QueueTypeOK
  BY SizeAssumption, MaxItemsAssumption DEF QueueInit, QueueTypeOK
<1>2. Claiming = {} /\ InFlight = {}
  BY DEF QueueInit, Claiming, InFlight
<1>3. ProducerRoom /\ Outstanding
  BY SizeAssumption DEF QueueInit, ProducerRoom, Outstanding
<1>4. PermitsMatchItems /\ CommitCountsMoves
  BY <1>2, FS_EmptySet DEF QueueInit, PermitsMatchItems, CommitCountsMoves, Released
<1> QED
  BY <1>1, <1>3, <1>4 DEF Accounting

LEMMA TypeStep == ASSUME Accounting, [QueueNext]_queueVars PROVE QueueTypeOK'
<1> USE DEF QueueTypeOK, indices
<1>0. QueueTypeOK /\ ProducerRoom
  BY DEF Accounting
<1>1. CASE CheckSpace
  BY <1>0, <1>1 DEF CheckSpace
<1>2. CASE WriteSlot
  <2>1. produceIndex \in Item
    BY <1>0, <1>2, MaxItemsAssumption DEF WriteSlot, ProducerRoom, Item
  <2> QED
    BY <1>0, <1>2, <2>1 DEF WriteSlot
<1>3. CASE Publish
  BY <1>0, <1>3, MaxItemsAssumption DEF Publish, ProducerRoom
<1>4. CASE Release
  BY <1>0, <1>4 DEF Release
<1>5. ASSUME NEW c \in Consumers, Acquire(c) PROVE QueueTypeOK'
  BY <1>0, <1>5 DEF Acquire
<1>6. ASSUME NEW c \in Consumers, Claim(c) PROVE QueueTypeOK'
  BY <1>0, <1>6 DEF Claim
<1>7. ASSUME NEW c \in Consumers, MoveOut(c) PROVE QueueTypeOK'
  <2>1. SlotOf(cidx[c]) \in Slot
    BY <1>0, SlotInRing
  <2> QED
    BY <1>0, <1>7, <2>1 DEF MoveOut
<1>8. ASSUME NEW c \in Consumers, Commit(c) PROVE QueueTypeOK'
  BY <1>0, <1>8 DEF Commit
<1>9. CASE UNCHANGED queueVars
  BY <1>0, <1>9 DEF queueVars
<1> QED
  BY <1>1, <1>2, <1>3, <1>4, <1>5, <1>6, <1>7, <1>8, <1>9
  DEF QueueNext, Producer, Consumer, QueueDrained

LEMMA AccountingStep == ASSUME Accounting, [QueueNext]_queueVars PROVE Accounting'
<1>0. /\ QueueTypeOK /\ ProducerRoom /\ PermitsMatchItems /\ CommitCountsMoves
      /\ Outstanding
  BY DEF Accounting
<1>n. /\ produceIndex \in Nat /\ consumeCommitIndex \in Nat
      /\ consumeClaimIndex \in Nat /\ semaphore \in Nat
      /\ Cardinality(Claiming) \in Nat /\ Cardinality(InFlight) \in Nat
  BY <1>0, MaxItemsAssumption, GroupsCounted DEF QueueTypeOK
<1>s. Claiming \in SUBSET Consumers /\ InFlight \in SUBSET Consumers
  BY DEF Claiming, InFlight
<1> USE DEF ProducerRoom, Outstanding, PermitsMatchItems, CommitCountsMoves,
            Released, HasSpace, indices
<1>t. QueueTypeOK'
  BY TypeStep
<1>1. CASE CheckSpace
  <2>1. Claiming' = Claiming /\ InFlight' = InFlight
    BY <1>1 DEF CheckSpace, Claiming, InFlight
  <2> QED
    BY <1>0, <1>n, <1>1, <1>t, <2>1 DEF CheckSpace, Accounting
<1>2. CASE WriteSlot
  <2>1. Claiming' = Claiming /\ InFlight' = InFlight
    BY <1>2 DEF WriteSlot, Claiming, InFlight
  <2> QED
    BY <1>0, <1>n, <1>2, <1>t, <2>1 DEF WriteSlot, Accounting
<1>3. CASE Publish
  <2>1. Claiming' = Claiming /\ InFlight' = InFlight
    BY <1>3 DEF Publish, Claiming, InFlight
  <2> QED
    BY <1>0, <1>n, <1>3, <1>t, <2>1, SizeAssumption DEF Publish, Accounting
<1>4. CASE Release
  <2>1. Claiming' = Claiming /\ InFlight' = InFlight
    BY <1>4 DEF Release, Claiming, InFlight
  <2> QED
    BY <1>0, <1>n, <1>4, <1>t, <2>1 DEF Release, Accounting
<1>5. ASSUME NEW c \in Consumers, Acquire(c) PROVE Accounting'
  <2>1. Claiming' = Claiming \cup {c} /\ c \notin Claiming /\ InFlight' = InFlight
    BY <1>0, <1>5 DEF Acquire, Claiming, InFlight, QueueTypeOK
  <2>2. Cardinality(Claiming') = Cardinality(Claiming) + 1
    BY <1>s, <2>1, CountOne
  <2> QED
    BY <1>0, <1>n, <1>5, <1>t, <2>1, <2>2 DEF Acquire, Accounting
<1>6. ASSUME NEW c \in Consumers, Claim(c) PROVE Accounting'
  <2>1. /\ Claiming' = Claiming \ {c} /\ c \in Claiming
        /\ InFlight' = InFlight \cup {c} /\ c \notin InFlight
    BY <1>0, <1>6 DEF Claim, Claiming, InFlight, QueueTypeOK
  <2>2. /\ Cardinality(Claiming') = Cardinality(Claiming) - 1
        /\ Cardinality(InFlight') = Cardinality(InFlight) + 1
    BY <1>s, <2>1, CountOne
  <2> QED
    BY <1>0, <1>n, <1>6, <1>t, <2>2 DEF Claim, Accounting
<1>7. ASSUME NEW c \in Consumers, MoveOut(c) PROVE Accounting'
  <2>1. Claiming' = Claiming /\ InFlight' = InFlight
    BY <1>0, <1>7 DEF MoveOut, Claiming, InFlight, QueueTypeOK
  <2> QED
    BY <1>0, <1>n, <1>7, <1>t, <2>1 DEF MoveOut, Accounting
<1>8. ASSUME NEW c \in Consumers, Commit(c) PROVE Accounting'
  <2>1. /\ InFlight' = InFlight \ {c} /\ c \in InFlight
        /\ Claiming' = Claiming
    BY <1>0, <1>8 DEF Commit, Claiming, InFlight, QueueTypeOK
  <2>2. Cardinality(InFlight') = Cardinality(InFlight) - 1
    BY <1>s, <2>1, CountOne
  <2> QED
    BY <1>0, <1>n, <1>8, <1>t, <2>1, <2>2, SizeAssumption DEF Commit, Accounting
<1>9. CASE UNCHANGED queueVars
  <2>1. Claiming' = Claiming /\ InFlight' = InFlight
    BY <1>9 DEF queueVars, Claiming, InFlight
  <2> QED
    BY <1>0, <1>t, <1>9, <2>1 DEF queueVars, Accounting
<1> QED
  BY <1>1, <1>2, <1>3, <1>4, <1>5, <1>6, <1>7, <1>8, <1>9
  DEF QueueNext, Producer, Consumer, QueueDrained

\* The accounting invariant holds of every behaviour of the ring.
THEOREM AccountingHolds == QueueSpec => []Accounting
  BY AccountingInit, AccountingStep, PTL DEF QueueSpec

\* Every variable keeps its type: no index leaves the range the bound gives it
\* and no slot holds anything but an item or a moved-from value.
THEOREM TypeCorrect == QueueSpec => []QueueTypeOK
<1>1. Accounting => QueueTypeOK
  BY DEF Accounting
<1> QED
  BY <1>1, AccountingHolds, PTL

\* Permits are never lost and never invented: each published item has one.
THEOREM PermitsCorrect == QueueSpec => []PermitsMatchItems
<1>1. Accounting => PermitsMatchItems
  BY DEF Accounting
<1> QED
  BY <1>1, AccountingHolds, PTL

\* The commit index lags the claim index by the number of threads in flight.
THEOREM CommitsCorrect == QueueSpec => []CommitCountsMoves
<1>1. Accounting => CommitCountsMoves
  BY DEF Accounting
<1> QED
  BY <1>1, AccountingHolds, PTL

\* The ring never holds more than size - 1 items, nor the semaphore more
\* permits, and the producer's room does not shrink under it.
THEOREM CapacityCorrect == QueueSpec => []CapacityRespected
<1>1. Accounting => CapacityRespected
  <2> SUFFICES ASSUME Accounting PROVE CapacityRespected
    OBVIOUS
  <2>1. /\ produceIndex \in Nat /\ consumeCommitIndex \in Nat
        /\ consumeClaimIndex \in Nat /\ semaphore \in Nat /\ Released \in Int
    BY MaxItemsAssumption DEF Accounting, QueueTypeOK, Released
  <2> QED
    BY <2>1, IndexOrder, SizeAssumption
    DEF Accounting, Outstanding, ProducerRoom, CapacityRespected
<1> QED
  BY <1>1, AccountingHolds, PTL

-----------------------------------------------------------------------------
(* Placement: which item a claim delivers.                                  *)

\* A position in flight was claimed, by one thread.
Claims ==
    /\ \A c \in InFlight : cidx[c] < consumeClaimIndex
    /\ ClaimsDistinct

\* A lone consumer has committed everything before the position it holds.
LoneCommit == (\A c, d \in Consumers : c = d) => CommitMeansDone

\* The producer is less than a ring ahead of every position in flight: this is
\* what the capacity check is for, and what it achieves only in a SafeRing.
Window ==
    \A c \in InFlight :
        /\ produceIndex =< cidx[c] + Size
        /\ ppc \in {"write", "publish"} => produceIndex < cidx[c] + Size

\* Every published item that was not moved out is in its slot.
Placed ==
    /\ \A i \in Nat : consumeClaimIndex =< i /\ i < produceIndex => data[SlotOf(i)] = i
    /\ ppc = "publish" => data[SlotOf(produceIndex)] = produceIndex
    /\ \A c \in Consumers : cpc[c] = "move" => data[SlotOf(cidx[c])] = cidx[c]
    /\ DeliveredInPlace

\* The inductive invariant about claims, for every ring.
ClaimsInv == Accounting /\ Claims /\ LoneCommit

LEMMA ClaimsInit == QueueInit => Claims /\ LoneCommit
<1> SUFFICES ASSUME QueueInit PROVE Claims /\ LoneCommit
  OBVIOUS
<1>1. InFlight = {}
  BY DEF QueueInit, InFlight
<1> QED
  BY <1>1 DEF Claims, ClaimsDistinct, LoneCommit, CommitMeansDone

LEMMA ClaimsStep == ASSUME ClaimsInv, [QueueNext]_queueVars PROVE Claims' /\ LoneCommit'
<1>0. Accounting /\ Claims /\ LoneCommit /\ QueueTypeOK /\ CommitCountsMoves
  BY DEF ClaimsInv, Accounting
<1>n. /\ produceIndex \in Nat /\ consumeCommitIndex \in Nat
      /\ consumeClaimIndex \in Nat /\ cidx \in [Consumers -> Nat]
      /\ cpc \in [Consumers -> {"idle", "claim", "move", "commit"}]
      /\ consumeCommitIndex =< consumeClaimIndex
  BY <1>0, IndexOrder, MaxItemsAssumption DEF QueueTypeOK
<1> USE DEF Claims, ClaimsDistinct, LoneCommit, CommitMeansDone, InFlight, indices
<1>1. CASE UNCHANGED <<consumeCommitIndex, consumeClaimIndex, cpc, cidx>>
  BY <1>0, <1>1
<1>2. ASSUME NEW c \in Consumers, Acquire(c) PROVE Claims' /\ LoneCommit'
  BY <1>0, <1>n, <1>2 DEF Acquire
<1>3. ASSUME NEW c \in Consumers, Claim(c) PROVE Claims' /\ LoneCommit'
  BY <1>0, <1>n, <1>3 DEF Claim
<1>4. ASSUME NEW c \in Consumers, MoveOut(c) PROVE Claims' /\ LoneCommit'
  BY <1>0, <1>n, <1>4 DEF MoveOut
<1>5. ASSUME NEW c \in Consumers, Commit(c) PROVE Claims' /\ LoneCommit'
  BY <1>0, <1>n, <1>5 DEF Commit
<1> QED
  BY <1>1, <1>2, <1>3, <1>4, <1>5
  DEF QueueNext, Producer, CheckSpace, WriteSlot, Publish, Release, Consumer, QueueDrained, queueVars

\* Claims are distinct and below the claim index, in every ring.
THEOREM ClaimsHold == QueueSpec => []ClaimsInv
<1>1. QueueInit => ClaimsInv
  BY AccountingInit, ClaimsInit DEF ClaimsInv
<1>2. ClaimsInv /\ [QueueNext]_queueVars => ClaimsInv'
  BY AccountingStep, ClaimsStep DEF ClaimsInv
<1> QED
  BY <1>1, <1>2, PTL DEF QueueSpec

\* No two threads ever hold the same position.
THEOREM ClaimsDistinctCorrect == QueueSpec => []ClaimsDistinct
<1>1. ClaimsInv => ClaimsDistinct
  BY DEF ClaimsInv, Claims
<1> QED
  BY <1>1, ClaimsHold, PTL

\* With a single consumer the commit index is what its comment says.
THEOREM LoneCommitCorrect ==
  ASSUME \A c, d \in Consumers : c = d
  PROVE  QueueSpec => []CommitMeansDone
<1>1. ClaimsInv => CommitMeansDone
  BY DEF ClaimsInv, LoneCommit
<1> QED
  BY <1>1, ClaimsHold, PTL

\* In a SafeRing the check for room keeps the producer within the window.
LEMMA RoomIsWindow ==
  ASSUME SafeRing, ClaimsInv, HasSpace, produceIndex < MaxItems,
         NEW c \in InFlight
  PROVE  produceIndex < cidx[c] + Size
<1>0. QueueTypeOK /\ CommitCountsMoves /\ LoneCommit
  BY DEF ClaimsInv, Accounting
<1>n. /\ produceIndex \in Nat /\ consumeCommitIndex \in Nat
      /\ consumeClaimIndex \in Nat /\ cidx[c] \in Nat /\ c \in Consumers
  BY <1>0, MaxItemsAssumption DEF QueueTypeOK, InFlight
<1>1. CASE MaxItems =< Size
  BY <1>n, <1>1, MaxItemsAssumption, SizeAssumption
<1>2. CASE \A d, e \in Consumers : d = e
  BY <1>0, <1>n, <1>2, SizeAssumption DEF LoneCommit, CommitMeansDone, HasSpace
<1>3. CASE Size =< 2
  <2>1. produceIndex =< consumeCommitIndex
    BY <1>n, <1>3, SizeAssumption DEF HasSpace
  <2>2. consumeClaimIndex =< produceIndex
    <3>1. Released \in Int
      BY <1>n DEF Released
    <3> QED
      BY <1>n, <3>1, IndexOrder DEF ClaimsInv
  <2>3. consumeClaimIndex >= consumeCommitIndex + 1
    <3>1. InFlight \in SUBSET Consumers
      BY DEF InFlight
    <3>2. Cardinality(InFlight) \in Nat /\ Cardinality(InFlight) >= 1
      BY <1>n, <3>1, CountOne
    <3> QED
      BY <1>0, <1>n, <3>2 DEF CommitCountsMoves
  <2> QED
    BY <1>n, <2>1, <2>2, <2>3
<1> QED
  BY <1>1, <1>2, <1>3 DEF SafeRing

Placement == ClaimsInv /\ Window /\ Placed

LEMMA PlacementInit == QueueInit => Window /\ Placed
<1> SUFFICES ASSUME QueueInit PROVE Window /\ Placed
  OBVIOUS
<1>1. InFlight = {}
  BY DEF QueueInit, InFlight
<1> QED
  BY <1>1 DEF QueueInit, Window, Placed, DeliveredInPlace

LEMMA WindowStep == ASSUME SafeRing, Placement, [QueueNext]_queueVars PROVE Window'
<1>0. ClaimsInv /\ Window /\ QueueTypeOK /\ ProducerRoom /\ Outstanding
  BY DEF Placement, ClaimsInv, Accounting
<1>n. /\ produceIndex \in Nat /\ consumeCommitIndex \in Nat
      /\ consumeClaimIndex \in Nat /\ cidx \in [Consumers -> Nat]
      /\ cpc \in [Consumers -> {"idle", "claim", "move", "commit"}]
      /\ consumeCommitIndex =< consumeClaimIndex
  BY <1>0, IndexOrder, MaxItemsAssumption DEF QueueTypeOK, ClaimsInv
<1> USE DEF Window, indices
<1>1. CASE CheckSpace
  <2>1. InFlight' = InFlight /\ cidx' = cidx /\ produceIndex' = produceIndex
    BY <1>1 DEF CheckSpace, InFlight
  <2>2. \A c \in InFlight : produceIndex < cidx[c] + Size
    BY <1>0, <1>1, RoomIsWindow DEF CheckSpace
  <2> QED
    BY <1>0, <2>1, <2>2
<1>2. CASE WriteSlot
  <2>1. InFlight' = InFlight
    BY <1>2 DEF WriteSlot, InFlight
  <2> QED
    BY <1>0, <1>2, <2>1 DEF WriteSlot
<1>3. CASE Publish
  <2>1. InFlight' = InFlight /\ InFlight \subseteq Consumers
    BY <1>3 DEF Publish, InFlight
  <2> QED
    BY <1>0, <1>n, <1>3, <2>1, SizeAssumption DEF Publish
<1>4. CASE Release
  <2>1. InFlight' = InFlight
    BY <1>4 DEF Release, InFlight
  <2> QED
    BY <1>0, <1>4, <2>1 DEF Release
<1>5. ASSUME NEW c \in Consumers, Acquire(c) PROVE Window'
  <2>1. InFlight' = InFlight
    BY <1>n, <1>5 DEF Acquire, InFlight
  <2> QED
    BY <1>0, <1>5, <2>1 DEF Acquire
<1>6. ASSUME NEW c \in Consumers, Claim(c) PROVE Window'
  <2>1. InFlight' = InFlight \cup {c}
    BY <1>n, <1>6 DEF Claim, InFlight
  <2>2. cidx'[c] = consumeClaimIndex /\ \A d \in InFlight : d # c => cidx'[d] = cidx[d]
    BY <1>n, <1>6 DEF Claim, InFlight
  <2>3. c \notin InFlight
    BY <1>6 DEF Claim, InFlight
  <2>4. produceIndex' = produceIndex /\ ppc' = ppc
    BY <1>6 DEF Claim
  <2>5. produceIndex =< consumeClaimIndex + Size
    BY <1>0, <1>n, SizeAssumption DEF Outstanding
  <2>6. ppc \in {"write", "publish"} => produceIndex < consumeClaimIndex + Size
    BY <1>0, <1>n, SizeAssumption DEF ProducerRoom, HasSpace
  <2> QED
    BY <1>0, <2>1, <2>2, <2>3, <2>4, <2>5, <2>6
<1>7. ASSUME NEW c \in Consumers, MoveOut(c) PROVE Window'
  <2>1. InFlight' = InFlight
    BY <1>n, <1>7 DEF MoveOut, InFlight
  <2> QED
    BY <1>0, <1>7, <2>1 DEF MoveOut
<1>8. ASSUME NEW c \in Consumers, Commit(c) PROVE Window'
  <2>1. InFlight' \subseteq InFlight
    BY <1>n, <1>8 DEF Commit, InFlight
  <2> QED
    BY <1>0, <1>8, <2>1 DEF Commit
<1>9. CASE UNCHANGED queueVars
  BY <1>0, <1>9 DEF queueVars, InFlight
<1> QED
  BY <1>1, <1>2, <1>3, <1>4, <1>5, <1>6, <1>7, <1>8, <1>9
  DEF QueueNext, Producer, Consumer, QueueDrained

\* The slot of a position in flight is neither the one the producer is at, nor
\* that of an unclaimed item, nor that of another position in flight.
LEMMA SlotsApart ==
  ASSUME Placement, NEW c \in InFlight
  PROVE  /\ ppc \in {"write", "publish"} => SlotOf(cidx[c]) # SlotOf(produceIndex)
         /\ \A i \in Nat : consumeClaimIndex =< i /\ i < produceIndex
                => SlotOf(cidx[c]) # SlotOf(i)
         /\ \A d \in InFlight : d # c => SlotOf(cidx[c]) # SlotOf(cidx[d])
<1>0. Accounting /\ QueueTypeOK /\ Claims /\ Window
  BY DEF Placement, ClaimsInv, Accounting
<1>n. /\ produceIndex \in Nat /\ consumeClaimIndex \in Nat
      /\ \A d \in InFlight : cidx[d] \in Nat
  BY <1>0, MaxItemsAssumption DEF QueueTypeOK, InFlight
<1>1. consumeClaimIndex =< produceIndex
  <2>1. Released \in Int
    BY <1>n DEF Released
  <2> QED
    BY <1>0, <1>n, <2>1, IndexOrder
<1>2. \A d \in InFlight : cidx[d] < produceIndex /\ produceIndex =< cidx[d] + Size
  BY <1>0, <1>n, <1>1 DEF Claims, Window
<1>3. ppc \in {"write", "publish"} => SlotOf(cidx[c]) # SlotOf(produceIndex)
  BY <1>0, <1>n, <1>2, SlotsDiffer DEF Window
<1>4. ASSUME NEW i \in Nat, consumeClaimIndex =< i, i < produceIndex
      PROVE  SlotOf(cidx[c]) # SlotOf(i)
  <2>1. cidx[c] < i /\ i < cidx[c] + Size
    BY <1>0, <1>n, <1>2, <1>4, SizeAssumption DEF Claims
  <2> QED
    BY <1>n, <2>1, SlotsDiffer
<1>5. ASSUME NEW d \in InFlight, d # c
      PROVE  SlotOf(cidx[c]) # SlotOf(cidx[d])
  <2>1. cidx[c] # cidx[d]
    BY <1>0, <1>5 DEF Claims, ClaimsDistinct
  <2>2. cidx[d] < cidx[c] + Size /\ cidx[c] < cidx[d] + Size
    BY <1>n, <1>2, SizeAssumption
  <2>3. cidx[c] < cidx[d] \/ cidx[d] < cidx[c]
    BY <1>n, <2>1
  <2> QED
    BY <1>n, <2>2, <2>3, SlotsDiffer
<1> QED
  BY <1>3, <1>4, <1>5

\* A thread that claims, having a permit, claims a published position.
LEMMA ClaimHasItem ==
  ASSUME Accounting, NEW c \in Consumers, cpc[c] = "claim"
  PROVE  consumeClaimIndex < produceIndex
<1>1. c \in Claiming /\ Claiming \in SUBSET Consumers
  BY DEF Claiming
<1>2. Cardinality(Claiming) \in Nat /\ Cardinality(Claiming) >= 1
  BY <1>1, CountOne
<1>3. /\ semaphore \in Nat /\ consumeClaimIndex \in Nat /\ produceIndex \in Nat
      /\ PermitsMatchItems /\ ProducerRoom
  BY MaxItemsAssumption DEF Accounting, QueueTypeOK
<1>4. Released \in Nat /\ Released =< produceIndex
  BY <1>3 DEF Released, ProducerRoom
<1> QED
  BY <1>2, <1>3, <1>4 DEF PermitsMatchItems

LEMMA PlacedStep == ASSUME Placement, [QueueNext]_queueVars PROVE Placed'
<1>0. ClaimsInv /\ Placed /\ Accounting /\ QueueTypeOK /\ ProducerRoom
  BY DEF Placement, ClaimsInv, Accounting
<1>n. /\ produceIndex \in Nat /\ consumeCommitIndex \in Nat
      /\ consumeClaimIndex \in Nat /\ cidx \in [Consumers -> Nat]
      /\ cpc \in [Consumers -> {"idle", "claim", "move", "commit"}]
      /\ data \in [Slot -> Item \cup {Empty}]
      /\ citem \in [Consumers -> Item \cup {Empty}]
      /\ Released =< produceIndex /\ Released \in Nat
      /\ consumeClaimIndex =< produceIndex
      /\ consumeCommitIndex =< consumeClaimIndex
  <2>1. produceIndex \in Nat /\ consumeCommitIndex \in Nat /\ consumeClaimIndex \in Nat
    BY <1>0, MaxItemsAssumption DEF QueueTypeOK
  <2>2. Released \in Nat
    BY <1>0, <2>1 DEF Released, ProducerRoom
  <2> QED
    BY <1>0, <2>1, <2>2, IndexOrder DEF QueueTypeOK
<1> USE DEF Placed, DeliveredInPlace, indices
<1>1. CASE CheckSpace
  BY <1>0, <1>1 DEF CheckSpace
<1>2. CASE WriteSlot
  <2>1. /\ data' = [data EXCEPT ![SlotOf(produceIndex)] = produceIndex]
        /\ ppc = "write" /\ ppc' = "publish"
        /\ UNCHANGED <<produceIndex, consumeClaimIndex, cpc, cidx, citem>>
    BY <1>2 DEF WriteSlot
  <2>2. SlotOf(produceIndex) \in Slot
    BY <1>n, SlotInRing
  <2>3. data'[SlotOf(produceIndex)] = produceIndex
    BY <1>n, <2>1, <2>2
  <2>4. ASSUME NEW i \in Nat, consumeClaimIndex =< i, i < produceIndex
        PROVE  data'[SlotOf(i)] = i
    <3>1. produceIndex < i + Size
      BY <1>0, <1>n, <2>1, <2>4, SizeAssumption DEF ProducerRoom, HasSpace
    <3>2. SlotOf(i) # SlotOf(produceIndex)
      BY <1>n, <2>4, <3>1, SlotsDiffer
    <3> QED
      BY <1>0, <1>n, <2>1, <2>4, <3>2, SlotInRing
  <2>5. ASSUME NEW c \in Consumers, cpc[c] = "move"
        PROVE  data'[SlotOf(cidx[c])] = cidx[c]
    <3>1. SlotOf(cidx[c]) # SlotOf(produceIndex)
      BY <2>1, <2>5, SlotsApart DEF InFlight
    <3> QED
      BY <1>0, <1>n, <2>1, <2>5, <3>1, SlotInRing
  <2> QED
    BY <1>0, <2>1, <2>3, <2>4, <2>5
<1>3. CASE Publish
  BY <1>0, <1>n, <1>3 DEF Publish
<1>4. CASE Release
  BY <1>0, <1>4 DEF Release
<1>5. ASSUME NEW c \in Consumers, Acquire(c) PROVE Placed'
  BY <1>0, <1>n, <1>5 DEF Acquire
<1>6. ASSUME NEW c \in Consumers, Claim(c) PROVE Placed'
  <2>1. /\ cidx' = [cidx EXCEPT ![c] = consumeClaimIndex]
        /\ consumeClaimIndex' = consumeClaimIndex + 1
        /\ cpc' = [cpc EXCEPT ![c] = "move"] /\ cpc[c] = "claim"
        /\ UNCHANGED <<data, produceIndex, ppc, citem>>
    BY <1>6 DEF Claim
  <2>2. consumeClaimIndex < produceIndex
    BY <1>0, <2>1, ClaimHasItem
  <2>3. data[SlotOf(consumeClaimIndex)] = consumeClaimIndex
    BY <1>0, <1>n, <2>2
  <2>4. ASSUME NEW d \in Consumers, cpc'[d] = "move"
        PROVE  data'[SlotOf(cidx'[d])] = cidx'[d]
    BY <1>0, <1>n, <2>1, <2>3, <2>4
  <2> QED
    BY <1>0, <1>n, <2>1, <2>4
<1>7. ASSUME NEW c \in Consumers, MoveOut(c) PROVE Placed'
  <2>1. /\ cpc[c] = "move" /\ cpc' = [cpc EXCEPT ![c] = "commit"]
        /\ citem' = [citem EXCEPT ![c] = data[SlotOf(cidx[c])]]
        /\ data' = [data EXCEPT ![SlotOf(cidx[c])] = Empty]
        /\ UNCHANGED <<produceIndex, consumeClaimIndex, ppc, cidx>>
    BY <1>7 DEF MoveOut
  <2>2. c \in InFlight
    BY <2>1 DEF InFlight
  <2>3. ASSUME NEW i \in Nat, consumeClaimIndex =< i, i < produceIndex
        PROVE  data'[SlotOf(i)] = i
    BY <1>0, <1>n, <2>1, <2>2, <2>3, SlotsApart, SlotInRing
  <2>4. ppc = "publish" => data'[SlotOf(produceIndex)] = produceIndex
    BY <1>0, <1>n, <2>1, <2>2, SlotsApart, SlotInRing
  <2>5. ASSUME NEW d \in Consumers, cpc'[d] = "move"
        PROVE  data'[SlotOf(cidx'[d])] = cidx'[d]
    <3>1. cpc[d] = "move" /\ d # c /\ d \in InFlight
      BY <1>n, <2>1, <2>5 DEF InFlight
    <3> QED
      BY <1>0, <1>n, <2>1, <2>2, <3>1, SlotsApart, SlotInRing
  <2>6. DeliveredInPlace'
    BY <1>0, <1>n, <2>1
  <2> QED
    BY <2>1, <2>3, <2>4, <2>5, <2>6
<1>8. ASSUME NEW c \in Consumers, Commit(c) PROVE Placed'
  BY <1>0, <1>n, <1>8 DEF Commit
<1>9. CASE UNCHANGED queueVars
  BY <1>0, <1>9 DEF queueVars
<1> QED
  BY <1>1, <1>2, <1>3, <1>4, <1>5, <1>6, <1>7, <1>8, <1>9
  DEF QueueNext, Producer, Consumer, QueueDrained

\* The inductive invariant about placement holds in a SafeRing.
THEOREM PlacementHolds ==
  ASSUME SafeRing
  PROVE  QueueSpec => []Placement
<1>1. QueueInit => Placement
  BY AccountingInit, ClaimsInit, PlacementInit DEF Placement, ClaimsInv
<1>2. Placement /\ [QueueNext]_queueVars => Placement'
  BY AccountingStep, ClaimsStep, WindowStep, PlacedStep DEF Placement, ClaimsInv
<1> QED
  BY <1>1, <1>2, PTL DEF QueueSpec

\* In a SafeRing a claimed position delivers the item enqueued there.
THEOREM DeliveryCorrect ==
  ASSUME SafeRing
  PROVE  QueueSpec => []DeliveredInPlace
<1>1. Placement => DeliveredInPlace
  BY DEF Placement, Placed
<1> QED
  BY <1>1, PlacementHolds, PTL

\* In a SafeRing an item that nobody has claimed stays in its slot.
THEOREM UnclaimedCorrect ==
  ASSUME SafeRing
  PROVE  QueueSpec => []UnclaimedIntact
<1>1. Placement => UnclaimedIntact
  BY MaxItemsAssumption DEF Placement, Placed, UnclaimedIntact, Item
<1> QED
  BY <1>1, PlacementHolds, PTL

\* In a SafeRing the producer and a consumer never access one slot at once.
THEOREM NoRaceCorrect ==
  ASSUME SafeRing
  PROVE  QueueSpec => []NoSlotRace
<1>1. Placement => NoSlotRace
  BY SlotsApart DEF NoSlotRace, InFlight
<1> QED
  BY <1>1, PlacementHolds, PTL

-----------------------------------------------------------------------------
(* Contents: which items a slot can hold.                                   *)

\* A slot holds an item of its own, and the item is unclaimed, or just written
\* and not published, or claimed by a consumer that has not moved it out yet.
Contents ==
    \A s \in Slot : data[s] # Empty =>
        /\ SlotOf(data[s]) = s
        /\ \/ consumeClaimIndex =< data[s] /\ data[s] < produceIndex
           \/ ppc = "publish" /\ data[s] = produceIndex
           \/ \E c \in Consumers : cpc[c] = "move" /\ cidx[c] = data[s]

\* The inductive invariant of a SafeRing.
RingInv == Placement /\ Contents

\* The slot the producer is about to fill holds nothing.
LEMMA FreshSlot == ASSUME RingInv, ppc = "write" PROVE data[SlotOf(produceIndex)] = Empty
<1> SUFFICES ASSUME data[SlotOf(produceIndex)] # Empty PROVE FALSE
  OBVIOUS
<1> DEFINE i == data[SlotOf(produceIndex)]
<1>0. /\ Contents /\ QueueTypeOK /\ ProducerRoom
      /\ consumeCommitIndex =< consumeClaimIndex
  BY IndexOrder DEF RingInv, Placement, ClaimsInv, Accounting
<1>n. /\ produceIndex \in Nat /\ consumeCommitIndex \in Nat
      /\ consumeClaimIndex \in Nat /\ SlotOf(produceIndex) \in Slot
      /\ i \in Nat
  BY <1>0, SlotInRing, MaxItemsAssumption DEF QueueTypeOK, Item
<1>1. SlotOf(i) = SlotOf(produceIndex)
  BY <1>0, <1>n DEF Contents
<1>2. \/ consumeClaimIndex =< i /\ i < produceIndex
      \/ \E c \in Consumers : cpc[c] = "move" /\ cidx[c] = i
  BY <1>0, <1>n DEF Contents
<1> HIDE DEF i
<1>3. CASE consumeClaimIndex =< i /\ i < produceIndex
  <2>1. produceIndex < i + Size
    BY <1>0, <1>n, <1>3, SizeAssumption DEF ProducerRoom, HasSpace
  <2> QED
    BY <1>n, <1>1, <1>3, <2>1, SlotsDiffer
<1>4. ASSUME NEW c \in Consumers, cpc[c] = "move", cidx[c] = i PROVE FALSE
  BY <1>1, <1>4, SlotsApart DEF RingInv, InFlight
<1> QED
  BY <1>2, <1>3, <1>4

LEMMA ContentsStep == ASSUME RingInv, [QueueNext]_queueVars PROVE Contents'
<1>0. Contents /\ Placed /\ QueueTypeOK /\ consumeClaimIndex =< produceIndex
  <2>1. Accounting /\ QueueTypeOK
    BY DEF RingInv, Placement, ClaimsInv, Accounting
  <2>2. produceIndex \in Nat /\ consumeClaimIndex \in Nat
    BY <2>1, MaxItemsAssumption DEF QueueTypeOK
  <2>3. Released \in Int
    BY <2>2 DEF Released
  <2> QED
    BY <2>1, <2>2, <2>3, IndexOrder DEF RingInv, Placement
<1>n. /\ produceIndex \in Nat /\ consumeClaimIndex \in Nat
      /\ cidx \in [Consumers -> Nat]
      /\ cpc \in [Consumers -> {"idle", "claim", "move", "commit"}]
      /\ data \in [Slot -> Item \cup {Empty}] /\ Item \subseteq Nat
  BY <1>0, MaxItemsAssumption DEF QueueTypeOK, Item
<1> USE DEF Contents, indices
<1>1. CASE CheckSpace
  BY <1>0, <1>1 DEF CheckSpace
<1>2. CASE WriteSlot
  <2>1. /\ data' = [data EXCEPT ![SlotOf(produceIndex)] = produceIndex]
        /\ ppc = "write" /\ ppc' = "publish"
        /\ UNCHANGED <<produceIndex, consumeClaimIndex, cpc, cidx>>
    BY <1>2 DEF WriteSlot
  <2> SUFFICES ASSUME NEW s \in Slot, data'[s] # Empty
               PROVE  /\ SlotOf(data'[s]) = s
                      /\ \/ consumeClaimIndex =< data'[s] /\ data'[s] < produceIndex
                         \/ data'[s] = produceIndex
                         \/ \E c \in Consumers : cpc[c] = "move" /\ cidx[c] = data'[s]
    BY <2>1 DEF SlotOf
  <2>2. CASE s = SlotOf(produceIndex)
    BY <1>n, <2>1, <2>2
  <2>3. CASE s # SlotOf(produceIndex)
    BY <1>0, <1>n, <2>1, <2>3
  <2> QED
    BY <2>2, <2>3
<1>3. CASE Publish
  <2>1. /\ ppc = "publish" /\ produceIndex' = produceIndex + 1
        /\ UNCHANGED <<data, consumeClaimIndex, cpc, cidx>>
    BY <1>3 DEF Publish
  <2> SUFFICES ASSUME NEW s \in Slot, data[s] # Empty
               PROVE  /\ SlotOf(data[s]) = s
                      /\ \/ consumeClaimIndex =< data[s] /\ data[s] < produceIndex + 1
                         \/ \E c \in Consumers : cpc[c] = "move" /\ cidx[c] = data[s]
    BY <2>1 DEF SlotOf
  <2>2. data[s] \in Nat
    BY <1>n
  <2> QED
    BY <1>0, <1>n, <2>2
<1>4. CASE Release
  BY <1>0, <1>4 DEF Release
<1>5. ASSUME NEW c \in Consumers, Acquire(c) PROVE Contents'
  <2>1. UNCHANGED <<data, produceIndex, consumeClaimIndex, ppc, cidx>>
    BY <1>5 DEF Acquire
  <2>2. \A d \in Consumers : cpc[d] = "move" => cpc'[d] = "move"
    BY <1>n, <1>5 DEF Acquire
  <2> QED
    BY <1>0, <2>1, <2>2 DEF SlotOf
<1>6. ASSUME NEW c \in Consumers, Claim(c) PROVE Contents'
  <2>1. /\ UNCHANGED <<data, produceIndex, ppc>>
        /\ consumeClaimIndex' = consumeClaimIndex + 1
        /\ cpc'[c] = "move" /\ cidx'[c] = consumeClaimIndex
    BY <1>n, <1>6 DEF Claim
  <2>2. \A d \in Consumers : cpc[d] = "move" => cpc'[d] = "move" /\ cidx'[d] = cidx[d]
    BY <1>n, <1>6 DEF Claim
  <2> SUFFICES ASSUME NEW s \in Slot, data[s] # Empty
               PROVE  /\ SlotOf(data[s]) = s
                      /\ \/ consumeClaimIndex + 1 =< data[s] /\ data[s] < produceIndex
                         \/ ppc = "publish" /\ data[s] = produceIndex
                         \/ \E d \in Consumers : cpc'[d] = "move" /\ cidx'[d] = data[s]
    BY <2>1 DEF SlotOf
  <2>3. data[s] \in Nat
    BY <1>n
  <2>4. CASE data[s] = consumeClaimIndex
    BY <1>0, <2>1, <2>4
  <2>5. CASE data[s] # consumeClaimIndex
    BY <1>0, <1>n, <2>2, <2>3, <2>5
  <2> QED
    BY <2>4, <2>5
<1>7. ASSUME NEW c \in Consumers, MoveOut(c) PROVE Contents'
  <2>1. /\ data' = [data EXCEPT ![SlotOf(cidx[c])] = Empty]
        /\ cpc[c] = "move"
        /\ UNCHANGED <<produceIndex, consumeClaimIndex, ppc, cidx>>
    BY <1>7 DEF MoveOut
  <2>2. \A d \in Consumers \ {c} : cpc'[d] = cpc[d]
    BY <1>n, <1>7 DEF MoveOut
  <2> SUFFICES ASSUME NEW s \in Slot, data'[s] # Empty
               PROVE  /\ SlotOf(data'[s]) = s
                      /\ \/ consumeClaimIndex =< data'[s] /\ data'[s] < produceIndex
                         \/ ppc = "publish" /\ data'[s] = produceIndex
                         \/ \E d \in Consumers : cpc'[d] = "move" /\ cidx[d] = data'[s]
    BY <2>1 DEF SlotOf
  <2>3. s # SlotOf(cidx[c]) /\ data'[s] = data[s]
    BY <1>n, <2>1, SlotInRing
  <2>4. SlotOf(data[s]) = s
    BY <1>0, <2>3
  <2>5. cidx[c] # data[s]
    BY <2>3, <2>4
  <2> QED
    BY <1>0, <2>2, <2>3, <2>4, <2>5
<1>8. ASSUME NEW c \in Consumers, Commit(c) PROVE Contents'
  <2>1. UNCHANGED <<data, produceIndex, consumeClaimIndex, ppc, cidx>>
    BY <1>8 DEF Commit
  <2>2. \A d \in Consumers : cpc[d] = "move" => cpc'[d] = "move"
    BY <1>n, <1>8 DEF Commit
  <2> QED
    BY <1>0, <2>1, <2>2 DEF SlotOf
<1>9. CASE UNCHANGED queueVars
  BY <1>0, <1>9 DEF queueVars
<1> QED
  BY <1>1, <1>2, <1>3, <1>4, <1>5, <1>6, <1>7, <1>8, <1>9
  DEF QueueNext, Producer, Consumer, QueueDrained

LEMMA RingInvInit == QueueInit => RingInv
<1>1. QueueInit => Contents
  BY DEF QueueInit, Contents
<1> QED
  BY <1>1, AccountingInit, ClaimsInit, PlacementInit
  DEF RingInv, Placement, ClaimsInv

LEMMA RingInvStep == ASSUME SafeRing, RingInv, [QueueNext]_queueVars PROVE RingInv'
  BY AccountingStep, ClaimsStep, WindowStep, PlacedStep, ContentsStep
  DEF RingInv, Placement, ClaimsInv

\* The inductive invariant of a SafeRing holds.
THEOREM RingInvHolds ==
  ASSUME SafeRing
  PROVE  QueueSpec => []RingInv
  BY RingInvInit, RingInvStep, PTL DEF QueueSpec

\* In a SafeRing no step destroys an item that nobody has moved out.
THEOREM NeverOverwritesCorrect ==
  ASSUME SafeRing
  PROVE  QueueSpec => NeverOverwrites
<1> DEFINE Kept == \A s \in Slot : data[s] # Empty => data'[s] \in {data[s], Empty}
<1>1. ASSUME RingInv, [QueueNext]_queueVars PROVE [Kept]_queueVars
  <2>1. data \in [Slot -> Item \cup {Empty}]
    BY <1>1 DEF RingInv, Placement, ClaimsInv, Accounting, QueueTypeOK
  <2>2. CASE WriteSlot
    BY <1>1, <2>1, <2>2, FreshSlot DEF WriteSlot
  <2>3. ASSUME NEW c \in Consumers, MoveOut(c) PROVE Kept
    BY <2>1, <2>3 DEF MoveOut
  <2>4. CASE UNCHANGED data
    BY <2>4
  <2> QED
    BY <1>1, <2>2, <2>3, <2>4
    DEF QueueNext, Producer, CheckSpace, Publish, Release, Consumer, Acquire,
        Claim, Commit, QueueDrained, queueVars
<1> QED
  BY <1>1, RingInvHolds, PTL DEF QueueSpec, NeverOverwrites
=============================================================================
