---------------------------- MODULE Session_proofs ---------------------------
(***************************************************************************)
(* Theorems about Session, for every process, layout and size of the chunks: *)
(* what a capture leaves behind, which snapshots the client's nodes can have, *)
(* which buffers a scan stays inside of, and what its hits say.               *)
(***************************************************************************)
EXTENDS Session, Scans_proofs

\* What a process may have in its memory.
Memory == UNION {[D -> 0 .. Base - 1] : D \in SUBSET Nat}

LEMMA MemoryChanges ==
    ASSUME NEW m \in Memory
    PROVE  /\ \A a \in DOMAIN m, v \in 0 .. Base - 1 : [m EXCEPT ![a] = v] \in Memory
           /\ \A D \in SUBSET DOMAIN m : [a \in D |-> m[a]] \in Memory
           /\ <<>> \in Memory
<1>1. PICK D \in SUBSET Nat : m \in [D -> 0 .. Base - 1]
  BY DEF Memory
<1>2. \A a \in DOMAIN m, v \in 0 .. Base - 1 :
         [m EXCEPT ![a] = v] \in [D -> 0 .. Base - 1]
  BY <1>1
<1>3. ASSUME NEW E \in SUBSET DOMAIN m
      PROVE  [a \in E |-> m[a]] \in Memory
  <2>1. E \in SUBSET Nat /\ [a \in E |-> m[a]] \in [E -> 0 .. Base - 1]
    BY <1>1
  <2> QED
    BY <2>1 DEF Memory
<1>4. <<>> \in Memory
  <2>1. <<>> \in [{} -> 0 .. Base - 1]
    OBVIOUS
  <2> QED
    BY <2>1 DEF Memory
<1> QED
  BY <1>1, <1>2, <1>3, <1>4 DEF Memory

\* The bytes read so far for node i are bytes the process had at their
\* addresses since the capture began.
ReadSoFar(i) ==
    /\ Readable(vec[i].map)
    /\ op.data[i] \in Seq(0 .. Base - 1)
    /\ Len(op.data[i]) < vec[i].map.relativeSize
    /\ \A j \in DOMAIN op.data[i] :
          op.data[i][j] \in BytesAt(tbegin(vec[i].map) + j - 1, op.began, Len(world))

CapturesUnderWay ==
    /\ op.began \in 1 .. Len(world)
    /\ op.todo \subseteq DOMAIN vec
    /\ op.todo \subseteq DOMAIN op.data
    /\ op = [began |-> op.began, todo |-> op.todo, data |-> op.data]
    /\ \A i \in op.todo : ReadSoFar(i)

\* What makes CaptureIsHonest inductive: what is true of the captures that are
\* under way, between two reads.
CaptureInv ==
    /\ world \in Seq(Memory) /\ Len(world) > 0
    /\ op.todo # {} => CapturesUnderWay

LEMMA InitCaptureInv == Init => CaptureInv
<1> SUFFICES ASSUME Init PROVE CaptureInv
  OBVIOUS
<1>1. PICK memory \in Memories : world = <<memory>>
  BY DEF Init
<1>2. memory \in Memory
  <2>1. /\ DOMAIN memory \in SUBSET Nat
        /\ memory \in [DOMAIN memory -> 0 .. Base - 1]
    BY SessionAssumption DEF SessionAssumption
  <2> QED
    BY <2>1 DEF Memory
<1> QED
  BY <1>1, <1>2 DEF Init, CaptureInv, Idle

\* A byte the process had, it still has in its history.
LEMMA HistoryGrows ==
    ASSUME world \in Seq(Memory), NEW memory \in Memory,
           world' = Append(world, memory),
           NEW a, NEW began \in 1 .. Len(world)
    PROVE  BytesAt(a, began, Len(world)) \subseteq BytesAt(a, began, Len(world))'
<1>1. Len(world') = Len(world) + 1 /\ \A t \in 1 .. Len(world) : world'[t] = world[t]
  BY AppendProperties
<1>2. \A t \in began .. Len(world) : t \in began .. Len(world') /\ world'[t] = world[t]
  BY <1>1
<1> QED
  BY <1>2 DEF BytesAt

LEMMA EventKeeps ==
    ASSUME CaptureInv, NEW memory \in Memory, Event(memory)
    PROVE  CaptureInv'
<1>1. /\ world' \in Seq(Memory) /\ Len(world') = Len(world) + 1
      /\ vec' = vec /\ op' = op
  BY AppendProperties DEF Event, CaptureInv
<1>2. ASSUME op.todo # {}
      PROVE  CapturesUnderWay'
  <2>1. CapturesUnderWay
    BY <1>2 DEF CaptureInv
  <2>2. \A a : BytesAt(a, op.began, Len(world))
                 \subseteq BytesAt(a, op.began, Len(world))'
    BY <1>1, <2>1, HistoryGrows DEF Event, CaptureInv, CapturesUnderWay
  <2>3. ASSUME NEW i \in op.todo
        PROVE  ReadSoFar(i)'
    BY <1>1, <2>1, <2>2 DEF CapturesUnderWay, ReadSoFar
  <2>4. op.began \in 1 .. Len(world')
    BY <1>1, <2>1 DEF CapturesUnderWay, CaptureInv
  <2> QED
    BY <1>1, <2>1, <2>3, <2>4 DEF CapturesUnderWay
<1> QED
  BY <1>1, <1>2 DEF CaptureInv

LEMMA ProcessKeeps == CaptureInv /\ Process => CaptureInv'
<1> SUFFICES ASSUME CaptureInv, Process PROVE CaptureInv'
  OBVIOUS
<1>1. Now \in Memory
  BY DEF CaptureInv, Now
<1>2. CASE Write
  <2>1. PICK a \in DOMAIN Now, v \in 0 .. Base - 1 : Event([Now EXCEPT ![a] = v])
    BY <1>2 DEF Write
  <2> QED
    BY <1>1, <2>1, MemoryChanges, EventKeeps
<1>3. CASE Unmap
  <2>1. PICK page : Event([a \in {b \in DOMAIN Now : PageOf(b) # page} |-> Now[a]])
    BY <1>3 DEF Unmap
  <2>2. [a \in {b \in DOMAIN Now : PageOf(b) # page} |-> Now[a]] \in Memory
    BY <1>1, MemoryChanges
  <2> QED
    BY <2>1, <2>2, EventKeeps
<1>4. CASE Exit
  BY <1>1, <1>4, MemoryChanges, EventKeeps DEF Exit
<1> QED
  BY <1>2, <1>3, <1>4 DEF Process

LEMMA CaptureKeeps == CaptureInv /\ Capture => CaptureInv'
<1> SUFFICES ASSUME CaptureInv, Capture PROVE CaptureInv'
  OBVIOUS
<1>1. /\ op' = [began |-> Len(world), todo |-> DOMAIN vec,
                data |-> [i \in DOMAIN vec |-> <<>>]]
      /\ world' = world /\ vec' = vec
      /\ \A i \in DOMAIN vec : Readable(vec[i].map)
  BY DEF Capture
<1>2. ASSUME NEW i \in op'.todo
      PROVE  ReadSoFar(i)'
  BY <1>1, <1>2 DEF ReadSoFar, Readable
<1>3. Len(world) \in 1 .. Len(world)
  BY DEF CaptureInv
<1>4. CapturesUnderWay'
  BY <1>1, <1>2, <1>3 DEF CapturesUnderWay
<1> QED
  BY <1>1, <1>4 DEF CaptureInv

\* The end of one capture leaves the others as they are.
LEMMA FinishKeeps ==
    ASSUME CaptureInv, NEW i \in op.todo, NEW bytes, Finish(i, bytes),
           world' = world
    PROVE  CaptureInv'
<1>1. CapturesUnderWay
  BY DEF CaptureInv
<1>2. CASE op.todo = {i}
  BY <1>2 DEF Finish, CaptureInv, Idle
<1>3. CASE op.todo # {i}
  <2>1. op' = [began |-> op.began, todo |-> op.todo \ {i}, data |-> op.data]
    BY <1>1, <1>3 DEF Finish, CapturesUnderWay
  <2>2. DOMAIN vec' = DOMAIN vec /\ \A k \in DOMAIN vec \ {i} : vec'[k] = vec[k]
    BY DEF Finish
  <2>3. ASSUME NEW k \in op'.todo
        PROVE  ReadSoFar(k)'
    <3>1. k \in op.todo /\ k # i /\ ReadSoFar(k)
      BY <1>1, <2>1 DEF CapturesUnderWay
    <3>2. /\ vec'[k] = vec[k] /\ op'.data[k] = op.data[k]
          /\ op'.began = op.began
      BY <1>1, <2>1, <2>2, <3>1 DEF CapturesUnderWay
    <3>3. \A a : BytesAt(a, op.began, Len(world))' = BytesAt(a, op.began, Len(world))
      BY <3>2 DEF BytesAt
    <3> QED
      BY <3>1, <3>2, <3>3 DEF ReadSoFar
  <2>4. CapturesUnderWay'
    BY <1>1, <2>1, <2>2, <2>3 DEF CapturesUnderWay
  <2> QED
    BY <2>4 DEF CaptureInv
<1> QED
  BY <1>2, <1>3

\* A request never reaches past the end of the map.
LEMMA RequestFits ==
    ASSUME NEW size \in Nat, NEW done \in Nat, done < size
    PROVE  Request(size, done) \in Nat /\ done + Request(size, done) <= size
  BY SessionAssumption DEF Request, SessionAssumption

\* What was read and what a read adds to it, in one.
LEMMA ReadAppends ==
    ASSUME NEW S, NEW old \in Seq(S), NEW got \in Seq(S), NEW first \in Int,
           NEW memory,
           \A j \in 1 .. Len(got) : got[j] = memory[first + Len(old) + j - 1]
    PROVE  /\ old \o got \in Seq(S) /\ Len(old \o got) = Len(old) + Len(got)
           /\ \A j \in 1 .. Len(old) + Len(got) :
                 (old \o got)[j] = IF j <= Len(old) THEN old[j]
                                                    ELSE memory[first + j - 1]
<1>1. PICK done \in Nat, n \in Nat : done = Len(old) /\ n = Len(got)
  OBVIOUS
<1>2. ASSUME NEW j \in 1 .. done + n, ~(j <= done)
      PROVE  got[j - done] = memory[first + j - 1]
  <2>1. j - done \in 1 .. n /\ first + done + (j - done) - 1 = first + j - 1
    BY <1>2
  <2>2. got[j - done] = memory[first + Len(old) + (j - done) - 1]
    BY <1>1, <2>1
  <2> QED
    BY <1>1, <2>1, <2>2
<1>3. /\ old \o got \in Seq(S) /\ Len(old \o got) = Len(old) + Len(got)
      /\ \A j \in 1 .. Len(old) + Len(got) :
            (old \o got)[j] = IF j <= Len(old) THEN old[j] ELSE got[j - Len(old)]
  BY ConcatProperties
<1> QED
  BY <1>1, <1>2, <1>3

\* Counting the bytes of a read from the first byte of the node, or from where
\* the read begins.
LEMMA ReadPositions ==
    ASSUME NEW first \in Int, NEW done \in Nat, NEW n \in Nat, NEW A,
           first + done .. first + done + n - 1 \subseteq A
    PROVE  /\ \A j \in 1 .. done + n : ~(j <= done) => first + j - 1 \in A
           /\ \A j \in 1 .. n : first + done + j - 1 \in A
<1>1. ASSUME NEW j \in 1 .. done + n, ~(j <= done)
      PROVE  first + j - 1 \in A
  <2>1. first + j - 1 \in first + done .. first + done + n - 1
    BY <1>1
  <2> QED
    BY <2>1
<1>2. ASSUME NEW j \in 1 .. n
      PROVE  first + done + j - 1 \in A
  <2>1. first + done + j - 1 \in first + done .. first + done + n - 1
    OBVIOUS
  <2> QED
    BY <2>1
<1> QED
  BY <1>1, <1>2

\* One read brings bytes the process has now, and no more than were asked for.
LEMMA ReadIsReal ==
    ASSUME CaptureInv, NEW i \in op.todo,
           NEW k \in Copies(ReadHead(i),
                            Request(vec[i].map.relativeSize, Len(op.data[i]))),
           NEW bytes,
           bytes = op.data[i] \o [j \in 1 .. k |-> Now[ReadHead(i) + j - 1]]
    PROVE  /\ bytes \in Seq(0 .. Base - 1)
           /\ Len(bytes) = Len(op.data[i]) + k
           /\ Len(bytes) <= vec[i].map.relativeSize
           /\ \A j \in DOMAIN bytes :
                 bytes[j] \in BytesAt(tbegin(vec[i].map) + j - 1, op.began, Len(world))
<1>1. CapturesUnderWay /\ ReadSoFar(i)
  BY DEF CaptureInv, CapturesUnderWay
<1>2. PICK done \in Nat, size \in Nat, first \in Int :
        /\ done = Len(op.data[i]) /\ size = vec[i].map.relativeSize
        /\ first = tbegin(vec[i].map)
        /\ done < size /\ ReadHead(i) = first + done
  BY <1>1 DEF ReadSoFar, Readable, ReadHead
<1>3. PICK request \in Nat : /\ request = Request(size, done)
                             /\ done + request <= size
  BY <1>2, RequestFits
<1>4. PICK n \in Nat : /\ n = k /\ done + n <= size
                       /\ first + done .. first + done + n - 1 \subseteq DOMAIN Now
  <2>1. /\ k \in 1 .. request
        /\ first + done .. first + done + k - 1 \subseteq DOMAIN Now
    BY <1>2, <1>3 DEF Copies
  <2>2. k \in Nat /\ done + k <= size
    BY <1>3, <2>1
  <2> QED
    BY <2>1, <2>2
<1>5. Now \in Memory /\ Len(world) \in op.began .. Len(world)
  BY <1>1 DEF CaptureInv, Now, CapturesUnderWay
<1>6. PICK D \in SUBSET Nat : Now \in [D -> 0 .. Base - 1]
  BY <1>5 DEF Memory
<1>7. /\ \A j \in 1 .. done + n : ~(j <= done) => first + j - 1 \in DOMAIN Now
      /\ \A j \in 1 .. n : first + done + j - 1 \in DOMAIN Now
  <2>1. first + done .. first + done + n - 1 \subseteq DOMAIN Now
    BY <1>4
  <2> HIDE DEF Now
  <2> QED
    BY <1>2, <1>4, <2>1, ReadPositions
<1>8. \A j \in 1 .. n : Now[first + done + j - 1] \in 0 .. Base - 1
  <2> SUFFICES ASSUME NEW j \in 1 .. n
               PROVE  Now[first + done + j - 1] \in 0 .. Base - 1
    OBVIOUS
  <2>1. first + done + j - 1 \in D
    BY <1>6, <1>7
  <2> QED
    BY <1>6, <2>1
<1>9. /\ bytes \in Seq(0 .. Base - 1) /\ Len(bytes) = done + n
      /\ \A j \in 1 .. done + n :
            bytes[j] = IF j <= done THEN op.data[i][j] ELSE Now[first + j - 1]
  <2> DEFINE Byte == 0 .. Base - 1
  <2>1. PICK old \in Seq(Byte) : old = op.data[i]
    BY <1>1 DEF ReadSoFar
  <2>2. PICK memory : memory = Now
    OBVIOUS
  <2>3. PICK got : got = [j \in 1 .. n |-> Now[ReadHead(i) + j - 1]]
    OBVIOUS
  <2>4. bytes = old \o got
    BY <1>4, <2>1, <2>3
  <2>5. \A j \in 1 .. n : got[j] = memory[first + Len(old) + j - 1]
    BY <1>2, <2>1, <2>2, <2>3
  <2>6. \A j \in 1 .. n : got[j] \in Byte
    BY <1>2, <1>8, <2>1, <2>2, <2>5
  <2>7. got \in Seq(Byte) /\ Len(got) = n
    <3> HIDE DEF Byte, Now
    <3> QED
      BY <1>4, <2>3, <2>6, IsASeq
  <2>8. /\ bytes \in Seq(Byte) /\ Len(bytes) = Len(old) + n
        /\ \A j \in 1 .. Len(old) + n :
              bytes[j] = IF j <= Len(old) THEN old[j] ELSE memory[first + j - 1]
    <3> HIDE DEF Now, Byte
    <3>1. first \in Int
      BY <1>2
    <3>2. \A j \in 1 .. Len(got) : got[j] = memory[first + Len(old) + j - 1]
      BY <2>5, <2>7
    <3>3. old \in Seq(Byte) /\ got \in Seq(Byte)
      BY <2>1, <2>7
    <3>4. /\ old \o got \in Seq(Byte) /\ Len(old \o got) = Len(old) + Len(got)
          /\ \A j \in 1 .. Len(old) + Len(got) :
                (old \o got)[j] = IF j <= Len(old) THEN old[j]
                                                   ELSE memory[first + j - 1]
      BY <3>1, <3>2, <3>3, ReadAppends, Z3
    <3> QED
      BY <2>4, <2>7, <3>4
  <2> QED
    BY <1>2, <2>1, <2>2, <2>8
<1>10. ASSUME NEW j \in 1 .. done + n
       PROVE  bytes[j] \in BytesAt(first + j - 1, op.began, Len(world))
  <2>1. CASE j <= done
    <3>1. j \in DOMAIN op.data[i]
      BY <1>1, <1>2, <2>1 DEF ReadSoFar
    <3> QED
      BY <1>1, <1>2, <1>9, <2>1, <3>1 DEF ReadSoFar
  <2>2. CASE ~(j <= done)
    <3>1. bytes[j] = Now[first + j - 1] /\ first + j - 1 \in DOMAIN Now
      BY <1>7, <1>9, <2>2
    <3> QED
      BY <1>5, <3>1 DEF BytesAt, Now
  <2> QED
    BY <2>1, <2>2
<1>11. DOMAIN bytes = 1 .. done + n
  BY <1>9, LenProperties
<1> QED
  BY <1>2, <1>4, <1>9, <1>10, <1>11

LEMMA ReadSomeKeeps ==
    ASSUME CaptureInv, NEW i \in op.todo, ReadSome(i)
    PROVE  CaptureInv'
<1>1. PICK k \in Copies(ReadHead(i),
                        Request(vec[i].map.relativeSize, Len(op.data[i]))) :
        LET bytes == op.data[i] \o [j \in 1 .. k |-> Now[ReadHead(i) + j - 1]]
        IN  \/ /\ Len(bytes) < vec[i].map.relativeSize
               /\ op' = [op EXCEPT !.data[i] = bytes]
               /\ UNCHANGED vec
            \/ /\ Len(bytes) >= vec[i].map.relativeSize
               /\ Finish(i, bytes)
  BY DEF ReadSome
<1> DEFINE bytes == op.data[i] \o [j \in 1 .. k |-> Now[ReadHead(i) + j - 1]]
<1>2. /\ bytes \in Seq(0 .. Base - 1)
      /\ \A j \in DOMAIN bytes :
            bytes[j] \in BytesAt(tbegin(vec[i].map) + j - 1, op.began, Len(world))
  BY ReadIsReal
<1>3. world' = world
  BY DEF ReadSome
<1>4. CASE Finish(i, bytes)
  BY <1>3, <1>4, FinishKeeps
<1>5. CASE /\ Len(bytes) < vec[i].map.relativeSize
           /\ op' = [op EXCEPT !.data[i] = bytes]
           /\ UNCHANGED vec
  <2> HIDE DEF bytes
  <2>1. CapturesUnderWay
    BY DEF CaptureInv
  <2>2. op' = [began |-> op.began, todo |-> op.todo,
               data |-> [op.data EXCEPT ![i] = bytes]]
    BY <1>5, <2>1 DEF CapturesUnderWay
  <2>3. ASSUME NEW m \in op'.todo
        PROVE  ReadSoFar(m)'
    <3>1. CASE m = i
      BY <1>2, <1>3, <1>5, <2>1, <2>2, <3>1 DEF CapturesUnderWay, ReadSoFar, BytesAt
    <3>2. CASE m # i
      BY <1>3, <1>5, <2>1, <2>2, <3>2 DEF CapturesUnderWay, ReadSoFar, BytesAt
    <3> QED
      BY <3>1, <3>2
  <2>4. CapturesUnderWay'
    BY <1>3, <1>5, <2>1, <2>2, <2>3 DEF CapturesUnderWay
  <2> QED
    BY <1>3, <2>4 DEF CaptureInv
<1> QED
  BY <1>1, <1>4, <1>5

LEMMA ReadFailsKeeps ==
    ASSUME CaptureInv, NEW i \in op.todo, ReadFails(i)
    PROVE  CaptureInv'
  BY FinishKeeps DEF ReadFails

LEMMA ReadingKeeps == CaptureInv /\ Reading => CaptureInv'
  BY ReadSomeKeeps, ReadFailsKeeps DEF Reading

\* Whatever else the client does, it does between captures.
LEMMA OthersKeep ==
    ASSUME CaptureInv,
           \/ Choose \/ Keep \/ Widen \/ Scan
           \/ \E bytes \in Buffers : FromBuffer(bytes)
    PROVE  CaptureInv' /\ op.todo = {}
<1>1. ASSUME Ready, world' = world, op' = op
      PROVE  CaptureInv' /\ op.todo = {}
  BY <1>1 DEF Ready, Idle, CaptureInv
<1>2. CASE Choose
  <2>1. PICK nodes : Select(nodes)
    BY <1>2 DEF Choose, FilterSize, FilterName, FilterPerms, FilterActive
  <2> QED
    BY <1>1, <2>1 DEF Select, Fresh
<1>3. CASE Keep \/ Widen
  BY <1>1, <1>3 DEF Keep, Widen
<1>4. CASE \E bytes \in Buffers : FromBuffer(bytes)
  BY <1>1, <1>4 DEF FromBuffer
<1>5. CASE Scan
  <2>1. Ready /\ world' = world /\ op' = op
    BY <1>5 DEF Scan, ScanChanged, ScanUnchanged, ScanNumChanged,
                ScanNumUnchanged, ScanNumWithinRange, ScanNumExact, ScanString,
                PairReady, ScanReady, Outcome, Overread, Found
  <2> QED
    BY <1>1, <2>1
<1> QED
  BY <1>2, <1>3, <1>4, <1>5

LEMMA NextCaptureInv == CaptureInv /\ [Next]_vars => CaptureInv'
<1> SUFFICES ASSUME CaptureInv, [Next]_vars PROVE CaptureInv'
  OBVIOUS
<1>1. CASE UNCHANGED vars
  BY <1>1 DEF vars, CaptureInv, CapturesUnderWay, ReadSoFar, BytesAt
<1>2. CASE Next
  BY <1>2, ProcessKeeps, CaptureKeeps, ReadingKeeps, OthersKeep DEF Next
<1> QED
  BY <1>1, <1>2

\* Between two reads of a capture, the bytes it has so far are bytes the process
\* had at these addresses since the capture began, and there is more to be read.
THEOREM CaptureInvariant == Spec => []CaptureInv
  BY InitCaptureInv, NextCaptureInv, PTL DEF Spec

Honest(i) ==
    LET n == vec'[i]
    IN  \/ span(n) = <<>>
        \/ /\ Len(span(n)) = n.map.relativeSize
           /\ \A j \in DOMAIN span(n) :
                 WasThere(n, tbegin(n.map) + j - 1, span(n)[j])

\* What a capture that ends leaves is an empty buffer, or all the bytes of the
\* node, each of which the process had at its address while it was read.
LEMMA ReadingIsHonest ==
    ASSUME CaptureInv, Reading
    PROVE  \A m \in op.todo \ op'.todo : Honest(m)
<1>1. CapturesUnderWay
  BY DEF Reading, CaptureInv
<1>2. ASSUME NEW i \in op.todo, NEW bytes, Finish(i, bytes)
      PROVE  /\ op.todo \ op'.todo \subseteq {i}
             /\ span(vec'[i]) = bytes /\ vec'[i].map = vec[i].map
             /\ vec'[i].snap.began = op.began /\ vec'[i].snap.ended = Len(world)
  <2>1. /\ vec'[i].snap = [data |-> bytes, map |-> vec[i].map,
                           began |-> op.began, ended |-> Len(world)]
        /\ vec'[i].map = vec[i].map
    BY <1>1, <1>2 DEF Finish, CapturesUnderWay
  <2>2. op.todo \ op'.todo \subseteq {i}
    BY <1>1, <1>2 DEF Finish, CapturesUnderWay
  <2> QED
    BY <2>1, <2>2 DEF span
<1>3. ASSUME NEW i \in op.todo, ReadFails(i)
      PROVE  \A m \in op.todo \ op'.todo : Honest(m)
  BY <1>2, <1>3 DEF ReadFails, LeftAfterFailure, Honest
<1>4. ASSUME NEW i \in op.todo, ReadSome(i)
      PROVE  \A m \in op.todo \ op'.todo : Honest(m)
  <2>1. PICK k \in Copies(ReadHead(i),
                          Request(vec[i].map.relativeSize, Len(op.data[i]))) :
          LET bytes == op.data[i] \o [j \in 1 .. k |-> Now[ReadHead(i) + j - 1]]
          IN  \/ /\ Len(bytes) < vec[i].map.relativeSize
                 /\ op' = [op EXCEPT !.data[i] = bytes]
                 /\ UNCHANGED vec
              \/ /\ Len(bytes) >= vec[i].map.relativeSize
                 /\ Finish(i, bytes)
    BY <1>4 DEF ReadSome
  <2>2. PICK bytes :
          bytes = op.data[i] \o [j \in 1 .. k |-> Now[ReadHead(i) + j - 1]]
    OBVIOUS
  <2>3. /\ Len(bytes) = Len(op.data[i]) + k
        /\ Len(bytes) <= vec[i].map.relativeSize
        /\ bytes \in Seq(0 .. Base - 1)
        /\ \A j \in DOMAIN bytes :
              bytes[j] \in BytesAt(tbegin(vec[i].map) + j - 1, op.began, Len(world))
    BY <2>2, ReadIsReal
  <2>4. CASE op' = [op EXCEPT !.data[i] = bytes]
    BY <1>1, <2>4 DEF CapturesUnderWay
  <2>5. CASE Len(bytes) >= vec[i].map.relativeSize /\ Finish(i, bytes)
    <3>1. vec[i].map.relativeSize \in Nat
      BY <1>1 DEF CapturesUnderWay, ReadSoFar, Readable
    <3>2. Len(bytes) = vec[i].map.relativeSize
      BY <2>3, <2>5, <3>1, LenProperties
    <3>3. Honest(i)
      BY <1>2, <2>3, <2>5, <3>2 DEF Honest, WasThere
    <3> QED
      BY <1>2, <2>5, <3>3
  <2> QED
    BY <2>1, <2>2, <2>4, <2>5
<1> QED
  BY <1>3, <1>4 DEF Reading

\* readProcess leaves a whole buffer of bytes the process had at these very
\* addresses during the capture, or an empty one, whatever the sizes of the maps
\* and of the chunks and whatever the process does to its memory meanwhile.
THEOREM CaptureHonest == Spec => CaptureIsHonest
<1>1. ASSUME CaptureInv, [Next]_vars
      PROVE  \A m \in op.todo \ op'.todo : Honest(m)
  <2>1. CASE UNCHANGED vars
    BY <2>1 DEF vars
  <2>2. CASE Process
    BY <2>2 DEF Process, Write, Unmap, Exit, Event
  <2>3. CASE Capture
    BY <2>3 DEF Capture, Ready, Idle
  <2>4. CASE Reading
    BY <1>1, <2>4, ReadingIsHonest
  <2>5. CASE \/ Choose \/ Keep \/ Widen \/ Scan
             \/ \E bytes \in Buffers : FromBuffer(bytes)
    BY <1>1, <2>5, OthersKeep
  <2> QED
    BY <1>1, <2>1, <2>2, <2>3, <2>4, <2>5 DEF Next
<1>2. ASSUME CaptureInv, [Next]_vars
      PROVE  [\A i \in op.todo \ op'.todo :
                LET n == vec'[i]
                IN  \/ span(n) = <<>>
                    \/ /\ Len(span(n)) = n.map.relativeSize
                       /\ \A j \in DOMAIN span(n) :
                             WasThere(n, tbegin(n.map) + j - 1, span(n)[j])]_vars
  BY <1>1, <1>2 DEF Honest
<1> QED
  BY <1>2, CaptureInvariant, PTL DEF Spec, CaptureIsHonest

-----------------------------------------------------------------------------
(* The client's nodes, and the snapshots they carry from scan to scan.       *)

\* The names and the permissions of the nodes are those of the layout, or none.
Names == {NameOf(Layout, i) : i \in DOMAIN Layout} \cup {<<>>}

Flags == {parsePerms(Layout[i].perms) : i \in DOMAIN Layout} \cup {{}}

NodeMaps == MapsOf(Names, Flags)

\* A finished capture fits its map.  One read from the process ended in its
\* history, with a whole buffer or an empty one; what it holds the process had
\* there meanwhile.
Taken(s) ==
    /\ s.map.relativeSize \in Nat
    /\ Len(s.data) <= s.map.relativeSize
    /\ s.began > 0 =>
         /\ s.began <= s.ended /\ s.ended \in 1 .. Len(world)
         /\ Len(s.data) = s.map.relativeSize \/ s.data = <<>>
         /\ \A j \in DOMAIN s.data :
               s.data[j] \in BytesAt(tbegin(s.map) + j - 1, s.began, s.ended)

Snapshots ==
    {s \in [data : Seq(0 .. Base - 1), map : NodeMaps, began : Nat, ended : Nat] :
        Taken(s)} \cup {NoSnap}

Nodes == NodesOf(NodeMaps, Snapshots)

\* Of two captures of one node the copy kept before was the first, also of those
\* that are under way.
KeptBefore ==
    \A i \in DOMAIN vec \cap DOMAIN before :
        OfProcess(vec[i]) /\ OfProcess(before[i]) =>
            /\ before[i].snap.began <= vec[i].snap.began
            /\ before[i].snap.ended <= vec[i].snap.ended

KeptEarlier ==
    op.todo # {} => \A i \in DOMAIN before :
        OfProcess(before[i]) => before[i].snap.ended <= op.began

\* What makes SessionTypeOK inductive, and what the properties of the scans need:
\* the nodes of the client carry finished captures only, and the copy kept is the
\* older one.
SessionInv ==
    /\ CaptureInv
    /\ vec \in Seq(Nodes) /\ before \in Seq(Nodes)
    /\ Captured(before) /\ KeptBefore /\ KeptEarlier
    /\ Len(world) <= MaxEvents + 1
    /\ steps \in 0 .. MaxSteps
    /\ overread \in BOOLEAN
    /\ overread => op.todo = {}

LEMMA SessionInvImpliesTypeOK == SessionInv => SessionTypeOK
<1> SUFFICES ASSUME SessionInv PROVE SessionTypeOK
  OBVIOUS
<1>1. Len(world) \in 1 .. MaxEvents + 1
  BY SessionAssumption DEF SessionInv, CaptureInv, SessionAssumption
<1>2. ASSUME NEW i \in DOMAIN vec
      PROVE  vec[i].snap = NoSnap \/ Len(span(vec[i])) <= vec[i].snap.map.relativeSize
  <2>1. vec[i] \in Nodes
    BY DEF SessionInv
  <2>2. vec[i].snap \in Snapshots
    BY <2>1 DEF Nodes, NodesOf
  <2> QED
    BY <2>2 DEF Snapshots, Taken, span
<1>3. op.todo \subseteq DOMAIN vec
      /\ \A i \in op.todo : Len(op.data[i]) < vec[i].map.relativeSize
  BY DEF SessionInv, CaptureInv, CapturesUnderWay, ReadSoFar
<1> QED
  BY <1>1, <1>2, <1>3 DEF SessionInv, SessionTypeOK

\* A node without a snapshot is one of the client's, whatever happens.
LEMMA BareNodes ==
    ASSUME NEW nodes \in Seq(NodesOf(NodeMaps, {NoSnap}))
    PROVE  nodes \in Seq(Nodes) /\ \A i \in DOMAIN nodes : nodes[i].snap = NoSnap
<1>1. NodesOf(NodeMaps, {NoSnap}) \subseteq Nodes
  BY DEF NodesOf, Nodes, Snapshots
<1>2. \A n \in NodesOf(NodeMaps, {NoSnap}) : n.snap = NoSnap
  BY DEF NodesOf
<1>3. ASSUME NEW A, NEW B, A \subseteq B, NEW seq \in Seq(A)
      PROVE  seq \in Seq(B) /\ \A i \in DOMAIN seq : seq[i] \in A
  BY <1>3
<1>4. nodes \in Seq(Nodes)
      /\ \A i \in DOMAIN nodes : nodes[i] \in NodesOf(NodeMaps, {NoSnap})
  BY <1>1, <1>3, Zenon
<1> QED
  BY <1>2, <1>4

LEMMA InitSession == Init => SessionInv
<1> SUFFICES ASSUME Init PROVE SessionInv
  OBVIOUS
<1>1. CaptureInv
  BY InitCaptureInv
<1>2. vec \in Seq(NodesOf(NodeMaps, {NoSnap}))
  <2> DEFINE N == NodesOf(NodeMaps, {NoSnap})
             mapOf(i) == [parentAddress   |-> Layout[i].start,
                          parentSize      |-> Layout[i].end - Layout[i].start,
                          relativeAddress |-> 0,
                          relativeSize    |-> Layout[i].end - Layout[i].start,
                          regionName      |-> NameOf(Layout, i),
                          perms           |-> parsePerms(Layout[i].perms)]
  <2>1. /\ Len(Layout) \in Nat /\ DOMAIN Layout = 1 .. Len(Layout)
        /\ \A i \in DOMAIN Layout : Layout[i].start \in Nat /\ Layout[i].end \in Nat
    <3> DEFINE Line == [start : Nat, end : Nat, perms : SUBSET STRING, name : Seq(STRING)]
    <3>1. Layout \in Seq(Line)
      BY SessionAssumption DEF SessionAssumption
    <3>2. \A line \in Line : line.start \in Nat /\ line.end \in Nat
      OBVIOUS
    <3> HIDE DEF Line
    <3>3. /\ Len(Layout) \in Nat /\ DOMAIN Layout = 1 .. Len(Layout)
          /\ \A i \in DOMAIN Layout : Layout[i] \in Line
      BY <3>1
    <3> QED
      BY <3>2, <3>3
  <2>2. ASSUME NEW i \in DOMAIN Layout PROVE mapOf(i) \in NodeMaps
    <3>1. /\ Layout[i].start \in Int /\ Layout[i].end - Layout[i].start \in Int
          /\ NameOf(Layout, i) \in Names /\ parsePerms(Layout[i].perms) \in Flags
      BY <2>1 DEF Names, Flags
    <3> QED
      BY <3>1 DEF NodeMaps, MapsOf
  <2> HIDE DEF mapOf
  <2>3. \A i \in 1 .. Len(Layout) : [map |-> mapOf(i), snap |-> NoSnap] \in N
    BY <2>1, <2>2 DEF NodesOf
  <2>4. vec = [i \in 1 .. Len(Layout) |-> [map |-> mapOf(i), snap |-> NoSnap]]
    BY <2>1 DEF Init, getMaps, mapOf
  <2> HIDE DEF N
  <2> QED
    <3>1. vec \in Seq(N)
      BY <2>1, <2>3, <2>4
    <3> QED
      BY <3>1 DEF N
<1>3. vec \in Seq(Nodes)
  BY <1>2, BareNodes
<1>4. before = <<>> /\ op = Idle /\ steps = 0 /\ overread = FALSE
  BY DEF Init
<1>5. before \in Seq(Nodes) /\ Captured(before) /\ KeptBefore /\ KeptEarlier
  BY <1>4 DEF Captured, KeptBefore, KeptEarlier
<1>6. Len(world) <= MaxEvents + 1 /\ steps \in 0 .. MaxSteps
  <2>1. MaxEvents \in Nat /\ MaxSteps \in Nat
    BY SessionAssumption DEF SessionAssumption
  <2>2. Len(world) = 1
    BY DEF Init
  <2> QED
    BY <1>4, <2>1, <2>2
<1> QED
  BY <1>1, <1>3, <1>4, <1>5, <1>6 DEF SessionInv, Idle

\* What the nodes may carry depends on the history of the process alone.
LEMMA SameWorld == world' = world => Nodes' = Nodes
  BY DEF Nodes, Snapshots, Taken, BytesAt

\* The parts of a node.
LEMMA NodeParts ==
    ASSUME NEW nodes \in Seq(Nodes), NEW i \in DOMAIN nodes
    PROVE  nodes[i] \in Nodes /\ nodes[i].map \in NodeMaps /\ nodes[i].snap \in Snapshots
<1>1. nodes[i] \in Nodes
  OBVIOUS
<1> QED
  BY <1>1 DEF Nodes, NodesOf

\* A step of the client that reads past nothing.
LEMMA ClientStep ==
    ASSUME SessionInv, CaptureInv', world' = world, overread' = FALSE,
           vec' \in Seq(Nodes), before' \in Seq(Nodes),
           Captured(before)', KeptBefore', KeptEarlier', steps' \in 0 .. MaxSteps
    PROVE  SessionInv'
<1>1. Nodes' = Nodes
  BY SameWorld
<1>2. vec' \in Seq(Nodes') /\ before' \in Seq(Nodes')
  BY <1>1
<1>3. Len(world') <= MaxEvents + 1
  BY DEF SessionInv
<1> QED
  BY <1>2, <1>3 DEF SessionInv

\* What was true of a finished capture stays true when the process goes on.
LEMMA EventSession ==
    ASSUME SessionInv, NEW memory \in Memory, Event(memory)
    PROVE  SessionInv'
<1>1. CaptureInv'
  BY EventKeeps DEF SessionInv
<1>2. /\ Len(world') = Len(world) + 1 /\ Len(world) \in Nat
      /\ \A t \in 1 .. Len(world) : world'[t] = world[t]
  BY AppendProperties DEF Event, SessionInv, CaptureInv
<1>3. /\ vec' = vec /\ before' = before /\ op' = op /\ steps' = steps
      /\ overread' = overread /\ ~overread
  BY DEF Event
<1>4. Snapshots \subseteq Snapshots'
  <2> SUFFICES ASSUME NEW s, s.began \in Nat, Taken(s) PROVE Taken(s)'
    BY DEF Snapshots, Taken
  <2>1. CASE s.began > 0
    <3>1. s.ended \in 1 .. Len(world') /\ world'[s.ended] = world[s.ended]
      BY <1>2, <2>1 DEF Taken
    <3>2. \A t \in s.began .. s.ended : world'[t] = world[t]
      BY <1>2, <2>1 DEF Taken
    <3>3. \A a : BytesAt(a, s.began, s.ended) \subseteq BytesAt(a, s.began, s.ended)'
      BY <3>2 DEF BytesAt
    <3> QED
      BY <2>1, <3>1, <3>3 DEF Taken
  <2>2. CASE ~(s.began > 0)
    BY <2>2 DEF Taken
  <2> QED
    BY <2>1, <2>2
<1>5. Nodes \subseteq Nodes'
  BY <1>4 DEF Nodes, NodesOf
<1>6. vec' \in Seq(Nodes') /\ before' \in Seq(Nodes')
  <2>1. ASSUME NEW A, NEW B, A \subseteq B PROVE Seq(A) \subseteq Seq(B)
    BY <2>1
  <2> QED
    BY <1>3, <1>5, <2>1, Zenon DEF SessionInv
<1>7. Len(world') <= MaxEvents + 1
  <2>1. MaxEvents \in Nat /\ Len(world) <= MaxEvents
    BY SessionAssumption DEF SessionAssumption, Event
  <2> QED
    BY <1>2, <2>1
<1>8. Captured(before)' /\ KeptBefore' /\ KeptEarlier'
  BY <1>3 DEF SessionInv, Captured, KeptBefore, KeptEarlier, OfProcess
<1> QED
  BY <1>1, <1>3, <1>6, <1>7, <1>8 DEF SessionInv

\* Between two captures nothing is to be said of those under way.
LEMMA NoneUnderWay == op'.todo = {} => KeptEarlier'
  BY DEF KeptEarlier

LEMMA ProcessSession == SessionInv /\ Process => SessionInv'
<1> SUFFICES ASSUME SessionInv, Process PROVE SessionInv'
  OBVIOUS
<1>1. Now \in Memory
  BY DEF SessionInv, CaptureInv, Now
<1>2. CASE Write
  <2>1. PICK a \in DOMAIN Now, v \in 0 .. Base - 1 : Event([Now EXCEPT ![a] = v])
    BY <1>2 DEF Write
  <2> QED
    BY <1>1, <2>1, MemoryChanges, EventSession
<1>3. CASE Unmap
  <2>1. PICK page : Event([a \in {b \in DOMAIN Now : PageOf(b) # page} |-> Now[a]])
    BY <1>3 DEF Unmap
  <2>2. [a \in {b \in DOMAIN Now : PageOf(b) # page} |-> Now[a]] \in Memory
    BY <1>1, MemoryChanges
  <2> QED
    BY <2>1, <2>2, EventSession
<1>4. CASE Exit
  BY <1>1, <1>4, MemoryChanges, EventSession DEF Exit
<1> QED
  BY <1>2, <1>3, <1>4 DEF Process

\* The filters keep nodes that were never captured.
LEMMA SelectSession ==
    ASSUME SessionInv, NEW nodes, nodes \in Seq(NodesOf(NodeMaps, {NoSnap})),
           Select(nodes), CaptureInv'
    PROVE  SessionInv'
<1>1. /\ vec' = nodes /\ world' = world /\ before' = before /\ steps' = steps
      /\ overread' = FALSE /\ KeptEarlier'
  BY NoneUnderWay DEF Select, Fresh, Ready, SessionInv, Idle
<1>2. vec' \in Seq(Nodes) /\ \A i \in DOMAIN vec' : vec'[i].snap = NoSnap
  BY <1>1, BareNodes
<1>3. KeptBefore'
  BY <1>2 DEF KeptBefore, OfProcess
<1>4. Captured(before)' /\ before' \in Seq(Nodes) /\ steps' \in 0 .. MaxSteps
  BY <1>1 DEF SessionInv, Captured
<1> QED
  BY <1>1, <1>2, <1>3, <1>4, ClientStep

LEMMA ChooseSession == SessionInv /\ Choose => SessionInv'
<1> SUFFICES ASSUME SessionInv, Choose PROVE SessionInv'
  OBVIOUS
<1> DEFINE T == NodesOf(NodeMaps, {NoSnap})
<1>1. CaptureInv'
  BY OthersKeep DEF SessionInv
<1>2. Fresh
  BY DEF Choose, FilterSize, FilterName, FilterPerms, FilterActive, Select
<1>3. vec \in Seq(T)
  <2>1. \A n \in Nodes : n.snap = NoSnap => n \in T
    BY DEF Nodes, NodesOf
  <2>2. vec \in Seq(Nodes) /\ \A i \in DOMAIN vec : vec[i].snap = NoSnap
    BY <1>2 DEF SessionInv, Fresh
  <2> HIDE DEF T
  <2> QED
    BY <2>1, <2>2
<1>4. \A seen : active(vec, seen) \in Seq(T)
  BY <1>3, ActiveNodes DEF NodeMaps
<1> HIDE DEF T
<1>5. PICK nodes \in Seq(T) : Select(nodes)
  BY <1>3, <1>4, FiltersChoose
     DEF Choose, FilterSize, FilterName, FilterPerms, FilterActive
<1> QED
  BY <1>1, <1>5, SelectSession DEF T

\* The copy kept was captured in the past.
LEMMA EndedBefore ==
    ASSUME SessionInv, NEW i \in DOMAIN before, OfProcess(before[i])
    PROVE  /\ before[i].snap.began \in Nat /\ before[i].snap.ended \in Nat
           /\ before[i].snap.began <= before[i].snap.ended
           /\ before[i].snap.ended <= Len(world)
<1>1. before[i].snap \in Snapshots /\ before[i].snap # NoSnap /\ before[i].snap.began > 0
  BY NodeParts DEF SessionInv, OfProcess
<1> QED
  BY <1>1 DEF Snapshots, Taken

LEMMA CaptureSession == SessionInv /\ Capture => SessionInv'
<1> SUFFICES ASSUME SessionInv, Capture PROVE SessionInv'
  OBVIOUS
<1>1. CaptureInv'
  BY CaptureKeeps DEF SessionInv
<1>2. /\ world' = world /\ vec' = vec /\ before' = before /\ overread' = FALSE
      /\ steps' = steps + 1 /\ steps < MaxSteps
  BY DEF Capture, Ready, SessionInv
<1>3. steps' \in 0 .. MaxSteps
  BY <1>2, SessionAssumption DEF SessionInv, SessionAssumption
<1>4. /\ vec' \in Seq(Nodes) /\ before' \in Seq(Nodes)
      /\ Captured(before)' /\ KeptBefore'
  BY <1>2 DEF SessionInv, Captured, KeptBefore, OfProcess
<1>5. KeptEarlier'
  <2>1. op'.began = Len(world)
    BY DEF Capture
  <2> QED
    BY <1>2, <2>1, EndedBefore DEF KeptEarlier, OfProcess
<1> QED
  BY <1>1, <1>2, <1>3, <1>4, <1>5, ClientStep

\* The end of one capture leaves the beginning of the others.
LEMMA FinishLater ==
    ASSUME CaptureInv, KeptEarlier, NEW i \in op.todo, NEW bytes, Finish(i, bytes),
           before' = before
    PROVE  KeptEarlier'
<1>1. op' = Idle \/ op'.began = op.began
  BY DEF Finish, CaptureInv, CapturesUnderWay
<1>2. CASE op' = Idle
  BY <1>2, NoneUnderWay DEF Idle
<1>3. CASE op'.began = op.began
  BY <1>3 DEF KeptEarlier, OfProcess
<1> QED
  BY <1>1, <1>2, <1>3

\* A capture that ends leaves a snapshot of the node as it is now.
LEMMA FinishSession ==
    ASSUME SessionInv, CaptureInv', NEW i \in op.todo, NEW bytes \in Seq(0 .. Base - 1),
           Finish(i, bytes), UNCHANGED <<world, before, steps, overread>>,
           Len(bytes) = vec[i].map.relativeSize \/ bytes = <<>>,
           \A j \in DOMAIN bytes :
              bytes[j] \in BytesAt(tbegin(vec[i].map) + j - 1, op.began, Len(world))
    PROVE  SessionInv'
<1> DEFINE s == [data |-> bytes, map |-> vec[i].map,
                 began |-> op.began, ended |-> Len(world)]
<1>1. /\ op.began \in 1 .. Len(world) /\ Len(world) \in Nat /\ i \in DOMAIN vec
      /\ ReadSoFar(i) /\ overread = FALSE
  BY DEF SessionInv, CaptureInv, CapturesUnderWay
<1>2. PICK size \in Nat : size = vec[i].map.relativeSize
  BY <1>1 DEF ReadSoFar, Readable
<1>3. vec[i] \in Nodes /\ vec[i].map \in NodeMaps
  BY <1>1, NodeParts DEF SessionInv
<1>4. Taken(s)
  <2>1. s.map = vec[i].map /\ s.data = bytes /\ s.began = op.began /\ s.ended = Len(world)
    OBVIOUS
  <2>2. Len(bytes) <= size
    BY <1>2
  <2>3. op.began <= Len(world) /\ Len(world) \in 1 .. Len(world)
    BY <1>1
  <2> HIDE DEF s
  <2> QED
    BY <1>2, <2>1, <2>2, <2>3 DEF Taken
<1>5. s \in Snapshots
  BY <1>1, <1>3, <1>4 DEF Snapshots
<1>6. vec' = [vec EXCEPT ![i] = [map |-> vec[i].map, snap |-> s]]
  BY DEF Finish
<1> HIDE DEF s
<1>7. [map |-> vec[i].map, snap |-> s] \in Nodes
  BY <1>3, <1>5 DEF Nodes, NodesOf
<1>8. vec' \in Seq(Nodes)
  <2>1. ASSUME NEW T, NEW seq \in Seq(T), NEW k \in DOMAIN seq, NEW e \in T
        PROVE  [seq EXCEPT ![k] = e] \in Seq(T)
    OBVIOUS
  <2>2. vec \in Seq(Nodes)
    BY DEF SessionInv
  <2> QED
    BY <1>1, <1>6, <1>7, <2>1, <2>2, Zenon
<1>9. KeptBefore'
  <2> SUFFICES ASSUME NEW k \in DOMAIN vec' \cap DOMAIN before',
                      OfProcess(vec'[k]), OfProcess(before'[k])
               PROVE  /\ before'[k].snap.began <= vec'[k].snap.began
                      /\ before'[k].snap.ended <= vec'[k].snap.ended
    BY DEF KeptBefore, OfProcess
  <2>1. k \in DOMAIN vec /\ k \in DOMAIN before /\ before'[k] = before[k]
    BY <1>6
  <2>2. CASE k = i
    <3>1. vec'[k].snap.ended = Len(world) /\ vec'[k].snap.began = op.began
      BY <1>1, <1>6, <2>2 DEF s
    <3>2. before[k].snap.ended <= op.began
      BY <2>1 DEF SessionInv, KeptEarlier, OfProcess
    <3>3. /\ before[k].snap.began \in Nat /\ before[k].snap.ended \in Nat
          /\ before[k].snap.began <= before[k].snap.ended
          /\ before[k].snap.ended <= Len(world)
      BY <2>1, EndedBefore DEF OfProcess
    <3> QED
      BY <1>1, <2>1, <3>1, <3>2, <3>3
  <2>3. CASE k # i
    <3>1. vec'[k] = vec[k]
      BY <1>6, <2>1, <2>3
    <3> QED
      BY <2>1, <3>1 DEF SessionInv, KeptBefore
  <2> QED
    BY <2>2, <2>3
<1>10. /\ before' \in Seq(Nodes) /\ Captured(before)' /\ steps' \in 0 .. MaxSteps
       /\ world' = world /\ overread' = FALSE
  BY <1>1 DEF SessionInv, Captured
<1>11. KeptEarlier'
  BY FinishLater, <1>10 DEF SessionInv
<1> QED
  BY <1>8, <1>9, <1>10, <1>11, ClientStep

LEMMA ReadingSession == SessionInv /\ Reading => SessionInv'
<1> SUFFICES ASSUME SessionInv, Reading PROVE SessionInv'
  OBVIOUS
<1>1. CaptureInv' /\ CaptureInv
  BY ReadingKeeps DEF SessionInv
<1>2. ASSUME NEW i \in op.todo, ReadFails(i) PROVE SessionInv'
  <2>1. PICK none \in Seq(0 .. Base - 1) : none = <<>> /\ DOMAIN none = {}
    <3>1. \A S : <<>> \in Seq(S)
      OBVIOUS
    <3>2. PICK none : none = <<>>
      OBVIOUS
    <3>3. DOMAIN none = {}
      BY <3>2
    <3> QED
      BY <3>1, <3>2, <3>3
  <2>2. /\ Finish(i, none) /\ UNCHANGED <<world, before, steps, overread>>
        /\ none = <<>>
    BY <1>2, <2>1 DEF ReadFails, LeftAfterFailure
  <2>3. \A j \in DOMAIN none :
           none[j] \in BytesAt(tbegin(vec[i].map) + j - 1, op.began, Len(world))
    BY <2>1
  <2> QED
    BY <1>1, <2>2, <2>3, FinishSession
<1>3. ASSUME NEW i \in op.todo, ReadSome(i) PROVE SessionInv'
  <2>1. PICK k \in Copies(ReadHead(i),
                          Request(vec[i].map.relativeSize, Len(op.data[i]))) :
          LET bytes == op.data[i] \o [j \in 1 .. k |-> Now[ReadHead(i) + j - 1]]
          IN  \/ /\ Len(bytes) < vec[i].map.relativeSize
                 /\ op' = [op EXCEPT !.data[i] = bytes]
                 /\ UNCHANGED vec
              \/ /\ Len(bytes) >= vec[i].map.relativeSize
                 /\ Finish(i, bytes)
    BY <1>3 DEF ReadSome
  <2>2. PICK bytes :
          bytes = op.data[i] \o [j \in 1 .. k |-> Now[ReadHead(i) + j - 1]]
    OBVIOUS
  <2>3. /\ bytes \in Seq(0 .. Base - 1) /\ Len(bytes) <= vec[i].map.relativeSize
        /\ \A j \in DOMAIN bytes :
              bytes[j] \in BytesAt(tbegin(vec[i].map) + j - 1, op.began, Len(world))
    BY <1>1, <2>2, ReadIsReal
  <2>4. UNCHANGED <<world, before, steps, overread>>
    BY <1>3 DEF ReadSome
  <2>5. CASE UNCHANGED vec /\ op' = [op EXCEPT !.data[i] = bytes]
    <3>1. /\ world' = world /\ before' = before /\ steps' = steps /\ vec' = vec
          /\ overread' = FALSE
      BY <2>4, <2>5 DEF SessionInv
    <3>2. /\ vec' \in Seq(Nodes) /\ before' \in Seq(Nodes) /\ steps' \in 0 .. MaxSteps
          /\ Captured(before)' /\ KeptBefore'
      BY <3>1 DEF SessionInv, Captured, KeptBefore, OfProcess
    <3>3. op'.began = op.began
      BY <1>1, <2>5 DEF CaptureInv, CapturesUnderWay
    <3>4. KeptEarlier'
      BY <3>1, <3>3 DEF SessionInv, KeptEarlier, OfProcess
    <3> QED
      BY <1>1, <3>1, <3>2, <3>4, ClientStep
  <2>6. CASE Len(bytes) >= vec[i].map.relativeSize /\ Finish(i, bytes)
    <3>1. vec[i].map.relativeSize \in Nat /\ Len(bytes) \in Nat
      BY <1>1, <2>3 DEF CaptureInv, CapturesUnderWay, ReadSoFar, Readable
    <3>2. Len(bytes) = vec[i].map.relativeSize
      BY <2>3, <2>6, <3>1
    <3> QED
      BY <1>1, <2>3, <2>4, <2>6, <3>2, FinishSession
  <2> QED
    BY <2>1, <2>2, <2>5, <2>6
<1> QED
  BY <1>2, <1>3 DEF Reading

LEMMA KeepSession == SessionInv /\ Keep => SessionInv'
<1> SUFFICES ASSUME SessionInv, Keep PROVE SessionInv'
  OBVIOUS
<1>1. CaptureInv'
  BY OthersKeep DEF SessionInv
<1>2. /\ world' = world /\ vec' = vec /\ before' = vec /\ steps' = steps
      /\ overread' = FALSE /\ Captured(vec) /\ KeptEarlier'
  BY NoneUnderWay DEF Keep, Ready, SessionInv, Idle
<1>3. KeptBefore'
  <2> SUFFICES ASSUME NEW i \in DOMAIN vec, OfProcess(vec[i])
               PROVE  /\ vec[i].snap.began <= vec[i].snap.began
                      /\ vec[i].snap.ended <= vec[i].snap.ended
    BY <1>2 DEF KeptBefore, OfProcess
  <2>1. vec[i].snap \in Snapshots /\ vec[i].snap # NoSnap
    BY NodeParts DEF SessionInv, OfProcess
  <2> QED
    BY <2>1 DEF Snapshots
<1>4. /\ vec' \in Seq(Nodes) /\ before' \in Seq(Nodes) /\ steps' \in 0 .. MaxSteps
      /\ Captured(before)'
  BY <1>2 DEF SessionInv, Captured
<1> QED
  BY <1>1, <1>2, <1>3, <1>4, ClientStep

LEMMA WidenSession == SessionInv /\ Widen => SessionInv'
<1> SUFFICES ASSUME SessionInv, Widen PROVE SessionInv'
  OBVIOUS
<1> DEFINE wider(n) == [n EXCEPT !.map = PartOf(@, -Reach, @.relativeSize + Reach)]
<1>1. CaptureInv'
  BY OthersKeep DEF SessionInv
<1>2. /\ world' = world /\ vec' = [i \in DOMAIN vec |-> wider(vec[i])]
      /\ before' = before /\ steps' = steps /\ overread' = FALSE /\ KeptEarlier'
  BY NoneUnderWay DEF Widen, Ready, SessionInv, Idle
<1>3. ASSUME NEW i \in DOMAIN vec
      PROVE  wider(vec[i]) \in Nodes /\ wider(vec[i]).snap = vec[i].snap
  <2>1. vec[i] \in Nodes /\ vec[i].map \in NodeMaps
    BY <1>3, NodeParts DEF SessionInv
  <2>2. PICK size \in Int : size = vec[i].map.relativeSize + Reach
    BY <2>1, SessionAssumption DEF SessionAssumption, NodeMaps, MapsOf
  <2>3. -Reach \in Int
    BY SessionAssumption DEF SessionAssumption
  <2>4. PartOf(vec[i].map, -Reach, size) \in NodeMaps
    BY <2>1, <2>3, PartOfMap DEF NodeMaps
  <2>5. wider(vec[i]) = [vec[i] EXCEPT !.map = PartOf(vec[i].map, -Reach, size)]
    BY <2>2
  <2> HIDE DEF wider
  <2> QED
    BY <2>1, <2>4, <2>5 DEF Nodes, NodesOf
<1> HIDE DEF wider
<1>4. vec' \in Seq(Nodes) /\ DOMAIN vec' = DOMAIN vec
      /\ \A i \in DOMAIN vec : vec'[i].snap = vec[i].snap
  <2>1. DOMAIN vec = 1 .. Len(vec) /\ Len(vec) \in Nat
    BY DEF SessionInv
  <2> QED
    BY <1>2, <1>3, <2>1
<1>5. KeptBefore'
  BY <1>2, <1>4 DEF SessionInv, KeptBefore, OfProcess
<1>6. before' \in Seq(Nodes) /\ steps' \in 0 .. MaxSteps /\ Captured(before)'
  BY <1>2 DEF SessionInv, Captured
<1> QED
  BY <1>1, <1>2, <1>4, <1>5, <1>6, ClientStep

LEMMA FromBufferSession ==
    ASSUME SessionInv, NEW bytes \in Buffers, FromBuffer(bytes)
    PROVE  SessionInv'
<1> DEFINE m == [parentAddress |-> 0, parentSize |-> Len(bytes),
                 relativeAddress |-> 0, relativeSize |-> Len(bytes),
                 regionName |-> <<>>, perms |-> {}]
           s == [data |-> bytes, map |-> m, began |-> 0, ended |-> 0]
<1>1. CaptureInv'
  BY OthersKeep DEF SessionInv
<1>2. bytes \in Seq(0 .. Base - 1) /\ Len(bytes) \in Nat
  <2>1. bytes \in Seq(0 .. Base - 1)
    BY SessionAssumption DEF SessionAssumption
  <2> QED
    BY <2>1
<1>3. /\ world' = world /\ vec' = <<[map |-> m, snap |-> s]>>
      /\ before' = before /\ steps' = steps /\ overread' = FALSE /\ KeptEarlier'
  BY NoneUnderWay DEF FromBuffer, Ready, SessionInv, Idle
<1>4. m \in NodeMaps
  <2>1. <<>> \in Names /\ {} \in Flags
    BY DEF Names, Flags
  <2> QED
    BY <1>2, <2>1 DEF NodeMaps, MapsOf
<1>5. s \in Snapshots
  <2>1. Taken(s)
    BY <1>2 DEF Taken
  <2> HIDE DEF m
  <2> QED
    BY <1>2, <1>4, <2>1 DEF Snapshots
<1>6. [map |-> m, snap |-> s] \in Nodes
  <2> HIDE DEF m, s
  <2> QED
    BY <1>4, <1>5 DEF Nodes, NodesOf
<1>7. vec' \in Seq(Nodes)
  <2> HIDE DEF m, s
  <2> QED
    BY <1>3, <1>6
<1>8. \A i \in DOMAIN vec' : ~(vec'[i].snap.began > 0)
  BY <1>3
<1>9. KeptBefore'
  BY <1>8 DEF KeptBefore, OfProcess
<1>10. before' \in Seq(Nodes) /\ steps' \in 0 .. MaxSteps /\ Captured(before)'
  BY <1>3 DEF SessionInv, Captured
<1> QED
  BY <1>1, <1>3, <1>7, <1>9, <1>10, ClientStep

-----------------------------------------------------------------------------
(* The scans.                                                               *)

\* The buffer of a captured node.
LEMMA SpanTyped ==
    ASSUME NEW n \in Nodes, n.snap # NoSnap
    PROVE  /\ span(n) \in Seq(0 .. Base - 1) /\ Len(span(n)) \in Nat
           /\ DOMAIN span(n) = 1 .. Len(span(n))
<1>1. span(n) \in Seq(0 .. Base - 1)
  BY DEF Nodes, NodesOf, Snapshots, span
<1> QED
  BY <1>1

\* The hits of all nodes are nodes the client may have.
LEMMA FoundSession ==
    ASSUME SessionInv, CaptureInv', ScanReady, NEW hits, Found(hits),
           hits = [i \in DOMAIN vec |-> hits[i]],
           \A i \in DOMAIN vec : hits[i] \in Seq(Nodes)
    PROVE  SessionInv'
<1>1. /\ world' = world /\ vec' = FlattenSeq(hits) /\ before' = <<>>
      /\ steps' = steps + 1 /\ steps < MaxSteps /\ overread' = FALSE /\ KeptEarlier'
  BY NoneUnderWay DEF Found, ScanReady, Ready, SessionInv, consolidate, Idle
<1>2. hits \in Seq(Seq(Nodes))
  <2>1. DOMAIN vec = 1 .. Len(vec) /\ Len(vec) \in Nat
    BY DEF SessionInv
  <2> DEFINE T == Seq(Nodes)
  <2>2. \A i \in 1 .. Len(vec) : hits[i] \in T
    BY <2>1
  <2> HIDE DEF T
  <2>3. hits \in Seq(T)
    BY <2>1, <2>2
  <2> QED
    BY <2>3 DEF T
<1>3. vec' \in Seq(Nodes)
  BY <1>1, <1>2, Flattened
<1>4. before' \in Seq(Nodes) /\ Captured(before)' /\ KeptBefore'
  BY <1>1 DEF Captured, KeptBefore
<1>5. steps' \in 0 .. MaxSteps
  BY <1>1, SessionAssumption DEF SessionInv, SessionAssumption
<1> QED
  BY <1>1, <1>3, <1>4, <1>5, ClientStep

\* What a scan of one node finds.
LEMMA HitsOfNode ==
    ASSUME NEW n \in Nodes, n.snap # NoSnap
    PROVE  /\ \A other : \A size \in CompareSizes :
                 /\ findChanged(n, other, size) \in Seq(Nodes)
                 /\ findUnchanged(n, other, size) \in Seq(Nodes)
           /\ \A other, d : /\ findNumChanged(n, other, d) \in Seq(Nodes)
                            /\ findNumUnchanged(n, other, d) \in Seq(Nodes)
           /\ \A low, high : findNumWithinRange(n, low, high) \in Seq(Nodes)
           /\ \A number : findNumExact(n, number) \in Seq(Nodes)
           /\ \A str \in Strings : \A beyond : findString(n, str, beyond) \in Seq(Nodes)
<1>1. /\ Len(span(n)) \in Nat /\ DOMAIN span(n) = 1 .. Len(span(n))
      /\ n \in NodesOf(NodeMaps, Snapshots) /\ n.snap \in Snapshots
  BY SpanTyped DEF Nodes, NodesOf
<1>2. Seq(NodesOf(NodeMaps, {NoSnap})) \subseteq Seq(Nodes)
  BY BareNodes
<1>3. Seq(NodesOf(NodeMaps, {n.snap})) \subseteq Seq(Nodes)
  <2>1. NodesOf(NodeMaps, {n.snap}) \subseteq Nodes
    BY <1>1 DEF Nodes, NodesOf
  <2>2. ASSUME NEW A, NEW B, A \subseteq B PROVE Seq(A) \subseteq Seq(B)
    BY <2>2
  <2> QED
    BY <2>1, <2>2, Zenon
<1>4. ASSUME NEW other, NEW size \in CompareSizes
      PROVE  /\ findChanged(n, other, size) \in Seq(Nodes)
             /\ findUnchanged(n, other, size) \in Seq(Nodes)
  <2>1. size \in Nat \ {0}
    BY SessionAssumption DEF SessionAssumption
  <2>2. \A same : findBlocks(n, other, size, same) \in Seq(NodesOf(NodeMaps, {NoSnap}))
    BY <1>1, <2>1, BlockScans DEF NodeMaps
  <2> QED
    BY <1>2, <2>2, Zenon DEF findChanged, findUnchanged
<1>5. /\ \A other, d :
            /\ findNumChanged(n, other, d) \in Seq(NodesOf(NodeMaps, {NoSnap}))
            /\ findNumUnchanged(n, other, d) \in Seq(NodesOf(NodeMaps, {NoSnap}))
      /\ \A low, high : findNumWithinRange(n, low, high) \in Seq(NodesOf(NodeMaps, {NoSnap}))
      /\ \A number : findNumExact(n, number) \in Seq(NodesOf(NodeMaps, {n.snap}))
  BY <1>1, NumberScans DEF NodeMaps
<1>6. ASSUME NEW str \in Strings, NEW beyond
      PROVE  findString(n, str, beyond) \in Seq(Nodes)
  <2>1. str \in Seq(0 .. Base - 1)
    BY SessionAssumption DEF SessionAssumption
  <2>2. findString(n, str, beyond) \in Seq(NodesOf(NodeMaps, {n.snap}))
    BY <1>1, <2>1, StringScan DEF NodeMaps
  <2> QED
    BY <1>3, <2>2, Zenon
<1> QED
  BY <1>2, <1>3, <1>4, <1>5, <1>6, Zenon

\* Reading past the end changes nothing that the client has.
LEMMA OverreadSession ==
    ASSUME SessionInv, CaptureInv', PairReady, Overread
    PROVE  SessionInv'
<1>1. /\ world' = world /\ vec' = vec /\ before' = before /\ op' = op
      /\ steps' = steps + 1 /\ steps < MaxSteps /\ overread' = TRUE /\ op.todo = {}
  BY DEF Overread, PairReady, ScanReady, Ready, Idle
<1>2. steps' \in 0 .. MaxSteps
  BY <1>1, SessionAssumption DEF SessionInv, SessionAssumption
<1>3. vec' \in Seq(Nodes') /\ before' \in Seq(Nodes')
  BY <1>1, SameWorld DEF SessionInv
<1>4. Captured(before)' /\ KeptBefore' /\ KeptEarlier'
  BY <1>1, NoneUnderWay DEF SessionInv, Captured, KeptBefore, OfProcess
<1>5. Len(world') <= MaxEvents + 1 /\ overread' \in BOOLEAN /\ op'.todo = {}
  BY <1>1 DEF SessionInv
<1> QED
  BY <1>2, <1>3, <1>4, <1>5 DEF SessionInv

LEMMA ScanSession == SessionInv /\ Scan => SessionInv'
<1> SUFFICES ASSUME SessionInv, Scan PROVE SessionInv'
  OBVIOUS
<1>1. CaptureInv'
  BY OthersKeep DEF SessionInv
<1>2. ASSUME NEW over, NEW hits, PairReady, Outcome(over, hits),
             hits = [i \in DOMAIN vec |-> hits[i]],
             \A i \in DOMAIN vec : hits[i] \in Seq(Nodes)
      PROVE  SessionInv'
  <2>1. CASE Found(hits)
    BY <1>1, <1>2, <2>1, FoundSession DEF PairReady
  <2>2. CASE over # {} /\ Overread
    BY <1>1, <1>2, <2>2, OverreadSession
  <2> QED
    BY <1>2, <2>1, <2>2 DEF Outcome
<1>3. ASSUME PairReady, NEW i \in DOMAIN vec
      PROVE  before[i] \in Nodes /\ before[i].snap # NoSnap
  <2>1. i \in DOMAIN before
    BY <1>3 DEF SessionInv, PairReady
  <2> QED
    BY <2>1, NodeParts DEF SessionInv, Captured
<1>4. ASSUME ScanReady, NEW i \in DOMAIN vec
      PROVE  vec[i] \in Nodes /\ vec[i].snap # NoSnap
  BY <1>4, NodeParts DEF SessionInv, ScanReady, Captured
<1>5. ASSUME NEW size \in CompareSizes, ScanChanged(size) \/ ScanUnchanged(size)
      PROVE  SessionInv'
  <2>1. PairReady
    BY <1>5 DEF ScanChanged, ScanUnchanged
  <2>2. \A i \in DOMAIN vec : /\ findChanged(before[i], vec[i], size) \in Seq(Nodes)
                              /\ findUnchanged(before[i], vec[i], size) \in Seq(Nodes)
    BY <1>3, <2>1, HitsOfNode
  <2>3. CASE ScanChanged(size)
    <3> DEFINE hits == [i \in DOMAIN vec |-> findChanged(before[i], vec[i], size)]
    <3>1. /\ hits = [i \in DOMAIN vec |-> hits[i]]
          /\ \A i \in DOMAIN vec : hits[i] \in Seq(Nodes)
      BY <2>2
    <3>2. Outcome(BlocksOver, hits)
      BY <2>3 DEF ScanChanged
    <3> HIDE DEF hits
    <3> QED
      BY <1>2, <2>1, <3>1, <3>2
  <2>4. CASE ScanUnchanged(size)
    <3> DEFINE hits == [i \in DOMAIN vec |-> findUnchanged(before[i], vec[i], size)]
    <3>1. /\ hits = [i \in DOMAIN vec |-> hits[i]]
          /\ \A i \in DOMAIN vec : hits[i] \in Seq(Nodes)
      BY <2>2
    <3>2. Outcome(BlocksOver, hits)
      BY <2>4 DEF ScanUnchanged
    <3> HIDE DEF hits
    <3> QED
      BY <1>2, <2>1, <3>1, <3>2
  <2> QED
    BY <1>5, <2>3, <2>4
<1>6. ASSUME NEW d, ScanNumChanged(d) \/ ScanNumUnchanged(d)
      PROVE  SessionInv'
  <2>1. PairReady
    BY <1>6 DEF ScanNumChanged, ScanNumUnchanged
  <2>2. \A i \in DOMAIN vec : /\ findNumChanged(before[i], vec[i], d) \in Seq(Nodes)
                              /\ findNumUnchanged(before[i], vec[i], d) \in Seq(Nodes)
    BY <1>3, <2>1, HitsOfNode
  <2>3. CASE ScanNumChanged(d)
    <3> DEFINE hits == [i \in DOMAIN vec |-> findNumChanged(before[i], vec[i], d)]
    <3>1. /\ hits = [i \in DOMAIN vec |-> hits[i]]
          /\ \A i \in DOMAIN vec : hits[i] \in Seq(Nodes)
      BY <2>2
    <3>2. Outcome(SlotsOver, hits)
      BY <2>3 DEF ScanNumChanged
    <3> HIDE DEF hits
    <3> QED
      BY <1>2, <2>1, <3>1, <3>2
  <2>4. CASE ScanNumUnchanged(d)
    <3> DEFINE hits == [i \in DOMAIN vec |-> findNumUnchanged(before[i], vec[i], d)]
    <3>1. /\ hits = [i \in DOMAIN vec |-> hits[i]]
          /\ \A i \in DOMAIN vec : hits[i] \in Seq(Nodes)
      BY <2>2
    <3>2. Outcome(SlotsOver, hits)
      BY <2>4 DEF ScanNumUnchanged
    <3> HIDE DEF hits
    <3> QED
      BY <1>2, <2>1, <3>1, <3>2
  <2> QED
    BY <1>6, <2>3, <2>4
<1>7. ASSUME NEW low, NEW high, ScanNumWithinRange(low, high)
      PROVE  SessionInv'
  <2> DEFINE hits == [i \in DOMAIN vec |-> findNumWithinRange(vec[i], low, high)]
  <2>1. ScanReady /\ Found(hits)
    BY <1>7 DEF ScanNumWithinRange
  <2>2. /\ hits = [i \in DOMAIN vec |-> hits[i]]
        /\ \A i \in DOMAIN vec : hits[i] \in Seq(Nodes)
    BY <1>4, <2>1, HitsOfNode
  <2> HIDE DEF hits
  <2> QED
    BY <1>1, <2>1, <2>2, FoundSession
<1>8. ASSUME NEW number, ScanNumExact(number)
      PROVE  SessionInv'
  <2> DEFINE hits == [i \in DOMAIN vec |-> findNumExact(vec[i], number)]
  <2>1. ScanReady /\ Found(hits)
    BY <1>8 DEF ScanNumExact
  <2>2. /\ hits = [i \in DOMAIN vec |-> hits[i]]
        /\ \A i \in DOMAIN vec : hits[i] \in Seq(Nodes)
    BY <1>4, <2>1, HitsOfNode
  <2> HIDE DEF hits
  <2> QED
    BY <1>1, <2>1, <2>2, FoundSession
<1>9. ASSUME NEW str \in Strings, NEW beyond, ScanString(str, beyond)
      PROVE  SessionInv'
  <2> DEFINE hits == [i \in DOMAIN vec |-> findString(vec[i], str, beyond)]
  <2>1. ScanReady /\ Found(hits)
    BY <1>9 DEF ScanString
  <2>2. /\ hits = [i \in DOMAIN vec |-> hits[i]]
        /\ \A i \in DOMAIN vec : hits[i] \in Seq(Nodes)
    BY <1>4, <2>1, HitsOfNode
  <2> HIDE DEF hits
  <2> QED
    BY <1>1, <2>1, <2>2, FoundSession
<1> QED
  BY <1>5, <1>6, <1>7, <1>8, <1>9 DEF Scan

LEMMA NextSession == SessionInv /\ [Next]_vars => SessionInv'
<1> SUFFICES ASSUME SessionInv, [Next]_vars PROVE SessionInv'
  OBVIOUS
<1>1. CASE UNCHANGED vars
  <2>1. /\ world' = world /\ vec' = vec /\ before' = before /\ op' = op
        /\ steps' = steps /\ overread' = overread
    BY <1>1 DEF vars
  <2>2. CaptureInv'
    BY <1>1, NextCaptureInv DEF SessionInv
  <2>3. vec' \in Seq(Nodes') /\ before' \in Seq(Nodes')
    BY <2>1, SameWorld DEF SessionInv
  <2> QED
    BY <2>1, <2>2, <2>3 DEF SessionInv, Captured, KeptBefore, KeptEarlier, OfProcess
<1>2. CASE \E bytes \in Buffers : FromBuffer(bytes)
  BY <1>2, FromBufferSession
<1>3. CASE Next
  BY <1>2, <1>3, ProcessSession, ChooseSession, CaptureSession, ReadingSession,
     KeepSession, WidenSession, ScanSession DEF Next
<1> QED
  BY <1>1, <1>3

\* The nodes of the client carry no other snapshots than finished captures of the
\* process, whole or empty, or buffers it brought, whatever it filters, captures,
\* widens and scans in whatever order.
THEOREM SessionInvariant == Spec => []SessionInv
  BY InitSession, NextSession, PTL DEF Spec

\* readProcess never has more of a map than the map is long, and what the scans
\* are given never is longer than the map it was read from.
THEOREM SessionTypeCorrect == Spec => []SessionTypeOK
  BY SessionInvariant, SessionInvImpliesTypeOK, PTL

-----------------------------------------------------------------------------
(* Scans of two buffers stay inside them.                                   *)

\* Two captures of one map that are not empty are equally long.
LEMMA WholePairs ==
    ASSUME SessionInv, PairReady, NEW i \in DOMAIN vec, BothWhole(i)
    PROVE  /\ before[i] \in Nodes /\ before[i].snap # NoSnap
           /\ Len(span(before[i])) = Len(span(vec[i])) /\ Len(span(vec[i])) \in Nat
<1>1. i \in DOMAIN before
  BY DEF SessionInv, PairReady
<1>2. /\ before[i] \in Nodes /\ before[i].snap \in Snapshots
      /\ vec[i] \in Nodes /\ vec[i].snap \in Snapshots
  BY <1>1, NodeParts DEF SessionInv
<1>3. /\ before[i].snap # NoSnap /\ before[i].snap.began > 0
      /\ vec[i].snap # NoSnap /\ vec[i].snap.began > 0
      /\ before[i].snap.map = vec[i].snap.map
      /\ before[i].snap.data # <<>> /\ vec[i].snap.data # <<>>
  BY DEF BothWhole, OfProcess, span
<1>4. Taken(before[i].snap) /\ Taken(vec[i].snap)
  BY <1>2, <1>3 DEF Snapshots
<1>5. /\ Len(before[i].snap.data) = before[i].snap.map.relativeSize
      /\ Len(vec[i].snap.data) = vec[i].snap.map.relativeSize
  BY <1>3, <1>4 DEF Taken
<1>6. Len(span(vec[i])) \in Nat
  BY <1>2, <1>3, SpanTyped
<1> QED
  BY <1>2, <1>3, <1>5, <1>6 DEF span

\* A slot lies inside the first buffer, so it lies inside one as long.
LEMMA NothingOver ==
    ASSUME SessionInv, PairReady, \A i \in DOMAIN vec : BothWhole(i)
    PROVE  BlocksOver = {} /\ SlotsOver = {}
<1>1. BlocksOver = {}
  <2>1. ASSUME NEW i \in DOMAIN vec PROVE ~BlocksOverread(before[i], vec[i])
    BY WholePairs DEF BlocksOverread
  <2> QED
    BY <2>1 DEF BlocksOver
<1>2. ASSUME NEW i \in DOMAIN vec, SlotsOverread(before[i], vec[i]) PROVE FALSE
  <2>1. /\ before[i] \in Nodes /\ before[i].snap # NoSnap
        /\ Len(span(before[i])) = Len(span(vec[i])) /\ Len(span(vec[i])) \in Nat
    BY WholePairs
  <2>2. PICK o \in ToSet(NumSlots(before[i])) : o + NumSize > Len(span(vec[i]))
    BY <1>2 DEF SlotsOverread
  <2>3. NumSlots(before[i]) \in Seq(Inside(Len(span(before[i]))))
    <3>1. before[i] \in NodesOf(MapsOf(Names, Flags), Snapshots)
      BY <2>1 DEF Nodes, NodeMaps
    <3> QED
      BY <2>1, <3>1, NumberScans
  <2>4. ASSUME NEW T, NEW seq \in Seq(T), NEW x \in ToSet(seq) PROVE x \in T
    BY DEF ToSet
  <2>5. o \in Inside(Len(span(before[i])))
    BY <2>2, <2>3, <2>4, Zenon
  <2>6. o \in Int /\ o + NumSize < Len(span(before[i])) /\ NumSize \in Nat
    BY <2>5, NumberAssumption DEF Inside, NumberAssumption
  <2>7. PICK end \in Int : end = o + NumSize
    BY <2>6
  <2> QED
    BY <2>1, <2>2, <2>6, <2>7
<1> QED
  BY <1>1, <1>2 DEF SlotsOver

\* Where no scan would read past the end, nothing does.
LEMMA OnlyOverreads ==
    ASSUME Ready, [Next]_vars, BlocksOver = {}, SlotsOver = {}
    PROVE  ~overread'
<1>1. ~overread
  BY DEF Ready
<1>2. CASE UNCHANGED vars
  BY <1>1, <1>2 DEF vars
<1>3. CASE Process
  BY <1>1, <1>3 DEF Process, Write, Unmap, Exit, Event
<1>4. CASE Choose
  BY <1>1, <1>4 DEF Choose, FilterSize, FilterName, FilterPerms, FilterActive, Select
<1>5. CASE Capture \/ Keep \/ Widen \/ \E bytes \in Buffers : FromBuffer(bytes)
  BY <1>1, <1>5 DEF Capture, Keep, Widen, FromBuffer
<1>6. CASE Reading
  BY <1>1, <1>6 DEF Reading, ReadSome, ReadFails
<1>7. CASE Scan
  BY <1>1, <1>7 DEF Scan, ScanChanged, ScanUnchanged, ScanNumChanged, ScanNumUnchanged,
     ScanNumWithinRange, ScanNumExact, ScanString, Outcome, Found
<1> QED
  BY <1>2, <1>3, <1>4, <1>5, <1>6, <1>7 DEF Next

\* Whatever the process lost and whatever the client copied, captured again or
\* moved: findChanged, findUnchanged, findNumChanged and findNumUnchanged read
\* inside two buffers of one map that are not empty.
THEOREM WholePairsCorrect == Spec => WholePairsInBounds
<1>1. SessionInv /\ [Next]_vars
        => [(PairReady /\ \A i \in DOMAIN vec : BothWhole(i)) => ~overread']_vars
  BY NothingOver, OnlyOverreads DEF PairReady, ScanReady
<1> QED
  BY <1>1, SessionInvariant, PTL DEF Spec, WholePairsInBounds

-----------------------------------------------------------------------------
(* What findChanged says of two captures of one node.                        *)

\* The client gets the hits of all nodes, and no others.
LEMMA AllHits ==
    ASSUME SessionInv, NEW hits, DOMAIN hits = DOMAIN vec,
           hits = [i \in DOMAIN vec |-> hits[i]],
           \A i \in DOMAIN vec : hits[i] \in Seq(Nodes),
           vec' = FlattenSeq(hits)
    PROVE  /\ \A h \in ToSet(vec') : \E i \in DOMAIN vec : \E k \in DOMAIN hits[i] :
                 h = hits[i][k]
           /\ \A i \in DOMAIN vec : \A k \in DOMAIN hits[i] : hits[i][k] \in ToSet(vec')
<1> DEFINE T == Seq(Nodes)
<1>1. DOMAIN vec = 1 .. Len(vec) /\ Len(vec) \in Nat
  BY DEF SessionInv
<1>2. hits = [i \in 1 .. Len(vec) |-> hits[i]] /\ \A i \in 1 .. Len(vec) : hits[i] \in T
  BY <1>1
<1> HIDE DEF T
<1>3. hits \in Seq(T)
  BY <1>1, <1>2
<1>4. /\ \A i \in DOMAIN hits : Within(hits[i], vec')
      /\ \A j \in DOMAIN vec' : \E i \in DOMAIN hits : \E k \in DOMAIN hits[i] :
            vec'[j] = hits[i][k]
  <2>1. \A i \in DOMAIN hits : Within(hits[i], FlattenSeq(hits))
    BY <1>3, Flattened DEF T
  <2>2. \A j \in DOMAIN FlattenSeq(hits) : \E i \in DOMAIN hits : \E k \in DOMAIN hits[i] :
           FlattenSeq(hits)[j] = hits[i][k]
    BY <1>3, FlattenedElements DEF T
  <2> QED
    BY <2>1, <2>2, Zenon
<1>5. ASSUME NEW h \in ToSet(vec')
      PROVE  \E i \in DOMAIN vec : \E k \in DOMAIN hits[i] : h = hits[i][k]
  <2>1. PICK j \in DOMAIN vec' : h = vec'[j]
    BY DEF ToSet
  <2> QED
    BY <1>4, <2>1
<1>6. ASSUME NEW i \in DOMAIN vec, NEW k \in DOMAIN hits[i] PROVE hits[i][k] \in ToSet(vec')
  <2>1. PICK p \in DOMAIN vec' : vec'[p] = hits[i][k]
    BY <1>4 DEF Within
  <2> QED
    BY <2>1 DEF ToSet
<1> QED
  BY <1>5, <1>6

LEMMA TwoElements ==
    ASSUME NEW S, NEW low \in Int, NEW high \in Int, S \subseteq low .. high,
           NEW x \in S, NEW y \in S, x # y
    PROVE  Cardinality(S) > 1
<1>1. IsFiniteSet(S) /\ Cardinality(S) \in Nat
  BY FS_Interval, FS_Subset, FS_CardinalityType
<1>2. Cardinality(S) # 0
  BY <1>1, FS_EmptySet
<1>3. Cardinality(S) # 1
  <2>1. ~ \E z : S = {z}
    OBVIOUS
  <2> QED
    BY <1>1, <2>1, FS_Singleton
<1> QED
  BY <1>1, <1>2, <1>3

\* The bytes between two moments of the history.
LEMMA HistoryBytes ==
    ASSUME CaptureInv, NEW a, NEW from \in 1 .. Len(world), NEW to \in 1 .. Len(world)
    PROVE  BytesAt(a, from, to) \subseteq 0 .. Base - 1
<1>1. ASSUME NEW t \in from .. to, a \in DOMAIN world[t] PROVE world[t][a] \in 0 .. Base - 1
  <2>1. t \in 1 .. Len(world)
    OBVIOUS
  <2>2. world[t] \in Memory
    BY <2>1 DEF CaptureInv
  <2>3. PICK D \in SUBSET Nat : world[t] \in [D -> 0 .. Base - 1]
    BY <2>2 DEF Memory
  <2> QED
    BY <1>1, <2>3
<1> QED
  BY <1>1 DEF BytesAt

LEMMA BytesOfMore ==
    ASSUME NEW a, NEW from \in Int, NEW to \in Int, NEW first \in Int, NEW last \in Int,
           first <= from, to <= last
    PROVE  BytesAt(a, from, to) \subseteq BytesAt(a, first, last)
<1>1. \A t \in from .. to : t \in first .. last
  OBVIOUS
<1> QED
  BY <1>1 DEF BytesAt

\* The address was written from the one capture of the node to the other, and it
\* stayed at one byte in the one and at another in the other.
Written(i, a) == Cardinality(BytesAt(a, before[i].snap.began, vec[i].snap.ended)) > 1

Moved(i, a) ==
    \E x, y \in 0 .. Base - 1 :
        /\ x # y /\ span(vec[i]) # <<>>
        /\ StayedThere(before[i], a, x)
        /\ StayedThere(vec[i], a, y)

\* Two captures of one node, one after the other.
LEMMA PairTaken ==
    ASSUME SessionInv, PairReady, NEW i \in DOMAIN vec, ComparablePair(i),
           NEW old, NEW new, NEW m, old = before[i].snap, new = vec[i].snap, m = vec[i].map
    PROVE  /\ before[i] \in Nodes /\ before[i].map = m
           /\ old.map = m /\ new.map = m /\ Taken(old) /\ Taken(new)
           /\ old.began \in Nat \ {0} /\ old.ended \in Nat
           /\ new.began \in Nat \ {0} /\ new.ended \in Nat
           /\ old.began <= new.began /\ old.ended <= new.ended
           /\ old.data \in Seq(0 .. Base - 1) /\ new.data \in Seq(0 .. Base - 1)
           /\ Len(old.data) = Len(new.data) /\ m \in NodeMaps
<1>1. i \in DOMAIN before
  BY DEF SessionInv, PairReady
<1>2. /\ before[i] \in Nodes /\ vec[i] \in Nodes /\ m \in NodeMaps
      /\ old \in Snapshots /\ new \in Snapshots
  BY <1>1, NodeParts DEF SessionInv
<1>3. /\ old # NoSnap /\ new # NoSnap /\ old.map = m /\ new.map = m /\ before[i].map = m
      /\ old.began > 0 /\ new.began > 0 /\ Len(old.data) = Len(new.data)
  BY DEF ComparablePair, OneMap, Faithful, OfProcess, span
<1>4. old.began <= new.began /\ old.ended <= new.ended
  BY <1>1 DEF SessionInv, KeptBefore, ComparablePair, OneMap, Faithful
<1> QED
  BY <1>2, <1>3, <1>4 DEF Snapshots

\* A byte that is another one in the later capture was written, and one that was
\* moved is another one.
LEMMA PairBytes ==
    ASSUME SessionInv, PairReady, NEW i \in DOMAIN vec, ComparablePair(i)
    PROVE  /\ \A j \in 1 .. Len(span(before[i])) :
                 DiffersAt(before[i], vec[i], j) => Written(i, tbegin(vec[i].map) + j - 1)
           /\ \A a \in Addresses(vec[i].map) :
                 Moved(i, a) => \E j \in 1 .. Len(span(before[i])) :
                    a = tbegin(vec[i].map) + j - 1 /\ DiffersAt(before[i], vec[i], j)
           /\ \A j \in 1 .. Len(span(before[i])) :
                 tbegin(vec[i].map) + j - 1 \in Addresses(vec[i].map)
<1>1. PICK old, new, m : old = before[i].snap /\ new = vec[i].snap /\ m = vec[i].map
  OBVIOUS
<1>2. /\ old.map = m /\ new.map = m /\ Taken(old) /\ Taken(new)
      /\ old.began \in Nat \ {0} /\ old.ended \in Nat
      /\ new.began \in Nat \ {0} /\ new.ended \in Nat
      /\ old.began <= new.began /\ old.ended <= new.ended
      /\ old.data \in Seq(0 .. Base - 1) /\ new.data \in Seq(0 .. Base - 1)
      /\ Len(old.data) = Len(new.data) /\ m \in NodeMaps
  BY <1>1, PairTaken
<1>3. PICK length \in Nat : /\ length = Len(old.data)
                            /\ DOMAIN old.data = 1 .. length /\ DOMAIN new.data = 1 .. length
  BY <1>2
<1>4. PICK start \in Int, size \in Nat :
        /\ start = tbegin(m) /\ size = m.relativeSize
        /\ Addresses(m) = start .. start + size - 1
  <2>1. m.relativeSize \in Nat
    BY <1>2 DEF Taken
  <2>2. PICK p \in Int, r \in Int : p = m.parentAddress /\ r = m.relativeAddress
    BY <1>2 DEF NodeMaps, MapsOf
  <2>3. PICK start \in Int, size \in Nat : start = p + r /\ size = m.relativeSize
    BY <2>1, <2>2
  <2>4. tbegin(m) = start /\ tend(m) = start + size
    BY <2>2, <2>3 DEF tbegin, tend
  <2> QED
    BY <2>3, <2>4 DEF Addresses
<1>5. length <= size /\ (new.data # <<>> => length = size)
  BY <1>2, <1>3, <1>4 DEF Taken
<1>6. \A j \in 1 .. length :
         /\ old.data[j] \in BytesAt(start + j - 1, old.began, old.ended)
         /\ new.data[j] \in BytesAt(start + j - 1, new.began, new.ended)
  <2>1. tbegin(old.map) = start /\ tbegin(new.map) = start /\ old.began > 0 /\ new.began > 0
    BY <1>2, <1>4
  <2>2. /\ \A j \in DOMAIN old.data :
              old.data[j] \in BytesAt(tbegin(old.map) + j - 1, old.began, old.ended)
        /\ \A j \in DOMAIN new.data :
              new.data[j] \in BytesAt(tbegin(new.map) + j - 1, new.began, new.ended)
    BY <1>2, <2>1 DEF Taken
  <2> QED
    BY <1>3, <2>1, <2>2
<1>7. ASSUME NEW j \in 1 .. length, old.data[j] # new.data[j]
      PROVE  Cardinality(BytesAt(start + j - 1, old.began, new.ended)) > 1
  <2>1. PICK a : a = start + j - 1
    OBVIOUS
  <2>2. /\ BytesAt(a, old.began, old.ended) \subseteq BytesAt(a, old.began, new.ended)
        /\ BytesAt(a, new.began, new.ended) \subseteq BytesAt(a, old.began, new.ended)
    BY <1>2, BytesOfMore
  <2>3. BytesAt(a, old.began, new.ended) \subseteq 0 .. Base - 1
    <3>1. old.began \in 1 .. Len(world) /\ new.ended \in 1 .. Len(world) /\ CaptureInv
      BY <1>2 DEF Taken, SessionInv
    <3> QED
      BY <3>1, HistoryBytes
  <2>4. Base - 1 \in Int
    BY NumberAssumption DEF NumberAssumption
  <2>5. /\ old.data[j] \in BytesAt(a, old.began, new.ended)
        /\ new.data[j] \in BytesAt(a, old.began, new.ended)
    BY <1>6, <2>1, <2>2
  <2> QED
    BY <1>7, <2>1, <2>3, <2>4, <2>5, TwoElements
<1>8. ASSUME NEW a \in start .. start + size - 1, NEW x, NEW y, x # y, new.data # <<>>,
             \A t \in old.began .. old.ended : a \in DOMAIN world[t] /\ world[t][a] = x,
             \A t \in new.began .. new.ended : a \in DOMAIN world[t] /\ world[t][a] = y
      PROVE  \E j \in 1 .. length : a = start + j - 1 /\ old.data[j] # new.data[j]
  <2>1. PICK j \in 1 .. length : a = start + j - 1
    <3>1. a - start + 1 \in 1 .. length /\ a = start + (a - start + 1) - 1
      BY <1>5, <1>8
    <3> QED
      BY <3>1
  <2>2. BytesAt(a, old.began, old.ended) \subseteq {x}
        /\ BytesAt(a, new.began, new.ended) \subseteq {y}
    BY <1>8 DEF BytesAt
  <2>3. old.data[j] = x /\ new.data[j] = y
    BY <1>6, <2>1, <2>2
  <2> QED
    BY <1>8, <2>1, <2>3
<1>9. \A j \in 1 .. length : start + j - 1 \in start .. start + size - 1
  BY <1>5
<1>10. /\ span(before[i]) = old.data /\ span(vec[i]) = new.data
       /\ \A j : DiffersAt(before[i], vec[i], j) <=> old.data[j] # new.data[j]
  BY <1>1 DEF span, DiffersAt
<1>11. ASSUME NEW a \in Addresses(vec[i].map), Moved(i, a)
       PROVE  \E j \in 1 .. length :
                 a = tbegin(vec[i].map) + j - 1 /\ DiffersAt(before[i], vec[i], j)
  <2>1. PICK x, y \in 0 .. Base - 1 :
          /\ x # y /\ new.data # <<>>
          /\ StayedThere(before[i], a, x) /\ StayedThere(vec[i], a, y)
    BY <1>10, <1>11 DEF Moved
  <2>2. /\ \A t \in old.began .. old.ended : a \in DOMAIN world[t] /\ world[t][a] = x
        /\ \A t \in new.began .. new.ended : a \in DOMAIN world[t] /\ world[t][a] = y
    BY <1>1, <2>1 DEF StayedThere
  <2>3. a \in start .. start + size - 1
    BY <1>1, <1>4
  <2>4. PICK j \in 1 .. length : a = start + j - 1 /\ old.data[j] # new.data[j]
    BY <1>8, <2>1, <2>2, <2>3
  <2>5. start = tbegin(vec[i].map) /\ DiffersAt(before[i], vec[i], j)
    BY <1>1, <1>4, <1>10, <2>4
  <2> QED
    BY <2>4, <2>5
<1> QED
  BY <1>1, <1>3, <1>4, <1>7, <1>9, <1>10, <1>11 DEF Written

\* The hits of findChanged in one node.
LEMMA PairHits ==
    ASSUME SessionInv, PairReady, NEW i \in DOMAIN vec, ComparablePair(i),
           NEW size \in CompareSizes, NEW hits, hits = findChanged(before[i], vec[i], size)
    PROVE  /\ \A k \in DOMAIN hits :
                 \E a \in Addresses(hits[k].map) \cap Addresses(vec[i].map) : Written(i, a)
           /\ \A a \in Addresses(vec[i].map) : Moved(i, a) => Covers(hits, {a})
<1>1. /\ before[i] \in Nodes /\ before[i].map = vec[i].map
      /\ span(before[i]) \in Seq(0 .. Base - 1) /\ span(vec[i]) \in Seq(0 .. Base - 1)
      /\ Len(span(vec[i])) = Len(span(before[i]))
  <2>1. PICK old, new, m : old = before[i].snap /\ new = vec[i].snap /\ m = vec[i].map
    OBVIOUS
  <2> QED
    BY <2>1, PairTaken DEF span
<1>2. PICK n, other : n = before[i] /\ other = vec[i]
  OBVIOUS
<1>3. size \in Nat \ {0}
  BY SessionAssumption DEF SessionAssumption
<1>4. n \in NodesOf(MapsOf(Names, Flags), Snapshots)
  BY <1>1, <1>2 DEF Nodes, NodeMaps
<1>5. /\ \A k \in DOMAIN hits : \E j \in 1 .. Len(span(n)) :
            DiffersAt(n, other, j) /\ tbegin(n.map) + j - 1 \in Addresses(hits[k].map)
      /\ \A j \in 1 .. Len(span(n)) :
            DiffersAt(n, other, j) => Covers(hits, {tbegin(n.map) + j - 1})
  <2>1. /\ span(n) \in Seq(0 .. Base - 1) /\ span(other) \in Seq(0 .. Base - 1)
        /\ Len(span(other)) = Len(span(n)) /\ hits = findChanged(n, other, size)
    BY <1>1, <1>2
  <2> QED
    BY <1>3, <1>4, <2>1, ChangedScan
<1> QED
  BY <1>1, <1>2, <1>5, PairBytes

\* Whatever the process writes and gives back, before, between and during the two
\* captures: a hit of findChanged has an address that was written, and what stayed
\* at one byte in the earlier capture and at another in the later one is in a hit.
THEOREM ChangedCorrect == Spec => ChangedIsFaithful
<1>1. ASSUME SessionInv, PairReady, \A i \in DOMAIN vec : ComparablePair(i),
             NEW size \in CompareSizes, ScanChanged(size)
      PROVE  /\ \A h \in ToSet(vec') : \E i \in DOMAIN vec :
                   \E a \in Addresses(h.map) \cap Addresses(vec[i].map) : Written(i, a)
             /\ \A i \in DOMAIN vec : \A a \in Addresses(vec[i].map) :
                   Moved(i, a) => \E h \in ToSet(vec') : a \in Addresses(h.map)
  <2>1. PICK hits : hits = [i \in DOMAIN vec |-> findChanged(before[i], vec[i], size)]
    OBVIOUS
  <2>2. BlocksOver = {}
    <3>1. \A i \in DOMAIN vec : Len(span(before[i])) = Len(span(vec[i]))
      BY <1>1 DEF ComparablePair
    <3>2. \A i \in DOMAIN vec : Len(span(vec[i])) \in Nat
      BY <1>1, NodeParts, SpanTyped DEF SessionInv, PairReady, ScanReady, Captured
    <3> QED
      BY <3>1, <3>2 DEF BlocksOver, BlocksOverread
  <2>3. vec' = FlattenSeq(hits)
    BY <1>1, <2>1, <2>2 DEF ScanChanged, Outcome, Found, consolidate
  <2>4. /\ DOMAIN hits = DOMAIN vec
        /\ \A i \in DOMAIN vec : hits[i] = findChanged(before[i], vec[i], size)
    BY <2>1
  <2>5. ASSUME NEW i \in DOMAIN vec
        PROVE  /\ \A k \in DOMAIN hits[i] :
                     \E a \in Addresses(hits[i][k].map) \cap Addresses(vec[i].map) :
                        Written(i, a)
               /\ \A a \in Addresses(vec[i].map) : Moved(i, a) => Covers(hits[i], {a})
    BY <1>1, <2>4, PairHits
  <2>6. ASSUME NEW i \in DOMAIN vec PROVE hits[i] \in Seq(Nodes)
    <3>1. i \in DOMAIN before
      BY <1>1 DEF SessionInv, PairReady
    <3>2. before[i] \in Nodes /\ before[i].snap # NoSnap
      BY <1>1, <3>1, NodeParts DEF SessionInv, Captured
    <3> QED
      BY <2>4, <3>2, HitsOfNode
  <2>7. /\ \A h \in ToSet(vec') : \E i \in DOMAIN vec : \E k \in DOMAIN hits[i] :
              h = hits[i][k]
        /\ \A i \in DOMAIN vec : \A k \in DOMAIN hits[i] : hits[i][k] \in ToSet(vec')
    <3>1. hits = [i \in DOMAIN vec |-> hits[i]]
      BY <2>1
    <3> QED
      BY <1>1, <2>3, <2>4, <2>6, <3>1, AllHits
  <2>8. ASSUME NEW h \in ToSet(vec')
        PROVE  \E i \in DOMAIN vec :
                  \E a \in Addresses(h.map) \cap Addresses(vec[i].map) : Written(i, a)
    BY <2>5, <2>7
  <2>9. ASSUME NEW i \in DOMAIN vec, NEW a \in Addresses(vec[i].map), Moved(i, a)
        PROVE  \E h \in ToSet(vec') : a \in Addresses(h.map)
    <3>1. PICK k \in DOMAIN hits[i] : a \in Addresses(hits[i][k].map)
      BY <2>5, <2>9 DEF Covers
    <3> QED
      BY <2>7, <3>1
  <2> QED
    BY <2>8, <2>9
<1>2. SessionInv /\ [Next]_vars
        => [(PairReady /\ \A i \in DOMAIN vec : ComparablePair(i)) =>
              \A size \in CompareSizes : ScanChanged(size) =>
                 /\ \A h \in ToSet(vec') : \E i \in DOMAIN vec :
                       \E a \in Addresses(h.map) \cap Addresses(vec[i].map) :
                          Cardinality(BytesAt(a, before[i].snap.began,
                                                 vec[i].snap.ended)) > 1
                 /\ \A i \in DOMAIN vec : \A a \in Addresses(vec[i].map) :
                       (\E x, y \in 0 .. Base - 1 :
                           /\ x # y /\ span(vec[i]) # <<>>
                           /\ StayedThere(before[i], a, x)
                           /\ StayedThere(vec[i], a, y))
                       => \E h \in ToSet(vec') : a \in Addresses(h.map)]_vars
  BY <1>1 DEF Written, Moved
<1> QED
  BY <1>2, SessionInvariant, PTL DEF Spec, ChangedIsFaithful
-----------------------------------------------------------------------------
(* What the exact scans say of a capture.                                   *)

\* The buffer of a node that was read from the process and not moved since holds
\* what was at its addresses.
LEMMA NodeIsThere ==
    ASSUME SessionInv, NEW n \in Nodes, Faithful(n)
    PROVE  /\ span(n) \in Seq(0 .. Base - 1) /\ tbegin(n.map) \in Int
           /\ n.snap.map = n.map /\ tend(n.map) \in Int
           /\ span(n) # <<>> => tend(n.map) = tbegin(n.map) + Len(span(n))
           /\ \A j \in 1 .. Len(span(n)) :
                 /\ WasThere(n, tbegin(n.map) + j - 1, span(n)[j])
                 /\ \A byte : StayedThere(n, tbegin(n.map) + j - 1, byte)
                                => span(n)[j] = byte
<1>1. PICK s, m : s = n.snap /\ m = n.map
  OBVIOUS
<1>2. /\ s \in Snapshots /\ s # NoSnap /\ s.began > 0 /\ s.map = m /\ m \in NodeMaps
  BY <1>1 DEF Faithful, OfProcess, Nodes, NodesOf
<1>3. /\ s.data \in Seq(0 .. Base - 1) /\ s.began \in Nat /\ s.ended \in Nat /\ Taken(s)
  BY <1>2 DEF Snapshots
<1>4. PICK length \in Nat : length = Len(s.data) /\ DOMAIN s.data = 1 .. length
  BY <1>3
<1>5. PICK start \in Int, size \in Nat :
        start = tbegin(m) /\ size = m.relativeSize /\ tend(m) = start + size
  <2>1. m.relativeSize \in Nat
    BY <1>2, <1>3 DEF Taken
  <2>2. PICK p \in Int, r \in Int : p = m.parentAddress /\ r = m.relativeAddress
    BY <1>2 DEF NodeMaps, MapsOf
  <2>3. p + r \in Int
    OBVIOUS
  <2> QED
    BY <2>1, <2>2, <2>3 DEF tbegin, tend
<1>6. s.data # <<>> => length = size
  BY <1>2, <1>3, <1>4, <1>5 DEF Taken
<1>7. ASSUME NEW j \in 1 .. length
      PROVE  s.data[j] \in BytesAt(start + j - 1, s.began, s.ended)
  BY <1>2, <1>3, <1>4, <1>5 DEF Taken
<1>8. ASSUME NEW j \in 1 .. length, NEW byte, NEW a, a = start + j - 1,
             \A t \in s.began .. s.ended : a \in DOMAIN world[t] /\ world[t][a] = byte
      PROVE  s.data[j] = byte
  <2>1. BytesAt(a, s.began, s.ended) \subseteq {byte}
    BY <1>8 DEF BytesAt
  <2> QED
    BY <1>7, <1>8, <2>1
<1>9. span(n) = s.data
  BY <1>1 DEF span
<1>10. ASSUME NEW j \in 1 .. length
       PROVE  /\ WasThere(n, start + j - 1, s.data[j])
              /\ \A byte : StayedThere(n, start + j - 1, byte) => s.data[j] = byte
  BY <1>1, <1>7, <1>8 DEF WasThere, StayedThere
<1>11. start + size \in Int
  OBVIOUS
<1> QED
  BY <1>1, <1>2, <1>3, <1>4, <1>5, <1>6, <1>9, <1>10, <1>11

\* Something of the buffer of a node was there for one of its hits.
LEMMA ThereForHit ==
    ASSUME NEW h, NEW n, h.snap = n.snap, NEW a, NEW byte
    PROVE  WasThere(h, a, byte) <=> WasThere(n, a, byte)
  BY DEF WasThere

\* The number was at the address during the capture, or all through it.
NumberWasThere(h, number) ==
    \A k \in 0 .. NumSize - 1 : WasThere(h, tbegin(h.map) + k, ByteOf(number, k))

NumberStayed(n, o, number) ==
    \A k \in 0 .. NumSize - 1 :
        StayedThere(n, tbegin(n.map) + o + k, ByteOf(number, k))

LEMMA NumberHits ==
    ASSUME SessionInv, NEW n \in Nodes, Faithful(n), NEW number \in Numbers,
           NEW hits, hits = findNumExact(n, number)
    PROVE  /\ \A i \in DOMAIN hits : NumberWasThere(hits[i], number)
           /\ \A o \in 1 .. Len(span(n)) - NumSize - 1 :
                 (tbegin(n.map) + o) % NumAlign = 0 /\ NumberStayed(n, o, number)
                    => \E i \in DOMAIN hits : tbegin(hits[i].map) = tbegin(n.map) + o
<1>1. PICK start \in Int, length \in Nat, size \in Nat \ {0} :
        start = tbegin(n.map) /\ length = Len(span(n)) /\ size = NumSize
  BY NodeIsThere, NumberAssumption DEF NumberAssumption
<1>2. /\ \A i \in DOMAIN hits : \E o \in Nat :
            /\ o + NumSize < Len(span(n))
            /\ HitAt(hits[i], n, o) /\ NumberAt(n, o, number)
      /\ \A o \in 1 .. Len(span(n)) - NumSize - 1 :
            (tbegin(n.map) + o) % NumAlign = 0 /\ NumberAt(n, o, number)
               => \E i \in DOMAIN hits : HitAt(hits[i], n, o)
  <2>1. number \in Nat /\ Rest(number, NumSize) = 0
    BY SessionAssumption DEF SessionAssumption
  <2>2. n \in NodesOf(MapsOf(Names, Flags), Snapshots)
    BY DEF Nodes, NodeMaps
  <2>3. span(n) \in Seq(0 .. Base - 1) /\ (span(n) # <<>> => tbegin(n.map) < tend(n.map))
    <3>1. /\ span(n) \in Seq(0 .. Base - 1)
          /\ span(n) # <<>> => tend(n.map) = start + length
      BY <1>1, NodeIsThere
    <3>2. span(n) # <<>> => length > 0
      BY <1>1, <3>1, EmptySeq
    <3> QED
      BY <1>1, <3>1, <3>2
  <2> QED
    BY <2>1, <2>2, <2>3, ExactScan
<1>3. \A o \in Nat, k \in 0 .. size - 1 : o + size < length =>
         /\ o + k + 1 \in 1 .. length /\ start + (o + k + 1) - 1 = start + o + k
  OBVIOUS
<1>4. \A j \in 1 .. length :
         /\ WasThere(n, start + j - 1, span(n)[j])
         /\ \A byte : StayedThere(n, start + j - 1, byte) => span(n)[j] = byte
  BY <1>1, NodeIsThere
<1>5. ASSUME NEW i \in DOMAIN hits PROVE NumberWasThere(hits[i], number)
  <2>1. PICK o \in Nat : /\ o + size < length
                         /\ HitAt(hits[i], n, o) /\ NumberAt(n, o, number)
    BY <1>1, <1>2
  <2>2. ASSUME NEW k \in 0 .. size - 1
        PROVE  WasThere(hits[i], tbegin(hits[i].map) + k, ByteOf(number, k))
    <3>1. /\ tbegin(hits[i].map) + k = start + (o + k + 1) - 1
          /\ o + k + 1 \in 1 .. length /\ hits[i].snap = n.snap
      BY <1>1, <1>3, <2>1 DEF HitAt
    <3>2. span(n)[o + k + 1] = ByteOf(number, k)
      BY <1>1, <2>1 DEF NumberAt
    <3>3. WasThere(n, start + (o + k + 1) - 1, ByteOf(number, k))
      BY <1>4, <3>1, <3>2
    <3> QED
      BY <3>1, <3>3, ThereForHit
  <2> QED
    BY <1>1, <2>2 DEF NumberWasThere
<1>6. ASSUME NEW o \in 1 .. length - size - 1, (start + o) % NumAlign = 0,
             NumberStayed(n, o, number)
      PROVE  \E i \in DOMAIN hits : tbegin(hits[i].map) = start + o
  <2>1. o \in Nat /\ o + size < length
    OBVIOUS
  <2>2. ASSUME NEW k \in 0 .. size - 1 PROVE span(n)[o + k + 1] = ByteOf(number, k)
    <3>1. o + k + 1 \in 1 .. length /\ start + (o + k + 1) - 1 = start + o + k
      BY <1>3, <2>1
    <3>2. StayedThere(n, start + o + k, ByteOf(number, k))
      BY <1>1, <1>6 DEF NumberStayed
    <3>3. StayedThere(n, start + (o + k + 1) - 1, ByteOf(number, k))
      BY <3>1, <3>2
    <3> QED
      BY <1>4, <3>1, <3>3
  <2>3. NumberAt(n, o, number)
    BY <1>1, <2>2 DEF NumberAt
  <2>4. PICK i \in DOMAIN hits : HitAt(hits[i], n, o)
    BY <1>1, <1>2, <1>6, <2>3
  <2> QED
    BY <1>1, <2>4 DEF HitAt
<1> QED
  BY <1>1, <1>5, <1>6

\* The same of a string.
StringWasThere(h, str) ==
    \A k \in DOMAIN str : WasThere(h, tbegin(h.map) + k - 1, str[k])

StringStayed(n, o, str) ==
    \A k \in DOMAIN str : StayedThere(n, tbegin(n.map) + o + k - 1, str[k])

LEMMA StringHitsThere ==
    ASSUME SessionInv, NEW n \in Nodes, Faithful(n), n.map.relativeAddress = 0,
           NEW str \in Strings, NEW beyond \in Beyond(str),
           NEW hits, hits = findString(n, str, beyond)
    PROVE  /\ \A i \in DOMAIN hits :
                 tend(hits[i].map) <= tend(hits[i].snap.map) => StringWasThere(hits[i], str)
           /\ \A o \in 0 .. Len(span(n)) - Len(str) :
                 StringStayed(n, o, str)
                    => \E i \in DOMAIN hits : tbegin(hits[i].map) = tbegin(n.map) + o
<1>1. PICK start \in Int, length \in Nat, size \in Nat \ {0} :
        /\ start = tbegin(n.map) /\ length = Len(span(n))
        /\ size = Len(str) /\ DOMAIN str = 1 .. size
  <2>1. str \in Seq(0 .. Base - 1) /\ str # <<>>
    BY SessionAssumption DEF SessionAssumption
  <2>2. Len(str) \in Nat \ {0} /\ DOMAIN str = 1 .. Len(str)
    BY <2>1, EmptySeq
  <2>3. tbegin(n.map) \in Int /\ Len(span(n)) \in Nat
    BY NodeIsThere
  <2> QED
    BY <2>2, <2>3
<1>2. /\ \A i \in DOMAIN hits : \E o \in Nat :
            /\ o < Len(span(n)) /\ HitAt(hits[i], n, o)
            /\ tend(hits[i].map) = tbegin(n.map) + o + Len(str)
            /\ o + Len(str) <= Len(span(n)) => StringAt(n, o, str)
      /\ \A o \in 0 .. Len(span(n)) - Len(str) :
            StringAt(n, o, str) => \E i \in DOMAIN hits : HitAt(hits[i], n, o)
  <2>1. str \in Seq(0 .. Base - 1) /\ str # <<>>
    BY SessionAssumption DEF SessionAssumption
  <2>2. beyond \in Seq(0 .. Base - 1)
    <3>1. size - 1 \in Nat /\ beyond \in [1 .. size - 1 -> 0 .. Base - 1]
      BY <1>1 DEF Beyond
    <3>2. ASSUME NEW T, NEW m \in Nat, NEW f \in [1 .. m -> T] PROVE f \in Seq(T)
      OBVIOUS
    <3> QED
      BY <3>1, <3>2
  <2>3. n \in NodesOf(MapsOf(Names, Flags), Snapshots)
    BY DEF Nodes, NodeMaps
  <2>4. span(n) \in Seq(0 .. Base - 1)
    BY NodeIsThere
  <2> QED
    BY <2>1, <2>2, <2>3, <2>4, StringHits
<1>3. \A o \in Nat, k \in 1 .. size : o + size <= length =>
         /\ o + k \in 1 .. length /\ start + (o + k) - 1 = start + o + k - 1
  OBVIOUS
<1>4. \A j \in 1 .. length :
         /\ WasThere(n, start + j - 1, span(n)[j])
         /\ \A byte : StayedThere(n, start + j - 1, byte) => span(n)[j] = byte
  BY <1>1, NodeIsThere
<1>5. ASSUME NEW i \in DOMAIN hits, tend(hits[i].map) <= tend(hits[i].snap.map)
      PROVE  StringWasThere(hits[i], str)
  <2>1. PICK o \in Nat : /\ o < length /\ HitAt(hits[i], n, o)
                         /\ tend(hits[i].map) = start + o + size
                         /\ o + size <= length => StringAt(n, o, str)
    BY <1>1, <1>2
  <2>2. tend(hits[i].snap.map) = start + length
    <3>1. span(n) # <<>>
      BY <1>1, <2>1, EmptySeq
    <3>2. hits[i].snap = n.snap
      BY <2>1 DEF HitAt
    <3> QED
      BY <1>1, <3>1, <3>2, NodeIsThere
  <2>3. o + size <= length /\ StringAt(n, o, str)
    BY <1>5, <2>1, <2>2
  <2>4. ASSUME NEW k \in 1 .. size
        PROVE  WasThere(hits[i], tbegin(hits[i].map) + k - 1, str[k])
    <3>1. /\ tbegin(hits[i].map) + k - 1 = start + (o + k) - 1
          /\ o + k \in 1 .. length /\ hits[i].snap = n.snap
      BY <1>1, <1>3, <2>1, <2>3 DEF HitAt
    <3>2. span(n)[o + k] = str[k]
      BY <1>1, <2>3 DEF StringAt
    <3>3. WasThere(n, start + (o + k) - 1, str[k])
      BY <1>4, <3>1, <3>2
    <3> QED
      BY <3>1, <3>3, ThereForHit
  <2> QED
    BY <1>1, <2>4 DEF StringWasThere
<1>6. ASSUME NEW o \in 0 .. length - size, StringStayed(n, o, str)
      PROVE  \E i \in DOMAIN hits : tbegin(hits[i].map) = start + o
  <2>1. o \in Nat /\ o + size <= length
    OBVIOUS
  <2>2. ASSUME NEW k \in 1 .. size PROVE span(n)[o + k] = str[k]
    <3>1. o + k \in 1 .. length /\ start + (o + k) - 1 = start + o + k - 1
      BY <1>3, <2>1
    <3>2. StayedThere(n, start + o + k - 1, str[k])
      BY <1>1, <1>6 DEF StringStayed
    <3>3. StayedThere(n, start + (o + k) - 1, str[k])
      BY <3>1, <3>2
    <3> QED
      BY <1>4, <3>1, <3>3
  <2>3. StringAt(n, o, str)
    BY <1>1, <2>2 DEF StringAt
  <2>4. PICK i \in DOMAIN hits : HitAt(hits[i], n, o)
    BY <1>1, <1>2, <2>3
  <2> QED
    BY <1>1, <2>4 DEF HitAt
<1> QED
  BY <1>1, <1>5, <1>6
\* Whatever the process writes while it is read: a hit of findNumExact or findString
\* is an address where the number or the string was, byte by byte, and where it
\* stayed through the capture there is a hit, but where the two do not look.
THEOREM HitsCorrect == Spec => HitsAreReal
<1>1. ASSUME SessionInv, ScanReady, \A i \in DOMAIN vec : Faithful(vec[i])
      PROVE  \A i \in DOMAIN vec : vec[i] \in Nodes /\ vec[i].snap # NoSnap /\ Faithful(vec[i])
  BY <1>1, NodeParts DEF SessionInv, ScanReady, Captured
<1>2. ASSUME SessionInv, ScanReady, \A i \in DOMAIN vec : Faithful(vec[i]),
             NEW number \in Numbers, ScanNumExact(number)
      PROVE  ExactHitsReal(number)
  <2>1. PICK hits : hits = [i \in DOMAIN vec |-> findNumExact(vec[i], number)]
    OBVIOUS
  <2>2. /\ DOMAIN hits = DOMAIN vec /\ hits = [i \in DOMAIN vec |-> hits[i]]
        /\ \A i \in DOMAIN vec : hits[i] = findNumExact(vec[i], number)
    BY <2>1
  <2>3. vec' = FlattenSeq(hits)
    BY <1>2, <2>1 DEF ScanNumExact, Found, consolidate
  <2>4. \A i \in DOMAIN vec : hits[i] \in Seq(Nodes)
    BY <1>1, <1>2, <2>2, HitsOfNode
  <2>5. /\ \A h \in ToSet(vec') : \E i \in DOMAIN vec : \E k \in DOMAIN hits[i] :
              h = hits[i][k]
        /\ \A i \in DOMAIN vec : \A k \in DOMAIN hits[i] : hits[i][k] \in ToSet(vec')
    BY <1>2, <2>2, <2>3, <2>4, AllHits
  <2>6. ASSUME NEW i \in DOMAIN vec
        PROVE  /\ \A k \in DOMAIN hits[i] : NumberWasThere(hits[i][k], number)
               /\ \A o \in 1 .. Len(span(vec[i])) - NumSize - 1 :
                     (tbegin(vec[i].map) + o) % NumAlign = 0 /\ NumberStayed(vec[i], o, number)
                        => \E k \in DOMAIN hits[i] :
                              tbegin(hits[i][k].map) = tbegin(vec[i].map) + o
    BY <1>1, <1>2, <2>2, NumberHits
  <2>7. \A h \in ToSet(vec') : NumberWasThere(h, number)
    BY <2>5, <2>6
  <2>8. \A i \in DOMAIN vec : \A o \in 1 .. Len(span(vec[i])) - NumSize - 1 :
           (tbegin(vec[i].map) + o) % NumAlign = 0 /\ NumberStayed(vec[i], o, number)
              => \E h \in ToSet(vec') : tbegin(h.map) = tbegin(vec[i].map) + o
    BY <2>5, <2>6
  <2> QED
    BY <2>7, <2>8 DEF ExactHitsReal, NumberWasThere, NumberStayed
<1>3. ASSUME SessionInv, ScanReady, \A i \in DOMAIN vec : Faithful(vec[i]),
             \A i \in DOMAIN vec : vec[i].map.relativeAddress = 0,
             NEW str \in Strings, NEW beyond \in Beyond(str), ScanString(str, beyond)
      PROVE  StringHitsReal(str)
  <2>1. PICK hits : hits = [i \in DOMAIN vec |-> findString(vec[i], str, beyond)]
    OBVIOUS
  <2>2. /\ DOMAIN hits = DOMAIN vec /\ hits = [i \in DOMAIN vec |-> hits[i]]
        /\ \A i \in DOMAIN vec : hits[i] = findString(vec[i], str, beyond)
    BY <2>1
  <2>3. vec' = FlattenSeq(hits)
    BY <1>3, <2>1 DEF ScanString, Found, consolidate
  <2>4. \A i \in DOMAIN vec : hits[i] \in Seq(Nodes)
    BY <1>1, <1>3, <2>2, HitsOfNode
  <2>5. /\ \A h \in ToSet(vec') : \E i \in DOMAIN vec : \E k \in DOMAIN hits[i] :
              h = hits[i][k]
        /\ \A i \in DOMAIN vec : \A k \in DOMAIN hits[i] : hits[i][k] \in ToSet(vec')
    BY <1>3, <2>2, <2>3, <2>4, AllHits
  <2>6. ASSUME NEW i \in DOMAIN vec
        PROVE  /\ \A k \in DOMAIN hits[i] :
                     tend(hits[i][k].map) <= tend(hits[i][k].snap.map)
                        => StringWasThere(hits[i][k], str)
               /\ \A o \in 0 .. Len(span(vec[i])) - Len(str) :
                     StringStayed(vec[i], o, str)
                        => \E k \in DOMAIN hits[i] :
                              tbegin(hits[i][k].map) = tbegin(vec[i].map) + o
    BY <1>1, <1>3, <2>2, StringHitsThere
  <2>7. \A h \in ToSet(vec') :
           tend(h.map) <= tend(h.snap.map) => StringWasThere(h, str)
    BY <2>5, <2>6
  <2>8. \A i \in DOMAIN vec : \A o \in 0 .. Len(span(vec[i])) - Len(str) :
           StringStayed(vec[i], o, str)
              => \E h \in ToSet(vec') : tbegin(h.map) = tbegin(vec[i].map) + o
    BY <2>5, <2>6
  <2> QED
    BY <2>7, <2>8 DEF StringHitsReal, StringWasThere, StringStayed
<1>4. SessionInv /\ [Next]_vars
        => [(ScanReady /\ \A i \in DOMAIN vec : Faithful(vec[i])) =>
              /\ \A number \in Numbers :
                    ScanNumExact(number) => ExactHitsReal(number)
              /\ (\A i \in DOMAIN vec : vec[i].map.relativeAddress = 0) =>
                    \A str \in Strings : \A beyond \in Beyond(str) :
                       ScanString(str, beyond) => StringHitsReal(str)]_vars
  BY <1>2, <1>3
<1> QED
  BY <1>4, SessionInvariant, PTL DEF Spec, HitsAreReal

-----------------------------------------------------------------------------
(* What the filter of the active pages keeps.                               *)

\* The filter keeps exactly the pages it sees, each in its region.
THEOREM ActiveCorrect == Spec => ActiveIsExact
<1>1. ASSUME SessionInv, Fresh, \A i \in DOMAIN vec : PagesOfRegion(vec[i]),
             NEW seen, FilterActive(seen), ~Confusable(vec, seen)
      PROVE  KeepsSeen(vec, seen, vec')
  <2>1. vec \in Seq(NodesOf(MapsOf(Names, Flags), {NoSnap}))
    <3> DEFINE T == NodesOf(MapsOf(Names, Flags), {NoSnap})
    <3>1. \A n \in Nodes : n.snap = NoSnap => n \in T
      BY DEF Nodes, NodesOf, NodeMaps
    <3>2. vec \in Seq(Nodes) /\ \A i \in DOMAIN vec : vec[i].snap = NoSnap
      BY <1>1 DEF SessionInv, Fresh
    <3> HIDE DEF T
    <3>3. vec \in Seq(T)
      BY <3>1, <3>2
    <3> QED
      BY <3>3 DEF T
  <2>2. KeepsSeen(vec, seen, active(vec, seen))
    BY <1>1, <2>1, ActiveKeeps
  <2>3. vec' = active(vec, seen)
    BY <1>1 DEF FilterActive, Select
  <2> QED
    BY <2>2, <2>3
<1>2. SessionInv /\ [Next]_vars
        => [(Fresh /\ \A i \in DOMAIN vec : PagesOfRegion(vec[i])) =>
              \A seen \in SUBSET {PageOf(a) : a \in DOMAIN Now} :
                 (FilterActive(seen) /\ ~Confusable(vec, seen))
                    => KeepsSeen(vec, seen, vec')]_vars
  BY <1>1
<1> QED
  BY <1>2, SessionInvariant, PTL DEF Spec, ActiveIsExact
=============================================================================
