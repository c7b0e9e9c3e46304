---------------------------- MODULE PipeTheorems -----------------------------
(***************************************************************************)
(* What Inv of PipeProof gives: the pipe is freed when nobody uses it, the *)
(* ring implements Fifo through the wrap-around of nread and nwrite, and   *)
(* nobody sleeps without reason.                                           *)
(***************************************************************************)
EXTENDS PipeProof, SequenceTheorems

\* The page of the pipe is freed only when nobody is inside pipewrite() or
\* piperead() and nobody holds a descriptor: FreedWhenUnused of Pipe.
THEOREM NoUseAfterFree == Spec => []FreedWhenUnused
<1>1. Inv => FreedWhenUnused
  <2> SUFFICES ASSUME Inv PROVE FreedWhenUnused
    OBVIOUS
  <2>1. freed => readopen = 0 /\ writeopen = 0
    BY Zenon DEF Inv, FreedIs
  <2>2. ASSUME readopen = 0, writeopen = 0, NEW p \in Procs
        PROVE  pc[p] = "idle" /\ p \notin fds
    BY <2>2 DEF Inv, Closing, Inside, Kinds, Places, Procs
  <2>3. readopen = 0 /\ writeopen = 0 => lock = Nobody
    BY <2>2 DEF Inv, Inside, Kinds, Locked
  <2>. QED BY <2>1, <2>2, <2>3, InvTypes, Zenon DEF FreedWhenUnused
<1>. QED BY Invariance, <1>1, PTL
------------------------------------------------------------------------------
(* The ring is a queue. *)

\* The place in the ring is the same for a counter that has wrapped round.
LEMMA PlaceInRing ==
  ASSUME NEW x \in Nat, x < 2 * UintMod
  PROVE  (x % UintMod) % PIPESIZE = x % PIPESIZE
<1>1. PICK k \in 2..UintMod : UintMod = k * PIPESIZE
  BY ConstantsAssumption
<1>2. x % UintMod = IF x < UintMod THEN x ELSE x - k * PIPESIZE
  BY <1>1, RingSizes, ModNear
<1>3. (x - k * PIPESIZE) % PIPESIZE = x % PIPESIZE
  <2>1. k \in Int /\ x \in Int /\ PIPESIZE \in Nat /\ PIPESIZE > 0
    BY RingSizes
  <2>. QED BY <2>1, ModShift, Zenon
<1>. QED BY <1>2, <1>3

\* What the ring holds, in order.
Queue == [k \in 1..Count |-> data[(nread + k - 1) % PIPESIZE]]

QueueShape ==
  /\ Queue \in Seq(Bytes)
  /\ Len(Queue) = Count
  /\ \A k \in 1..Count : Queue[k] = data[(nread + k - 1) % PIPESIZE]

\* Its length is the count, and its elements are bytes.
LEMMA QueueIsSeq == Ring => QueueShape
<1> SUFFICES ASSUME Ring PROVE QueueShape
  OBVIOUS
<1>1. Count \in Nat
  BY CountMeans DEF Ring
<1>2. \A k \in 1..Count : data[(nread + k - 1) % PIPESIZE] \in Bytes
  <2> SUFFICES ASSUME NEW k \in 1..Count PROVE data[(nread + k - 1) % PIPESIZE] \in Bytes
    OBVIOUS
  <2>1. nread + k - 1 \in Int
    BY <1>1 DEF Ring, Counters
  <2>2. (nread + k - 1) % PIPESIZE \in 0..PIPESIZE - 1
    BY <2>1, RingSizes, ModRange
  <2>. QED BY <2>2 DEF Ring
<1>. QED BY <1>1, <1>2 DEF Queue, QueueShape

\* The same after a step.
LEMMA QueueIsSeqNext == Ring' => QueueShape'
  BY QueueIsSeq, PTL

\* A byte that is put is appended; no other is touched.
LEMMA QueuePut ==
  ASSUME Ring, Count < PIPESIZE, NEW b \in Bytes,
         data' = [data EXCEPT ![nwrite % PIPESIZE] = b],
         nwrite' = (nwrite + 1) % UintMod, nread' = nread, ch' = ch
  PROVE  Ring' /\ Queue' = Append(Queue, b)
<1> USE RingSizes
<1>1. Counters' /\ Count' = Count + 1
  BY CountPut DEF Ring
<1>2. Ring'
  <2>1. Count \in Nat
    BY CountMeans DEF Ring
  <2>2. data' \in [0..PIPESIZE - 1 -> Bytes]
    BY Zenon DEF Ring
  <2>. QED BY <1>1, <2>1, <2>2 DEF Ring
<1>3. Count \in Nat /\ nread \in Nat /\ nread + Count < 2 * UintMod
  BY CountMeans DEF Ring, Counters
<1>4. nwrite % PIPESIZE = (nread + Count) % PIPESIZE
  <2>1. nwrite = (nread + Count) % UintMod
    BY CountMeans DEF Ring
  <2>2. nread + Count \in Nat
    BY <1>3
  <2>. QED BY <1>3, <2>1, <2>2, PlaceInRing
<1>5. (nread + Count) % PIPESIZE \in 0..PIPESIZE - 1
  BY <1>3, ModRange
<1>6. data'[(nread + Count) % PIPESIZE] = b
  BY <1>4, <1>5 DEF Ring
<1>7. ASSUME NEW k \in 1..Count
      PROVE  data'[(nread + k - 1) % PIPESIZE] = data[(nread + k - 1) % PIPESIZE]
  <2>1. nread + k - 1 \in Int /\ nread + Count \in Int
        /\ nread + k - 1 < nread + Count /\ nread + Count < nread + k - 1 + PIPESIZE
    BY <1>3
  <2>2. (nread + k - 1) % PIPESIZE # (nread + Count) % PIPESIZE
    BY <2>1, ModDistinct
  <2>3. (nread + k - 1) % PIPESIZE \in 0..PIPESIZE - 1
    BY <2>1, ModRange
  <2>. QED BY <2>2, <2>3, <1>4 DEF Ring
<1>8. Queue' \in Seq(Bytes) /\ Len(Queue') = Count + 1
      /\ \A k \in 1..Count + 1 : Queue'[k] = data'[(nread + k - 1) % PIPESIZE]
  BY <1>1, <1>2, QueueIsSeqNext DEF QueueShape
<1>9. Append(Queue, b) \in Seq(Bytes) /\ Len(Append(Queue, b)) = Count + 1
      /\ (\A k \in 1..Count : Append(Queue, b)[k] = Queue[k]) /\ Append(Queue, b)[Count + 1] = b
  BY QueueIsSeq, AppendProperties DEF QueueShape
<1>10. \A k \in 1..Count + 1 : Queue'[k] = Append(Queue, b)[k]
  <2> SUFFICES ASSUME NEW k \in 1..Count + 1 PROVE Queue'[k] = Append(Queue, b)[k]
    BY Zenon
  <2>1. CASE k \in 1..Count
    BY <1>7, <1>8, <1>9, <2>1, QueueIsSeq DEF QueueShape
  <2>2. CASE k = Count + 1
    <3>1. nread + k - 1 = nread + Count
      BY <1>3, <2>2
    <3>. QED BY <1>6, <1>8, <1>9, <2>2, <3>1
  <2>3. k \in 1..Count \/ k = Count + 1
    BY <1>3
  <2>. QED BY <2>1, <2>2, <2>3, Zenon
<1>. QED BY <1>2, <1>8, <1>9, <1>10, SeqEqual

\* The byte that is taken is the first; the others stay in order.
LEMMA QueueTake ==
  ASSUME Ring, Count > 0, nread' = (nread + 1) % UintMod,
         ch' = data[nread % PIPESIZE], data' = data, nwrite' = nwrite
  PROVE  Ring' /\ Queue # <<>> /\ ch' = Head(Queue) /\ Queue' = Tail(Queue)
<1> USE RingSizes
<1>1. Counters' /\ Count' = Count - 1
  BY CountTake DEF Ring
<1>2. Count \in Nat /\ nread \in Nat /\ nread < UintMod
  BY CountMeans DEF Ring, Counters
<1>3. nread % PIPESIZE \in 0..PIPESIZE - 1
  BY <1>2, ModRange
<1>4. Ring'
  BY <1>1, <1>2, <1>3 DEF Ring
<1>5. Queue \in Seq(Bytes) /\ Len(Queue) = Count
  BY QueueIsSeq DEF QueueShape
<1>6. Queue # <<>>
  BY <1>5
<1>7. ch' = Head(Queue)
  <2>1. Queue[1] = data[(nread + 1 - 1) % PIPESIZE]
    BY <1>2, QueueIsSeq DEF QueueShape
  <2>2. nread + 1 - 1 = nread
    BY <1>2
  <2>. QED BY <2>1, <2>2, <1>5, <1>6
<1>8. Queue' \in Seq(Bytes) /\ Len(Queue') = Count - 1
      /\ \A k \in 1..Count - 1 : Queue'[k] = data[(nread' + k - 1) % PIPESIZE]
  BY <1>1, <1>4, QueueIsSeqNext DEF QueueShape
<1>9. Tail(Queue) \in Seq(Bytes) /\ Len(Tail(Queue)) = Count - 1
      /\ \A k \in 1..Count - 1 : Tail(Queue)[k] = Queue[k + 1]
  BY <1>5, <1>6, HeadTailProperties
<1>10. ASSUME NEW k \in 1..Count - 1
       PROVE  (nread' + k - 1) % PIPESIZE = (nread + k) % PIPESIZE
  <2>1. nread' + k - 1 = IF nread + 1 < UintMod THEN nread + k ELSE nread + k - UintMod
    BY <1>2, ModNear
  <2>2. CASE nread + 1 < UintMod
    BY <2>1, <2>2
  <2>3. CASE nread + 1 = UintMod
    <3>1. nread + k \in Int /\ nread + k >= UintMod /\ nread + k < 2 * UintMod
      BY <1>2, <2>3 DEF Ring
    <3>2. (nread + k) % UintMod = (nread + k) - UintMod
      BY <3>1, ModOnce
    <3>3. nread + k \in Nat
      BY <1>2
    <3>4. ((nread + k) % UintMod) % PIPESIZE = (nread + k) % PIPESIZE
      BY <3>1, <3>3, PlaceInRing
    <3>5. nread' + k - 1 = (nread + k) % UintMod
      BY <1>2, <2>1, <2>3, <3>2
    <3>. QED BY <3>4, <3>5
  <2>. QED BY <1>2, <2>2, <2>3
<1>11. ASSUME NEW k \in 1..Count - 1 PROVE Queue'[k] = Tail(Queue)[k]
  <2>1. k + 1 \in 1..Count /\ nread + (k + 1) - 1 = nread + k
    BY <1>2
  <2>2. Queue[k + 1] = data[(nread + k) % PIPESIZE]
    BY <2>1, QueueIsSeq DEF QueueShape
  <2>. QED BY <2>2, <1>8, <1>9, <1>10
<1>. QED BY <1>4, <1>6, <1>7, <1>8, <1>9, <1>11, SeqEqual

\* The ring is a bounded queue, for every size and every width of nread and nwrite
\* that the size divides, through every wrap-around: FifoOrder of Pipe.
THEOREM PipeIsFifo == Spec => FifoOrder
<1> USE DEF ByteStream!Init, ByteStream!Next, ByteStream!Put, ByteStream!Take
<1>1. Init => ByteStream!Init
  <2> SUFFICES ASSUME Init PROVE ByteStream!Init
    OBVIOUS
  <2>1. Ring /\ Count = 0
    BY InitInv, InvRing, RingSizes, ModNear DEF Init, Count
  <2>2. Queue = <<>>
    BY <2>1, QueueIsSeq DEF QueueShape
  <2>. QED BY <2>1, <2>2 DEF Queue, Ring
<1>2. ASSUME Inv, [Next]_vars PROVE [ByteStream!Next]_<<Queue, ch>>
  <2>1. Len(Queue) = Count
    BY <1>2, InvRing, QueueIsSeq DEF QueueShape
  <2>2. UNCHANGED pipe => Queue' = Queue
    BY SameCount DEF pipe, Queue
  <2>3. CASE UNCHANGED <<pipe, ch>>
    BY <2>2, <2>3 DEF Queue
  <2>4. ASSUME NEW p \in Procs, read_byte(p)
        PROVE  Queue # <<>> /\ ch' = Head(Queue) /\ Queue' = Tail(Queue)
    BY <1>2, <2>4, InvRing, CountMeans, QueueTake DEF Ring, read_byte
  <2>5. ASSUME NEW p \in Procs, NEW b \in Bytes, write_byte(p, b)
        PROVE  Count < PIPESIZE /\ Queue' = Append(Queue, b) /\ ch' = ch
    <3>1. Ring /\ Count < PIPESIZE
      BY <1>2, <2>5, InvRing, CountMeans, RingSizes DEF Ring, write_byte
    <3>. QED BY <2>5, <3>1, QueuePut, Zenon DEF write_byte
  <2>. QED BY <1>2, <2>1, <2>3, <2>4, <2>5, NextInv, Zenon DEF Queue
<1>. QED BY <1>1, <1>2, Invariance, PTL DEF Spec, FifoOrder, ByteStream!Spec, Queue
------------------------------------------------------------------------------
(* Nobody sleeps without reason. *)

\* Nobody kills a writer.
WritersSafe == Killable \cap Writers = {}

\* NoLostWakeup while the lock is held: data a writer has put, or room a reader has
\* made, is announced by the wakeup() with which its critical section ends.
Sleeps ==
  /\ \A p \in Procs : pc[p] = "read_wait" => Empty /\ writeopen = 1
  /\ \A p \in Procs : pc[p] = "write_body" => readopen = 1
  /\ \A p \in Procs : pc[p] = "read_asleep" => writeopen = 1 /\ (Empty \/ lock \in Writers)
  /\ \A p \in Procs :
       pc[p] = "write_asleep" =>
         /\ readopen = 1
         /\ Full \/ (lock \in Readers /\ pc[lock] \in {"read_copy", "read_break"})
  /\ killed \subseteq Killable

\* Whether the ring is empty, and whether it is full, is in its counters.
LEMMA SameRing == UNCHANGED pipe => Empty' = Empty /\ Full' = Full
BY DEF pipe, Empty, Full

\* Steps that take the lock.
LEMMA LockSleeps ==
  ASSUME Inv, Sleeps, NEW p \in Procs, lock = Nobody,
         NEW l \in {"write", "read"}, pc' = goto(p, l), UNCHANGED <<pipe, ends, killed>>
  PROVE  Sleeps'
<1>1. \A q \in Procs : pc'[q] = IF q = p THEN l ELSE pc[q]
  BY DEF goto, Inv, Kinds
<1>2. lock \notin Procs
  BY Sides DEF Procs
<1>. QED BY <1>1, <1>2, SameRing DEF Sleeps, ends, Procs

\* Steps of pipewrite().
LEMMA WriteSleeps ==
  ASSUME Inv, Sleeps, WritersSafe, NEW p \in Procs,
         \/ write_test(p) \/ write_sleep(p) \/ write_done(p)
         \/ \E b \in Bytes : write_byte(p, b)
  PROVE  Sleeps'
<1>1. /\ p \in Writers /\ p \notin Readers /\ p \notin killed /\ lock = p
      /\ \A q \in Procs : q # p => pc[q] \notin Locked
  BY Sides DEF Inv, Inside, Sleeps, WritersSafe, write_test, write_sleep, write_done,
     write_byte,
         Locked, WritePlaces
<1>2. \A q \in Procs : pc[q] = "write_asleep" => Full
  BY <1>1, Zenon DEF Sleeps
<1>3. CASE write_test(p)
  <2>1. readopen = 0 => \A q \in Procs : pc[q] # "read_asleep"
    BY DEF Inv, Closing, Inside, ReadPlaces
  <2>2. UNCHANGED <<pipe, ends, killed>>
    BY <1>3 DEF write_test
  <2>3. CASE readopen = 0
    <3>1. \A q \in Procs : pc'[q] = IF q = p THEN "idle" ELSE pc[q]
      BY <1>3, <2>3 DEF write_test, return, Inv, Kinds
    <3>. QED BY <1>1, <1>2, <2>1, <2>2, <2>3, <3>1, SameRing DEF Sleeps, ends, Locked
  <2>4. CASE readopen # 0
    <3>1. /\ \A q \in Procs : pc'[q] = IF q = p THEN "write_body" ELSE pc[q]
          /\ lock' = lock
      BY <1>1, <1>3, <2>4 DEF write_test, goto, Inv, Kinds
    <3>2. readopen = 1
      BY <2>4 DEF Inv, Kinds
    <3>. QED BY <1>1, <1>2, <2>2, <3>1, <3>2, SameRing DEF Sleeps, ends
  <2>. QED BY <2>3, <2>4
<1>4. CASE write_sleep(p)
  <2>1. \A q \in Procs :
          /\ pc'[q] # "read_asleep"
          /\ pc'[q] \notin Locked
          /\ pc'[q] = "write_asleep" => q = p \/ pc[q] = "write_asleep"
    BY <1>1, <1>4 DEF write_sleep, wakeReaders, wakeup, goto, Inv, Kinds, Locked
  <2>2. Full /\ readopen = 1 /\ UNCHANGED <<pipe, ends, killed>>
    BY <1>4 DEF write_sleep, Sleeps
  <2>. QED BY <2>1, <2>2, SameRing DEF Sleeps, ends, Locked
<1>5. CASE write_done(p)
  <2>1. \A q \in Procs :
          /\ pc'[q] # "read_asleep"
          /\ pc'[q] \notin Locked
          /\ pc'[q] = "write_asleep" => pc[q] = "write_asleep"
    BY <1>1, <1>5 DEF write_done, return, wakeReaders, wakeup, Inv, Kinds, Locked
  <2>2. UNCHANGED <<pipe, ends, killed>>
    BY <1>5 DEF write_done
  <2>. QED BY <1>2, <2>1, <2>2, SameRing DEF Sleeps, ends, Locked
<1>6. CASE \E b \in Bytes : write_byte(p, b)
  <2>1. /\ \A q \in Procs : pc'[q] = IF q = p THEN "write" ELSE pc[q]
        /\ ~Full /\ lock' = lock
    BY <1>6 DEF write_byte, goto, Inv, Kinds
  <2>. QED BY <1>1, <1>2, <1>6, <2>1 DEF write_byte, Sleeps, ends, Locked
<1>. QED BY <1>3, <1>4, <1>5, <1>6

\* Steps of piperead().
LEMMA ReadSleeps ==
  ASSUME Inv, Sleeps, NEW p \in Procs,
         read_test(p) \/ read_sleep(p) \/ read_byte(p) \/ read_done(p)
  PROVE  Sleeps'
<1>1. /\ p \in Readers /\ p \notin Writers /\ lock = p
      /\ \A q \in Procs : q # p => pc[q] \notin Locked
  BY Sides DEF Inv, Inside, read_test, read_sleep, read_byte, read_done, Locked,
     ReadPlaces
<1>2. \A q \in Procs : pc[q] = "read_asleep" => Empty
  BY <1>1, Zenon DEF Sleeps
<1>3. CASE read_test(p)
  <2>1. /\ \A q \in Procs : q # p => pc'[q] = pc[q]
        /\ pc'[p] \in {"read_copy", "idle", "read_wait"}
        /\ pc'[p] = "read_wait" => Empty /\ writeopen = 1
    BY <1>3 DEF read_test, return, goto, Inv, Kinds
  <2>2. \A q \in Procs : pc[q] = "write_asleep" => Full
    BY <1>1, <1>3 DEF Sleeps, read_test
  <2>3. UNCHANGED <<pipe, ends, killed>>
    BY <1>3 DEF read_test
  <2>. QED BY <1>1, <1>2, <2>1, <2>2, <2>3, SameRing DEF Sleeps, ends, Locked
<1>4. CASE read_sleep(p)
  <2>1. \A q \in Procs : pc'[q] = IF q = p THEN "read_asleep" ELSE pc[q]
    BY <1>4 DEF read_sleep, goto, Inv, Kinds
  <2>2. \A q \in Procs : pc[q] = "write_asleep" => Full
    BY <1>1, <1>4 DEF Sleeps, read_sleep
  <2>3. UNCHANGED <<pipe, ends, killed>> /\ Empty /\ writeopen = 1
    BY <1>4 DEF read_sleep, Sleeps
  <2>. QED BY <1>1, <2>1, <2>2, <2>3, SameRing DEF Sleeps, ends, Locked
<1>5. CASE read_byte(p)
  <2>1. /\ \A q \in Procs : q # p => pc'[q] = pc[q]
        /\ pc'[p] \in {"read_copy", "read_break"}
        /\ lock' = lock
    BY <1>5 DEF read_byte, goto, Inv, Kinds
  <2>. QED BY <1>1, <1>2, <1>5, <2>1 DEF read_byte, Sleeps, ends, Locked
<1>6. CASE read_done(p)
  <2>1. \A q \in Procs :
          /\ pc'[q] # "write_asleep"
          /\ pc'[q] \notin Locked
          /\ pc'[q] = "read_asleep" => pc[q] = "read_asleep"
    BY <1>1, <1>6 DEF read_done, return, wakeWriters, wakeup, Inv, Kinds, Locked
  <2>2. UNCHANGED <<pipe, ends, killed>>
    BY <1>6 DEF read_done
  <2>. QED BY <1>2, <2>1, <2>2, SameRing DEF Sleeps, ends, Locked
<1>. QED BY <1>3, <1>4, <1>5, <1>6

\* Steps outside of pipewrite() and piperead().
LEMMA OutsideSleeps ==
  ASSUME Inv, Sleeps, NEW p \in Procs, fileclose(p) \/ pipeclose(p) \/ kill(p)
  PROVE  Sleeps'
<1>1. CASE fileclose(p)
  <2>1. /\ \A q \in Procs : q # p => pc'[q] = pc[q]
        /\ pc[p] = "idle" /\ pc'[p] \in {"idle", "pipeclose"}
    BY <1>1 DEF fileclose, goto, Inv, Kinds
  <2>2. lock # p
    BY <2>1 DEF Inv, Inside, Locked
  <2>3. UNCHANGED <<pipe, readopen, writeopen, lock, killed>>
    BY <1>1 DEF fileclose
  <2>. QED BY <2>1, <2>2, <2>3, SameRing DEF Sleeps, Procs
<1>2. CASE pipeclose(p)
  <2>1. \A q \in Procs : pc[q] \notin Locked
    BY <1>2, Sides, Zenon DEF pipeclose, Inv, Inside, Procs
  <2>2. \A q \in Procs :
          /\ pc'[q] \notin Locked
          /\ pc'[q] = "read_asleep" => pc[q] = "read_asleep" /\ p \notin Writers
          /\ pc'[q] = "write_asleep" => pc[q] = "write_asleep" /\ p \in Writers
    BY <1>2, <2>1 DEF pipeclose, goto, wakeReaders, wakeWriters, wakeup, Inv, Kinds,
       Locked
  <2>3. \A q \in Procs : /\ pc[q] = "read_asleep" => Empty /\ writeopen = 1
                         /\ pc[q] = "write_asleep" => Full /\ readopen = 1
    BY <1>2, Sides DEF pipeclose, Sleeps, Procs
  <2>4. /\ p \notin Writers => writeopen' = writeopen
        /\ p \in Writers => readopen' = readopen
        /\ UNCHANGED <<pipe, killed>>
    BY <1>2 DEF pipeclose
  <2>. QED BY <2>2, <2>3, <2>4, SameRing DEF Sleeps, Locked
<1>3. CASE kill(p)
  <2>1. \A q \in Procs :
          \/ pc'[q] = pc[q]
          \/ pc[q] \in {"read_asleep", "write_asleep"} /\ pc'[q] \in {"read_awake", "write_awake"}
    BY <1>3 DEF kill, Inv, Kinds
  <2>2. lock \in Procs => pc[lock] \notin {"read_asleep", "write_asleep"}
    BY DEF Inv, Inside, Locked
  <2>3. UNCHANGED <<pipe, ends, lock>> /\ killed' \subseteq killed \cup Killable
    BY <1>3 DEF kill
  <2>. QED BY <2>1, <2>2, <2>3, SameRing DEF Sleeps, ends, Procs
<1>. QED BY <1>1, <1>2, <1>3

\* If nobody kills a writer, no reader sleeps on data and no writer on room:
\* NoLostWakeup of Pipe.
THEOREM NoWakeupLost == ASSUME WritersSafe PROVE Spec => []NoLostWakeup
<1>1. Init => Sleeps
  BY DEF Init, Sleeps, Procs
<1>2. ASSUME Inv, Sleeps, [Next]_vars PROVE Sleeps'
  <2>1. CASE UNCHANGED vars
    BY <1>2, <2>1 DEF vars, pipe, ends, Sleeps, Empty, Full
  <2>2. ASSUME NEW p \in Procs, NEW count \in 0..MaxCount,
               enter(p, Writers, "write", count) \/ enter(p, Readers, "read", count)
        PROVE  Sleeps'
    BY <1>2, <2>2, LockSleeps DEF enter
  <2>3. ASSUME NEW p \in Procs,
               reacquire(p, "write_awake", "write") \/ reacquire(p, "read_awake", "read")
        PROVE  Sleeps'
    BY <1>2, <2>3, LockSleeps DEF reacquire
  <2>. QED BY <1>2, <2>1, <2>2, <2>3, WriteSleeps, ReadSleeps, OutsideSleeps
           DEF Next, pipewrite, piperead, Gone
<1>3. Inv /\ Sleeps => NoLostWakeup
  BY Sides DEF Sleeps, NoLostWakeup, Procs
<1>. QED BY <1>1, <1>2, <1>3, Invariance, PTL DEF Spec
==============================================================================
