------------------------------ MODULE PipeProof ------------------------------
(***************************************************************************)
(* Proofs about Pipe, for every set of processes, every size of the ring   *)
(* and every width of the counters that the size divides: the arithmetic   *)
(* of the counters and an inductive invariant.                             *)
(***************************************************************************)
EXTENDS Pipe, Remainders, TLAPS

(* The counters of the ring. *)

\* The counters count more than the ring holds.
LEMMA RingSizes ==
  /\ PIPESIZE \in Nat /\ UintMod \in Nat
  /\ 0 < PIPESIZE /\ PIPESIZE < UintMod
<1>1. PICK k \in 2..UintMod : UintMod = k * PIPESIZE
  BY ConstantsAssumption
<1>2. (k - 1) * PIPESIZE >= PIPESIZE
  BY <1>1, Multiple, ConstantsAssumption
<1>. QED BY <1>1, <1>2, ConstantsAssumption

Counters == nread \in 0..UintMod - 1 /\ nwrite \in 0..UintMod - 1

\* Full and Empty, by the number of bytes in the ring.
LEMMA CountMeans ==
  ASSUME Counters
  PROVE  /\ Count \in 0..UintMod - 1
         /\ Empty <=> Count = 0
         /\ Full <=> Count = PIPESIZE
         /\ nwrite = (nread + Count) % UintMod
<1> USE RingSizes DEF Counters
<1>1. Count = IF nwrite < nread THEN nwrite - nread + UintMod ELSE nwrite - nread
  BY ModNear DEF Count
<1>2. (nread + PIPESIZE) % UintMod =
        IF nread + PIPESIZE < UintMod THEN nread + PIPESIZE ELSE nread + PIPESIZE - UintMod
  BY ModNear
<1>3. (nread + Count) % UintMod =
        IF nread + Count < UintMod THEN nread + Count ELSE nread + Count - UintMod
  BY <1>1, ModNear
<1>. QED BY <1>1, <1>2, <1>3 DEF Empty, Full

\* A byte more.
LEMMA CountPut ==
  ASSUME Counters, Count < PIPESIZE, nwrite' = (nwrite + 1) % UintMod, nread' = nread
  PROVE  Counters' /\ Count' = Count + 1
<1> USE RingSizes DEF Counters
<1>1. Count = IF nwrite < nread THEN nwrite - nread + UintMod ELSE nwrite - nread
  BY ModNear DEF Count
<1>2. nwrite' = IF nwrite + 1 < UintMod THEN nwrite + 1 ELSE nwrite + 1 - UintMod
  BY ModNear
<1>3. Count' = IF nwrite' < nread THEN nwrite' - nread + UintMod ELSE nwrite' - nread
  BY <1>2, ModNear DEF Count
<1>. QED BY <1>1, <1>2, <1>3

\* A byte less.
LEMMA CountTake ==
  ASSUME Counters, Count > 0, nread' = (nread + 1) % UintMod, nwrite' = nwrite
  PROVE  Counters' /\ Count' = Count - 1
<1> USE RingSizes DEF Counters
<1>1. Count = IF nwrite < nread THEN nwrite - nread + UintMod ELSE nwrite - nread
  BY ModNear DEF Count
<1>2. nread' = IF nread + 1 < UintMod THEN nread + 1 ELSE nread + 1 - UintMod
  BY ModNear
<1>3. Count' = IF nwrite < nread' THEN nwrite - nread' + UintMod ELSE nwrite - nread'
  BY <1>2, ModNear DEF Count
<1>. QED BY <1>1, <1>2, <1>3

\* What the steps below rely on.
Ring ==
  /\ Counters
  /\ data \in [0..PIPESIZE - 1 -> Bytes]
  /\ ch \in Bytes
  /\ Count <= PIPESIZE
------------------------------------------------------------------------------

(* Who is inside, and who has which end. *)

Places == WritePlaces \cup ReadPlaces \cup {"idle", "pipeclose"}

\* TypeOK without freed.
Kinds ==
  /\ data \in [0..(PIPESIZE - 1) -> Bytes]
  /\ nread \in 0..(UintMod - 1) /\ nwrite \in 0..(UintMod - 1)
  /\ readopen \in {0, 1} /\ writeopen \in {0, 1}
  /\ lock \in Procs \cup {Nobody}
  /\ pc \in [Procs -> Places]
  /\ n \in [Procs -> 0..MaxCount] /\ i \in [Procs -> 0..MaxCount]
  /\ ch \in Bytes
  /\ killed \subseteq Procs
  /\ fds \subseteq Procs

Inside ==
  /\ \A p \in Procs : pc[p] \in Locked <=> lock = p
  /\ \A p \in Procs : pc[p] \in WritePlaces => p \in Writers /\ p \in fds
  /\ \A p \in Procs : pc[p] \in ReadPlaces => p \in Readers /\ p \in fds
  /\ \A p \in Procs : pc[p] = "write_body" => i[p] < n[p]

\* One process closes an end, when no descriptor of it is left.
Closing ==
  /\ \A p \in Procs : pc[p] = "pipeclose" => fds \cap End(p) = {}
  /\ \A p, q \in Procs :
       pc[p] = "pipeclose" /\ pc[q] = "pipeclose" /\ (p \in Writers <=> q \in Writers) => p = q
  /\ writeopen = 0 => \A p \in Writers : p \notin fds /\ pc[p] # "pipeclose"
  /\ readopen = 0 => \A p \in Readers : p \notin fds /\ pc[p] # "pipeclose"

FreedIs == freed = (readopen = 0 /\ writeopen = 0)

\* The inductive invariant.
Inv == Kinds /\ Count <= PIPESIZE /\ Inside /\ Closing /\ FreedIs

\* It contains the type invariant.
LEMMA InvTypes == Inv => TypeOK
<1> SUFFICES ASSUME Inv PROVE TypeOK
  OBVIOUS
<1>1. freed \in BOOLEAN
  BY Zenon DEF Inv, FreedIs
<1>. QED BY <1>1, Zenon DEF Inv, Kinds, TypeOK, Places

\* The two sides are apart, and Nobody is on neither.
LEMMA Sides ==
  /\ Writers \cap Readers = {} /\ Killable \subseteq Writers \cup Readers
  /\ Nobody \notin Writers /\ Nobody \notin Readers
  /\ MaxCount \in Nat
  BY ConstantsAssumption

\* A pipe that was just made satisfies it.
LEMMA InitInv == Init => Inv
<1> SUFFICES ASSUME Init PROVE Inv
  OBVIOUS
<1> USE RingSizes
<1>0. PICK b \in Bytes : data = [k \in 0..(PIPESIZE - 1) |-> b] /\ ch = b
  BY DEF Init
<1>1. Kinds
  BY <1>0, Sides DEF Init, Kinds, Places
<1>2. Count = 0
  BY ModNear DEF Init, Count
<1>3. Inside
  BY Sides DEF Init, Inside, Procs, Locked, WritePlaces, ReadPlaces
<1>4. Closing
  BY DEF Init, Closing, Procs
<1>5. FreedIs
  <2>1. ~(readopen = 0 /\ writeopen = 0)
    BY DEF Init
  <2>. QED BY <2>1, Zenon DEF Init, FreedIs
<1>. QED BY <1>1, <1>2, <1>3, <1>4, <1>5 DEF Inv

\* What the invariant says about the ring.
LEMMA InvRing == Inv => Ring
  BY DEF Inv, Kinds, Ring, Counters

\* Steps that leave the ring alone leave the count alone.
LEMMA SameCount == UNCHANGED pipe => Count' = Count
  BY DEF pipe, Count

\* Steps that close no end free nothing.
LEMMA SameFreed == FreedIs /\ UNCHANGED <<readopen, writeopen, freed>> => FreedIs'
  BY DEF FreedIs

\* at is pc but for sleepers that were woken.
Woken(at) ==
  /\ at \in [Procs -> Places]
  /\ \A q \in Procs : \/ at[q] = pc[q]
                      \/ pc[q] = "read_asleep" /\ at[q] = "read_awake"
                      \/ pc[q] = "write_asleep" /\ at[q] = "write_awake"

\* What wakeup() makes of pc.
LEMMA WokenIs ==
  ASSUME Kinds
  PROVE  Woken(pc) /\ Woken(wakeReaders(pc)) /\ Woken(wakeWriters(pc))
  BY DEF Woken, Kinds, wakeReaders, wakeWriters, wakeup, Places, WritePlaces, ReadPlaces

\* Steps that leave the ends alone.
LEMMA InsideInv ==
  ASSUME Inv, UNCHANGED ends, Kinds', Count' <= PIPESIZE, Inside',
         \A q \in Procs : pc'[q] = "pipeclose" <=> pc[q] = "pipeclose"
  PROVE  Inv'
<1>1. Closing'
  BY DEF Inv, Closing, Procs, End, ends
<1>. QED BY <1>1, SameFreed DEF Inv, ends

\* Steps that only move processes.
LEMMA MoveInv ==
  ASSUME Inv, UNCHANGED <<pipe, ends>>, Kinds', Inside',
         \A q \in Procs : pc'[q] = "pipeclose" <=> pc[q] = "pipeclose"
  PROVE  Inv'
  BY InsideInv, SameCount DEF Inv

\* A call that ends.
LEMMA ReturnInv ==
  ASSUME Inv, NEW p \in Procs, pc[p] \in Locked, NEW at, Woken(at), return(p, at),
         UNCHANGED <<pipe, ends, ch, killed>>
  PROVE  Inv'
<1> USE DEF Inv
<1>1. \A q \in Procs : pc'[q] = IF q = p THEN "idle" ELSE at[q]
  BY DEF return, Woken
<1>2. Kinds'
  <2>1. pc' \in [Procs -> Places]
    BY DEF return, Woken, Places
  <2>. QED BY <2>1, Sides DEF return, Kinds, pipe, ends
<1>3. \A q \in Procs : pc[q] \in Locked /\ q # p => pc[q] \notin Locked
  BY DEF Inside
<1>4. \A q \in Procs : pc'[q] \notin Locked
  BY <1>1, <1>3 DEF Woken, Locked, Inside
<1>5. Inside'
  <2>1. lock' \notin Procs
    BY Sides DEF return, Procs
  <2>2. \A q \in Procs : pc'[q] \in WritePlaces => pc[q] \in WritePlaces
    BY <1>1 DEF Woken, WritePlaces
  <2>3. \A q \in Procs : pc'[q] \in ReadPlaces => pc[q] \in ReadPlaces
    BY <1>1 DEF Woken, ReadPlaces
  <2>4. \A q \in Procs : pc'[q] # "write_body"
    BY <1>4 DEF Locked
  <2>. QED BY <1>4, <2>1, <2>2, <2>3, <2>4 DEF Inside, ends
<1>. QED BY <1>1, <1>2, <1>5, MoveInv DEF Woken, Locked

\* A call that goes on with pi->lock held.
LEMMA GotoInv ==
  ASSUME Inv, NEW p \in Procs, NEW l, pc' = goto(p, l),
         \/ pc[p] \in WritePlaces /\ l = "write"
         \/ pc[p] \in WritePlaces /\ l = "write_body" /\ i[p] < n[p]
         \/ pc[p] \in ReadPlaces /\ l \in {"read", "read_wait", "read_copy", "read_break"},
         lock = p \/ lock = Nobody, lock' = p,
         UNCHANGED <<pipe, ends, n, i, ch, killed>>
  PROVE  Inv'
<1> USE DEF Inv
<1>1. \A q \in Procs : pc'[q] = IF q = p THEN l ELSE pc[q]
  BY DEF goto, Kinds
<1>2. Kinds'
  <2>1. pc' \in [Procs -> Places]
    BY DEF goto, Kinds, Places, WritePlaces, ReadPlaces
  <2>. QED BY <2>1 DEF Kinds, pipe, ends
<1>3. \A q \in Procs : q # p => pc[q] \notin Locked
  BY Sides DEF Inside, Procs
<1>4. Inside'
  <2>1. l \in Locked
    BY DEF Locked
  <2>2. \A q \in Procs : pc'[q] \in WritePlaces => pc[q] \in WritePlaces
    BY <1>1 DEF WritePlaces
  <2>3. \A q \in Procs : pc'[q] \in ReadPlaces => pc[q] \in ReadPlaces
    BY <1>1 DEF ReadPlaces
  <2>4. \A q \in Procs : pc'[q] = "write_body" => i[q] < n[q]
    BY <1>1 DEF Inside
  <2>. QED BY <1>1, <1>3, <2>1, <2>2, <2>3, <2>4 DEF Inside, ends
<1>. QED BY <1>1, <1>2, <1>4, MoveInv DEF WritePlaces, ReadPlaces
------------------------------------------------------------------------------
(* The steps, one by one. *)

\* A call of read() or write() takes pi->lock.
LEMMA EnterInv ==
  ASSUME Inv, NEW p \in Procs, NEW count \in 0..MaxCount,
         enter(p, Writers, "write", count) \/ enter(p, Readers, "read", count)
  PROVE  Inv'
<1>1. PICK l \in {"write", "read"} :
        /\ pc' = goto(p, l) /\ p \in IF l = "write" THEN Writers ELSE Readers
        /\ pc[p] = "idle" /\ p \in fds
        /\ lock = Nobody /\ lock' = p /\ n' = [n EXCEPT ![p] = count]
        /\ UNCHANGED <<pipe, ends, i, ch, killed>>
  BY DEF enter
<1>2. \A q \in Procs : pc'[q] = IF q = p THEN l ELSE pc[q]
  BY <1>1 DEF goto, Inv, Kinds
<1>3. Kinds'
  <2>1. pc' \in [Procs -> Places]
    BY <1>1 DEF goto, Inv, Kinds, Places, WritePlaces, ReadPlaces
  <2>2. n' \in [Procs -> 0..MaxCount]
    BY <1>1 DEF Inv, Kinds
  <2>. QED BY <1>1, <2>1, <2>2 DEF Inv, Kinds, pipe, ends
<1>4. Inside'
  <2>1. \A q \in Procs : q # p => pc[q] \notin Locked /\ pc[q] # "write_body"
    BY <1>1, Sides DEF Inv, Inside, Procs, Locked
  <2>. QED BY <1>1, <1>2, <2>1, Sides DEF Inv, Inside, ends, Procs, Locked,
     WritePlaces, ReadPlaces
<1>. QED BY <1>1, <1>2, <1>3, <1>4, MoveInv

\* sleep() takes it again.
LEMMA ReacquireInv ==
  ASSUME Inv, NEW p \in Procs,
         reacquire(p, "write_awake", "write") \/ reacquire(p, "read_awake", "read")
  PROVE  Inv'
  BY GotoInv DEF reacquire, WritePlaces, ReadPlaces

\* The tests at the head of the loops: the call ends or goes on.
LEMMA TestInv ==
  ASSUME Inv, NEW p \in Procs, write_test(p) \/ read_test(p)
  PROVE  Inv'
<1>1. lock = p /\ pc[p] \in Locked /\ Woken(pc)
  BY WokenIs DEF Inv, Inside, write_test, read_test, Locked
<1>2. CASE return(p, pc)
  BY <1>1, <1>2, ReturnInv DEF write_test, read_test
<1>3. CASE ~return(p, pc) /\ write_test(p)
  BY <1>1, <1>3, GotoInv DEF write_test, WritePlaces
<1>4. CASE ~return(p, pc) /\ read_test(p)
  BY <1>1, <1>4, GotoInv DEF read_test, ReadPlaces
<1>. QED BY <1>2, <1>3, <1>4

\* sleep() gives the lock up.
LEMMA SleepInv ==
  ASSUME Inv, NEW p \in Procs, write_sleep(p) \/ read_sleep(p)
  PROVE  Inv'
<1>1. pc[p] \in Locked /\ lock' = Nobody /\ UNCHANGED <<pipe, ends, n, i, ch, killed>>
  BY DEF write_sleep, read_sleep, Locked
<1>2. /\ pc' \in [Procs -> Places]
      /\ \A q \in Procs : q # p => \/ pc'[q] = pc[q]
                                   \/ pc[q] = "read_asleep" /\ pc'[q] = "read_awake"
      /\ \/ pc[p] \in WritePlaces /\ pc'[p] = "write_asleep"
         \/ pc[p] \in ReadPlaces /\ pc'[p] = "read_asleep"
  <2>1. CASE write_sleep(p)
    BY <2>1 DEF write_sleep, wakeReaders, wakeup, goto, Inv, Kinds, Places,
       WritePlaces, ReadPlaces
  <2>2. CASE read_sleep(p)
    BY <2>2 DEF read_sleep, goto, Inv, Kinds, Places, WritePlaces, ReadPlaces
  <2>. QED BY <2>1, <2>2
<1>3. Kinds'
  BY <1>1, <1>2 DEF Inv, Kinds, pipe, ends
<1>4. Inside'
  <2>1. \A q \in Procs : q # p => pc[q] \notin Locked
    BY <1>1 DEF Inv, Inside
  <2>2. \A q \in Procs : pc'[q] \notin Locked
    BY <1>2, <2>1 DEF Locked
  <2>3. \A q \in Procs : /\ pc'[q] \in WritePlaces => pc[q] \in WritePlaces
                         /\ pc'[q] \in ReadPlaces => pc[q] \in ReadPlaces
    BY <1>2 DEF WritePlaces, ReadPlaces
  <2>4. lock' \notin Procs
    BY <1>1, Sides DEF Procs
  <2>. QED BY <1>1, <2>2, <2>3, <2>4 DEF Inv, Inside, ends, Locked
<1>5. \A q \in Procs : pc'[q] = "pipeclose" <=> pc[q] = "pipeclose"
  BY <1>2, Zenon DEF WritePlaces, ReadPlaces
<1>. QED BY <1>1, <1>3, <1>4, <1>5, MoveInv

\* Both calls end with a wakeup().
LEMMA DoneInv ==
  ASSUME Inv, NEW p \in Procs, write_done(p) \/ read_done(p)
  PROVE  Inv'
<1>1. pc[p] \in Locked
  BY DEF write_done, read_done, Locked
<1>. QED BY <1>1, WokenIs, ReturnInv DEF Inv, write_done, read_done

\* A byte that is put fits.
LEMMA WriteByteInv ==
  ASSUME Inv, NEW p \in Procs, NEW b \in Bytes, write_byte(p, b)
  PROVE  Inv'
<1> USE DEF Inv
<1>1. Ring /\ Count \in Nat /\ Count < PIPESIZE
  BY InvRing, CountMeans, RingSizes DEF Ring, write_byte
<1>2. Ring'
  <2>1. Counters' /\ Count' = Count + 1
    BY <1>1, CountPut DEF Ring, write_byte
  <2>2. data' \in [0..PIPESIZE - 1 -> Bytes] /\ ch' \in Bytes
    BY <1>1, Zenon DEF Ring, write_byte
  <2>. QED BY <1>1, <2>1, <2>2, RingSizes DEF Ring
<1>3. p \in Writers /\ lock = p /\ i[p] < n[p] /\ p \in fds
  BY DEF write_byte, Inside, Locked, WritePlaces
<1>4. \A q \in Procs : /\ pc'[q] = IF q = p THEN "write" ELSE pc[q]
                       /\ i'[q] = IF q = p THEN i[p] + 1 ELSE i[q]
  BY DEF write_byte, goto, Kinds
<1>5. Kinds'
  <2>1. pc' \in [Procs -> Places]
    BY DEF write_byte, goto, Kinds, Places, WritePlaces
  <2>2. i' \in [Procs -> 0..MaxCount]
    BY <1>3, Sides DEF write_byte, Kinds
  <2>. QED BY <1>2, <2>1, <2>2 DEF Kinds, Ring, Counters, write_byte, ends
<1>6. Inside'
  BY <1>3, <1>4, Sides, SMTT(30) DEF Inside, write_byte, ends, Locked, WritePlaces,
     ReadPlaces
<1>7. \A q \in Procs : pc'[q] = "pipeclose" <=> pc[q] = "pipeclose"
  BY <1>4 DEF write_byte
<1>8. UNCHANGED ends
  BY DEF write_byte
<1>. QED BY <1>1, <1>2, <1>5, <1>6, <1>7, <1>8, InsideInv DEF Ring

\* A byte is taken only if there is one.
LEMMA ReadByteInv ==
  ASSUME Inv, NEW p \in Procs, read_byte(p)
  PROVE  Inv'
<1> USE DEF Inv
<1>1. Ring /\ Count \in Nat /\ Count > 0
  BY InvRing, CountMeans, RingSizes DEF Ring, read_byte
<1>2. Ring'
  <2>1. Counters' /\ Count' = Count - 1
    BY <1>1, CountTake DEF Ring, read_byte
  <2>2. ch' \in Bytes
    <3>1. nread % PIPESIZE \in 0..PIPESIZE - 1
      BY <1>1, RingSizes, ModRange DEF Ring, Counters
    <3>. QED BY <1>1, <3>1 DEF Ring, read_byte
  <2>3. data' \in [0..PIPESIZE - 1 -> Bytes]
    BY <1>1 DEF Ring, read_byte
  <2>. QED BY <1>1, <2>1, <2>2, <2>3, RingSizes DEF Ring
<1>3. p \in Readers /\ lock = p /\ i[p] < n[p] /\ p \in fds
  BY DEF read_byte, Inside, Locked, ReadPlaces
<1>4. /\ pc'[p] \in {"read_copy", "read_break"}
      /\ \A q \in Procs : q # p => pc'[q] = pc[q] /\ i'[q] = i[q]
  BY DEF read_byte, goto, Kinds
<1>5. Kinds'
  <2>1. pc' \in [Procs -> Places]
    BY Zenon DEF read_byte, goto, Kinds, Places, ReadPlaces
  <2>2. i' \in [Procs -> 0..MaxCount]
    BY <1>3, Sides DEF read_byte, Kinds
  <2>. QED BY <1>2, <2>1, <2>2 DEF Kinds, Ring, Counters, read_byte, ends
<1>6. Inside'
  BY <1>3, <1>4, Sides, SMTT(30) DEF Inside, read_byte, ends, Locked, WritePlaces,
     ReadPlaces
<1>7. \A q \in Procs : pc'[q] = "pipeclose" <=> pc[q] = "pipeclose"
  BY <1>4 DEF read_byte
<1>8. UNCHANGED ends
  BY DEF read_byte
<1>. QED BY <1>2, <1>5, <1>6, <1>7, <1>8, InsideInv DEF Ring

\* The last descriptor of an end is closed by one process.
LEMMA FilecloseInv ==
  ASSUME Inv, NEW p \in Procs, fileclose(p)
  PROVE  Inv'
<1> USE DEF Inv, fileclose, goto
<1>1. Kinds'
  BY DEF Kinds, pipe, Places
<1>2. Inside'
  BY Sides DEF Inside, Kinds, Procs, Locked, WritePlaces, ReadPlaces
<1>3. \A q \in Procs : pc'[q] = IF q = p THEN pc'[p] ELSE pc[q]
  BY DEF Kinds
<1>4. \A q \in Procs : pc[q] = "pipeclose" => ~(p \in Writers <=> q \in Writers)
  BY Sides DEF Closing, End, Procs
<1>5. Closing'
  <2>1. \A q \in Procs : pc'[q] = "pipeclose" => fds' \cap End(q) = {}
    BY <1>3 DEF Closing, Kinds
  <2>2. \A q, r \in Procs :
          pc'[q] = "pipeclose" /\ pc'[r] = "pipeclose" /\ (q \in Writers <=> r \in Writers) => q = r
    BY <1>3, <1>4 DEF Closing
  <2>3. writeopen' = 0 => \A q \in Writers : q \notin fds' /\ pc'[q] # "pipeclose"
    BY <1>3 DEF Closing, Procs
  <2>4. readopen' = 0 => \A q \in Readers : q \notin fds' /\ pc'[q] # "pipeclose"
    BY <1>3 DEF Closing, Procs
  <2>. QED BY <2>1, <2>2, <2>3, <2>4 DEF Closing
<1>. QED BY <1>1, <1>2, <1>5, SameCount, SameFreed

\* pipeclose() closes one end, and frees the page if it is the second.
LEMMA PipecloseInv ==
  ASSUME Inv, NEW p \in Procs, pipeclose(p)
  PROVE  Inv'
<1> USE DEF Inv
<1>1. /\ pc' \in [Procs -> Places]
      /\ \A q \in Procs : IF q = p THEN pc'[q] = "idle"
                          ELSE \/ pc'[q] = pc[q]
                               \/ pc[q] = "read_asleep" /\ pc'[q] = "read_awake"
                               \/ pc[q] = "write_asleep" /\ pc'[q] = "write_awake"
  BY DEF pipeclose, goto, wakeReaders, wakeWriters, wakeup, Kinds, Places, WritePlaces,
     ReadPlaces
<1>2. Kinds'
  BY <1>1 DEF pipeclose, Kinds, pipe
<1>3. Inside'
  BY <1>1, Sides, Zenon DEF pipeclose, Inside, Kinds, Procs, Locked, WritePlaces,
     ReadPlaces
<1>4. Closing'
  BY <1>1, Sides, Zenon DEF pipeclose, Closing, Kinds, Procs, End
<1>5. FreedIs'
  BY Zenon DEF pipeclose, FreedIs
<1>6. UNCHANGED pipe
  BY DEF pipeclose
<1>. QED BY <1>2, <1>3, <1>4, <1>5, <1>6, SameCount

\* kill() wakes a sleeper.
LEMMA KillInv ==
  ASSUME Inv, NEW p \in Procs, kill(p)
  PROVE  Inv'
<1> USE DEF Inv
<1>1. /\ pc' \in [Procs -> Places]
      /\ \A q \in Procs : \/ pc'[q] = pc[q]
                          \/ pc[q] = "read_asleep" /\ pc'[q] = "read_awake"
                          \/ pc[q] = "write_asleep" /\ pc'[q] = "write_awake"
  BY DEF kill, Kinds, Places, WritePlaces, ReadPlaces
<1>2. Kinds'
  BY <1>1 DEF kill, Kinds, pipe, ends
<1>3. Inside'
  BY <1>1, Sides DEF kill, Inside, ends, Locked, WritePlaces, ReadPlaces
<1>. QED BY <1>1, <1>2, <1>3, MoveInv DEF kill

\* Every step preserves the invariant; a step is a byte put, a byte taken, or leaves
\* the ring and ch alone.
LEMMA NextInv ==
  ASSUME Inv, [Next]_vars
  PROVE  /\ Inv'
         /\ \/ UNCHANGED <<pipe, ch>>
            \/ \E p \in Procs : read_byte(p) \/ \E b \in Bytes : write_byte(p, b)
<1>1. CASE UNCHANGED vars
  BY <1>1 DEF vars, pipe, ends, Inv, Kinds, Count, Inside, Closing, FreedIs
<1>2. ASSUME NEW p \in Procs, NEW count \in 0..MaxCount,
             enter(p, Writers, "write", count) \/ enter(p, Readers, "read", count)
      PROVE  Inv' /\ UNCHANGED <<pipe, ch>>
  BY <1>2, EnterInv DEF enter
<1>3. ASSUME NEW p \in Procs,
             reacquire(p, "write_awake", "write") \/ reacquire(p, "read_awake", "read")
      PROVE  Inv' /\ UNCHANGED <<pipe, ch>>
  BY <1>3, ReacquireInv DEF reacquire
<1>4. ASSUME NEW p \in Procs, write_test(p) \/ read_test(p)
      PROVE  Inv' /\ UNCHANGED <<pipe, ch>>
  BY <1>4, TestInv DEF write_test, read_test
<1>5. ASSUME NEW p \in Procs, write_sleep(p) \/ read_sleep(p)
      PROVE  Inv' /\ UNCHANGED <<pipe, ch>>
  BY <1>5, SleepInv DEF write_sleep, read_sleep
<1>6. ASSUME NEW p \in Procs, write_done(p) \/ read_done(p)
      PROVE  Inv' /\ UNCHANGED <<pipe, ch>>
  BY <1>6, DoneInv DEF write_done, read_done
<1>7. ASSUME NEW p \in Procs, fileclose(p) \/ pipeclose(p) \/ kill(p)
      PROVE  Inv' /\ UNCHANGED <<pipe, ch>>
  BY <1>7, FilecloseInv, PipecloseInv, KillInv DEF fileclose, pipeclose, kill
<1>8. ASSUME NEW p \in Procs, NEW b \in Bytes, write_byte(p, b)
      PROVE  Inv'
  BY <1>8, WriteByteInv
<1>9. ASSUME NEW p \in Procs, read_byte(p)
      PROVE  Inv'
  BY <1>9, ReadByteInv
<1>. QED BY <1>1, <1>2, <1>3, <1>4, <1>5, <1>6, <1>7, <1>8, <1>9
         DEF Next, pipewrite, piperead, Gone, vars, pipe

\* Inv is an invariant of Pipe: it is the induction behind PipeTheorems.
THEOREM Invariance == Spec => []Inv
<1>1. Inv /\ [Next]_vars => Inv'
  BY NextInv
<1>. QED BY InitInv, <1>1, PTL DEF Spec
==============================================================================
