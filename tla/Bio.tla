--------------------------------- MODULE Bio ---------------------------------
(***************************************************************************)
(* The buffer cache: kernel/bio.c with the sleep locks of sleeplock.c, used *)
(* as fs.c and log.c use it.  A modified buffer is logged, which pins it,   *)
(* or written to the disk before it is released; a pinned buffer is written *)
(* before it is unpinned.                                                   *)
(*                                                                          *)
(* A critical section of bcache.lock, or of the spinlock inside a sleep     *)
(* lock, is one step.                                                       *)
(***************************************************************************)
EXTENDS Integers, FiniteSets

CONSTANTS
  Procs,
  Blocks,
  Data,
  NBUF,
  MaxPinned,   \* blocks that the log pins at a time
  None

ASSUME ConstantsAssumption ==
  /\ NBUF \in Nat \ {0} /\ MaxPinned \in Nat /\ IsFiniteSet(Procs)
  /\ None \notin Procs /\ None \notin Blocks /\ None \notin Int

Bufs == 1..NBUF

VARIABLES
  blockno, valid, refcnt, data,   \* struct buf
  locked,   \* process that holds b->lock
  lru,      \* the list, from head.next to head.prev
  disk,
  pinned,   \* blocks in log.lh
  pc,       \* where each process is
  want,     \* the block it asked for
  buf       \* the buffer bget() found

bufs == <<blockno, valid, refcnt, data, lru>>
vars == <<bufs, locked, disk, pinned, pc, want, buf>>

\* binit().
Init ==
  /\ blockno = [b \in Bufs |-> None]
  /\ valid = [b \in Bufs |-> 0]
  /\ refcnt = [b \in Bufs |-> 0]
  /\ \E v \in Data : data = [b \in Bufs |-> v]
  /\ locked = [b \in Bufs |-> None]
  /\ lru = [k \in 1..NBUF |-> NBUF + 1 - k]
  /\ disk \in [Blocks -> Data]
  /\ pinned = {}
  /\ pc = [p \in Procs |-> "idle"]
  /\ want = [p \in Procs |-> None]
  /\ buf = [p \in Procs |-> None]

goto(p, l) == [pc EXCEPT ![p] = l]
------------------------------------------------------------------------------
(* bread *)

Cached(k) == \E b \in Bufs : blockno[b] = k
Unused == {i \in 1..NBUF : refcnt[lru[i]] = 0}

\* The least recently used buffer that is unused.
Victim == lru[CHOOSE i \in Unused : \A j \in Unused : j <= i]

\* bget() up to its release of bcache.lock.
bget(p, k) ==
  /\ pc[p] = "idle"
  /\ IF Cached(k)
       THEN \E b \in Bufs :
              /\ blockno[b] = k
              /\ refcnt' = [refcnt EXCEPT ![b] = @ + 1]
              /\ buf' = [buf EXCEPT ![p] = b]
              /\ pc' = goto(p, "acquire")
              /\ UNCHANGED <<blockno, valid>>
     ELSE IF Unused # {}
       THEN /\ blockno' = [blockno EXCEPT ![Victim] = k]
            /\ valid' = [valid EXCEPT ![Victim] = 0]
            /\ refcnt' = [refcnt EXCEPT ![Victim] = 1]
            /\ buf' = [buf EXCEPT ![p] = Victim]
            /\ pc' = goto(p, "acquire")
       ELSE pc' = goto(p, "panic") /\ UNCHANGED <<blockno, valid, refcnt, buf>>
  /\ want' = [want EXCEPT ![p] = k]
  /\ UNCHANGED <<data, lru, locked, disk, pinned>>

\* One turn of the loop of acquiresleep().
acquiresleep(p) ==
  /\ pc[p] = "acquire"
  /\ IF locked[buf[p]] # None
       THEN pc' = goto(p, "asleep") /\ UNCHANGED locked
       ELSE /\ locked' = [locked EXCEPT ![buf[p]] = p]
            /\ pc' = goto(p, "fill")
  /\ UNCHANGED <<bufs, disk, pinned, want, buf>>

\* Mutant: b->valid is not tested, so the disk's copy replaces a newer one.
bread_Always(p) ==
  /\ pc[p] = "fill"
  /\ data' = [data EXCEPT ![buf[p]] = disk[want[p]]]
  /\ valid' = [valid EXCEPT ![buf[p]] = 1]
  /\ pc' = goto(p, "held")
  /\ UNCHANGED <<blockno, refcnt, lru, locked, disk, pinned, want, buf>>

\* The rest of bread().
bread(p) ==
  /\ pc[p] = "fill"
  /\ IF valid[buf[p]] = 0
       THEN /\ data' = [data EXCEPT ![buf[p]] = disk[blockno[buf[p]]]]
            /\ valid' = [valid EXCEPT ![buf[p]] = 1]
       ELSE UNCHANGED <<data, valid>>
  /\ pc' = goto(p, "held")
  /\ UNCHANGED <<blockno, refcnt, lru, locked, disk, pinned, want, buf>>
------------------------------------------------------------------------------
(* The holder of a buffer *)

\* fs.c or recovery modifies b->data.
modify(p, v) ==
  /\ pc[p] = "held"
  /\ data' = [data EXCEPT ![buf[p]] = v]
  /\ pc' = goto(p, "modified")
  /\ UNCHANGED <<blockno, valid, refcnt, lru, locked, disk, pinned, want, buf>>

\* log_write(): absorbed, or bpin().
bpin(p) ==
  LET k == blockno[buf[p]]
  IN  /\ pc[p] = "modified"
      /\ k \in pinned \/ Cardinality(pinned) < MaxPinned
      /\ pinned' = pinned \cup {k}
      /\ refcnt' = IF k \in pinned THEN refcnt
                                   ELSE [refcnt EXCEPT ![buf[p]] = @ + 1]
      /\ pc' = goto(p, "held")
      /\ UNCHANGED <<blockno, valid, data, lru, locked, disk, want, buf>>

\* bwrite(), of a block that is not in the log.
bwrite(p) ==
  /\ pc[p] = "modified"
  /\ blockno[buf[p]] \notin pinned
  /\ disk' = [disk EXCEPT ![blockno[buf[p]]] = data[buf[p]]]
  /\ pc' = goto(p, "held")
  /\ UNCHANGED <<bufs, locked, pinned, want, buf>>

\* install_trans(): bwrite() and bunpin().
bunpin(p) ==
  /\ pc[p] = "held"
  /\ blockno[buf[p]] \in pinned
  /\ disk' = [disk EXCEPT ![blockno[buf[p]]] = data[buf[p]]]
  /\ pinned' = pinned \ {blockno[buf[p]]}
  /\ refcnt' = [refcnt EXCEPT ![buf[p]] = @ - 1]
  /\ UNCHANGED <<blockno, valid, data, lru, locked, pc, want, buf>>
------------------------------------------------------------------------------
(* brelse *)

releasesleep(p) ==
  /\ pc[p] = "held"
  /\ locked' = [locked EXCEPT ![buf[p]] = None]
  /\ pc' = [q \in Procs |-> IF q = p THEN "release"
                            ELSE IF pc[q] = "asleep" /\ buf[q] = buf[p]
                            THEN "acquire" ELSE pc[q]]
  /\ UNCHANGED <<bufs, disk, pinned, want, buf>>

\* The list with b moved behind its head.
ToFront(b) ==
  LET i == CHOOSE i \in 1..NBUF : lru[i] = b
  IN  [j \in 1..NBUF |-> IF j = 1 THEN b ELSE IF j <= i THEN lru[j - 1] ELSE lru[j]]

\* Mutant: the reference is kept.
brelse_Leaks(p) ==
  /\ pc[p] = "release"
  /\ pc' = goto(p, "idle")
  /\ want' = [want EXCEPT ![p] = None]
  /\ buf' = [buf EXCEPT ![p] = None]
  /\ UNCHANGED <<blockno, valid, refcnt, data, lru, locked, disk, pinned>>

\* b->refcnt--, and to the front of the list if that was the last reference.
brelse(p) ==
  /\ pc[p] = "release"
  /\ refcnt' = [refcnt EXCEPT ![buf[p]] = @ - 1]
  /\ lru' = IF refcnt'[buf[p]] = 0 THEN ToFront(buf[p]) ELSE lru
  /\ pc' = goto(p, "idle")
  /\ want' = [want EXCEPT ![p] = None]
  /\ buf' = [buf EXCEPT ![p] = None]
  /\ UNCHANGED <<blockno, valid, data, locked, disk, pinned>>
------------------------------------------------------------------------------
Next == \E p \in Procs :
  \/ \E k \in Blocks : bget(p, k)
  \/ acquiresleep(p) \/ bread(p)
  \/ bpin(p) \/ bwrite(p) \/ bunpin(p) \/ releasesleep(p) \/ brelse(p)
  \/ \E v \in Data : modify(p, v)

Spec == Init /\ [][Next]_vars
------------------------------------------------------------------------------
\* bread() has returned and brelse() has not been called.
Holding == {"held", "modified"}

TypeOK ==
  /\ blockno \in [Bufs -> Blocks \cup {None}]
  /\ valid \in [Bufs -> {0, 1}]
  /\ refcnt \in [Bufs -> Nat]
  /\ data \in [Bufs -> Data] /\ disk \in [Blocks -> Data]
  /\ locked \in [Bufs -> Procs \cup {None}]
  /\ lru \in [1..NBUF -> Bufs] /\ \A b \in Bufs : \E i \in 1..NBUF : lru[i] = b
  /\ pinned \subseteq Blocks
  /\ pc \in [Procs -> Holding \cup {"idle", "acquire", "asleep", "fill", "release",
                               "panic"}]
  /\ want \in [Procs -> Blocks \cup {None}]
  /\ buf \in [Procs -> Bufs \cup {None}]

\* A reference count is exact: the processes between bget() and brelse(), and one
\* for the log.  So no buffer is recycled under anybody, and none leaks: with
\* NBUF >= |Procs| + MaxPinned the panic "bget: no buffers" is not reached.  A
\* process sleeps on the lock of a buffer only while another holds it.
RefcntExact ==
  /\ TypeOK
  /\ \A b \in Bufs :
       refcnt[b] = Cardinality({p \in Procs : buf[p] = b})
                   + (IF blockno[b] \in pinned THEN 1 ELSE 0)
  /\ \A p \in Procs : pc[p] # "panic"
  /\ \A p \in Procs : pc[p] = "asleep" => locked[buf[p]] \notin {None, p}

\* The contents a process finds in a block.
Content(k) ==
  IF \E b \in Bufs : blockno[b] = k /\ valid[b] = 1
    THEN data[CHOOSE b \in Bufs : blockno[b] = k /\ valid[b] = 1]
    ELSE disk[k]

Store == INSTANCE BlockStore WITH
  Nobody  <- None,
  content <- [k \in Blocks |-> Content(k)],
  holder  <- [k \in Blocks |->
                IF \E p \in Procs : want[p] = k /\ pc[p] \in Holding
                  THEN CHOOSE p \in Procs : want[p] = k /\ pc[p] \in Holding
                  ELSE None]

\* The cache is transparent: through recycling, pinning and the unlocked moments
\* of bget() and brelse(), a block has one holder at a time, and keeps what its
\* last holder left in it.
Transparent == Store!Spec
==============================================================================
