-------------------------------- MODULE Pipe ---------------------------------
(***************************************************************************)
(* kernel/pipe.c: one pipe shared by processes that write and processes    *)
(* that read it, from pipealloc() until both ends are closed.              *)
(*                                                                         *)
(* pi->lock is explicit, because kill() can mark a process in the middle   *)
(* of its critical section.  sleep() releases the lock and sleeps in one   *)
(* step; module Proc shows why that is sound.  nread and nwrite are uint   *)
(* and wrap around.                                                        *)
(***************************************************************************)
EXTENDS Integers, Sequences

CONSTANTS
  Writers, Readers,   \* processes with the write end, the read end
  Bytes,
  PIPESIZE,
  UintMod,            \* number of values of a uint
  MaxCount,           \* largest count passed to read() and write()
  Killable,           \* processes that somebody kills
  Nobody

ASSUME ConstantsAssumption ==
  /\ PIPESIZE \in Nat \ {0}
  /\ UintMod \in Nat
  /\ \E k \in 2..UintMod : UintMod = k * PIPESIZE
  /\ MaxCount \in Nat
  /\ Writers \cap Readers = {}
  /\ Killable \subseteq Writers \cup Readers
  /\ Nobody \notin Writers \cup Readers

Procs == Writers \cup Readers
End(p) == IF p \in Writers THEN Writers ELSE Readers

VARIABLES
  data, nread, nwrite, readopen, writeopen,   \* struct pipe
  freed,    \* kfree() was called on it
  lock,     \* the process that holds pi->lock
  pc,       \* where each process is
  n, i,     \* its count and its loop index
  ch,       \* the byte piperead() took last
  killed,   \* processes marked by kill()
  fds       \* processes that hold a descriptor of the pipe

pipe == <<data, nread, nwrite>>
ends == <<readopen, writeopen, freed, fds>>
vars == <<pipe, ends, lock, pc, n, i, ch, killed>>

\* pipealloc(), and the descriptors inherited through fork().
Init ==
  /\ \E b \in Bytes : data = [k \in 0..(PIPESIZE - 1) |-> b] /\ ch = b
  /\ nread = 0 /\ nwrite = 0
  /\ readopen = 1 /\ writeopen = 1
  /\ freed = FALSE
  /\ lock = Nobody
  /\ pc = [p \in Procs |-> "idle"]
  /\ n = [p \in Procs |-> 0]
  /\ i = [p \in Procs |-> 0]
  /\ killed = {}
  /\ fds = Procs

Empty == nread = nwrite
\* Mutant: one byte more than the ring holds.
Full_OffByOne == nwrite = (nread + PIPESIZE + 1) % UintMod

Full == nwrite = (nread + PIPESIZE) % UintMod

\* wakeup(&pi->nread) and wakeup(&pi->nwrite).
wakeup(at, asleep, awake) ==
  [p \in Procs |-> IF at[p] = asleep THEN awake ELSE at[p]]
wakeReaders(at) == wakeup(at, "read_asleep", "read_awake")
wakeWriters(at) == wakeup(at, "write_asleep", "write_awake")

goto(p, l) == [pc EXCEPT ![p] = l]

\* release(&pi->lock) and return from the system call.
return(p, at) ==
  /\ lock' = Nobody
  /\ pc' = [at EXCEPT ![p] = "idle"]
  /\ n' = [n EXCEPT ![p] = 0]
  /\ i' = [i EXCEPT ![p] = 0]
------------------------------------------------------------------------------
enter(p, side, label, count) ==
  /\ p \in side \cap fds
  /\ pc[p] = "idle"
  /\ p \notin killed
  /\ lock = Nobody
  /\ lock' = p
  /\ pc' = goto(p, label)
  /\ n' = [n EXCEPT ![p] = count]
  /\ UNCHANGED <<pipe, ends, i, ch, killed>>

\* acquire(&pi->lock) at the end of sleep().
reacquire(p, from, to) ==
  /\ pc[p] = from
  /\ lock = Nobody
  /\ lock' = p
  /\ pc' = goto(p, to)
  /\ UNCHANGED <<pipe, ends, n, i, ch, killed>>
------------------------------------------------------------------------------
(* pipewrite *)

\* Mutant: pi->readopen is not tested.
write_test_IgnoresClose(p) ==
  /\ pc[p] = "write"
  /\ i[p] < n[p]
  /\ IF p \in killed
       THEN return(p, pc)
       ELSE pc' = goto(p, "write_body") /\ UNCHANGED <<lock, n, i>>
  /\ UNCHANGED <<pipe, ends, ch, killed>>

\* The head of the loop.
write_test(p) ==
  /\ pc[p] = "write"
  /\ i[p] < n[p]
  /\ IF readopen = 0 \/ p \in killed
       THEN return(p, pc)
       ELSE pc' = goto(p, "write_body") /\ UNCHANGED <<lock, n, i>>
  /\ UNCHANGED <<pipe, ends, ch, killed>>

write_sleep(p) ==
  /\ pc[p] = "write_body"
  /\ Full
  /\ pc' = wakeReaders(goto(p, "write_asleep"))
  /\ lock' = Nobody
  /\ UNCHANGED <<pipe, ends, n, i, ch, killed>>

write_byte(p, b) ==
  /\ pc[p] = "write_body"
  /\ ~Full
  /\ data' = [data EXCEPT ![nwrite % PIPESIZE] = b]
  /\ nwrite' = (nwrite + 1) % UintMod
  /\ i' = [i EXCEPT ![p] = @ + 1]
  /\ pc' = goto(p, "write")
  /\ UNCHANGED <<nread, ends, lock, n, ch, killed>>

\* Mutant: no wakeup(&pi->nread) at the end.
write_done_NoWakeup(p) ==
  /\ \/ pc[p] = "write" /\ i[p] = n[p]
     \/ pc[p] = "write_body" /\ ~Full
  /\ return(p, pc)
  /\ UNCHANGED <<pipe, ends, ch, killed>>

\* The end of the loop, or copyin() failed in it.
write_done(p) ==
  /\ \/ pc[p] = "write" /\ i[p] = n[p]
     \/ pc[p] = "write_body" /\ ~Full
  /\ return(p, wakeReaders(pc))
  /\ UNCHANGED <<pipe, ends, ch, killed>>
------------------------------------------------------------------------------
(* piperead *)

\* The head of the waiting loop.
read_test(p) ==
  /\ pc[p] = "read"
  /\ IF ~(Empty /\ writeopen = 1)
       THEN pc' = goto(p, "read_copy") /\ UNCHANGED <<lock, n, i>>
     ELSE IF p \in killed
       THEN return(p, pc)
     ELSE pc' = goto(p, "read_wait") /\ UNCHANGED <<lock, n, i>>
  /\ UNCHANGED <<pipe, ends, ch, killed>>

read_sleep(p) ==
  /\ pc[p] = "read_wait"
  /\ pc' = goto(p, "read_asleep")
  /\ lock' = Nobody
  /\ UNCHANGED <<pipe, ends, n, i, ch, killed>>

\* One byte; copyout() may fail after the byte has been taken.
read_byte(p) ==
  /\ pc[p] = "read_copy"
  /\ i[p] < n[p]
  /\ ~Empty
  /\ ch' = data[nread % PIPESIZE]
  /\ nread' = (nread + 1) % UintMod
  /\ \/ i' = [i EXCEPT ![p] = @ + 1] /\ UNCHANGED pc
     \/ pc' = goto(p, "read_break") /\ UNCHANGED i
  /\ UNCHANGED <<data, nwrite, ends, lock, n, killed>>

read_done(p) ==
  /\ \/ pc[p] = "read_copy" /\ (i[p] = n[p] \/ Empty)
     \/ pc[p] = "read_break"
  /\ return(p, wakeWriters(pc))
  /\ UNCHANGED <<pipe, ends, ch, killed>>
------------------------------------------------------------------------------
(* close and kill *)

\* fileclose(): the last descriptor of an end calls pipeclose().
fileclose(p) ==
  /\ pc[p] = "idle"
  /\ p \in fds
  /\ fds' = fds \ {p}
  /\ pc' = goto(p, IF fds' \cap End(p) = {} THEN "pipeclose" ELSE "idle")
  /\ UNCHANGED <<pipe, readopen, writeopen, freed, lock, n, i, ch, killed>>

\* Mutant: the page is freed when the first end is closed.
pipeclose_FreesEarly(p) ==
  /\ pc[p] = "pipeclose"
  /\ lock = Nobody
  /\ writeopen' = IF p \in Writers THEN 0 ELSE writeopen
  /\ readopen' = IF p \in Readers THEN 0 ELSE readopen
  /\ pc' = wakeReaders(wakeWriters(goto(p, "idle")))
  /\ freed' = TRUE
  /\ UNCHANGED <<pipe, fds, lock, n, i, ch, killed>>

pipeclose(p) ==
  /\ pc[p] = "pipeclose"
  /\ lock = Nobody
  /\ IF p \in Writers
       THEN /\ writeopen' = 0
            /\ pc' = wakeReaders(goto(p, "idle"))
            /\ UNCHANGED readopen
       ELSE /\ readopen' = 0
            /\ pc' = wakeWriters(goto(p, "idle"))
            /\ UNCHANGED writeopen
  /\ freed' = (readopen' = 0 /\ writeopen' = 0)
  /\ UNCHANGED <<pipe, fds, lock, n, i, ch, killed>>

\* kill() marks a process and makes it runnable if it sleeps.
kill(p) ==
  /\ p \in Killable \ killed
  /\ killed' = killed \cup {p}
  /\ pc' = [pc EXCEPT ![p] = IF @ = "read_asleep" THEN "read_awake"
                             ELSE IF @ = "write_asleep" THEN "write_awake"
                             ELSE @]
  /\ UNCHANGED <<pipe, ends, lock, n, i, ch>>
------------------------------------------------------------------------------
pipewrite(p) ==
  \/ reacquire(p, "write_awake", "write")
  \/ write_test(p) \/ write_sleep(p) \/ write_done(p)
  \/ \E b \in Bytes : write_byte(p, b)

piperead(p) ==
  \/ reacquire(p, "read_awake", "read")
  \/ read_test(p) \/ read_sleep(p) \/ read_byte(p) \/ read_done(p)

\* The only place where the pipe may come to rest.
Gone == freed /\ UNCHANGED vars

Next ==
  \/ \E p \in Procs :
       \/ \E count \in 0..MaxCount :
            enter(p, Writers, "write", count) \/ enter(p, Readers, "read", count)
       \/ pipewrite(p) \/ piperead(p)
       \/ fileclose(p) \/ pipeclose(p)
       \/ kill(p)
  \/ Gone

Spec == Init /\ [][Next]_vars

\* A system call in progress goes on, and a process that spins for pi->lock
\* gets it if the lock is free again and again.  Nobody has to start a call.
Fairness ==
  \A p \in Procs : SF_vars(pipewrite(p) \/ piperead(p) \/ pipeclose(p))
------------------------------------------------------------------------------
WritePlaces == {"write", "write_body", "write_asleep", "write_awake"}
ReadPlaces == {"read", "read_wait", "read_asleep", "read_awake", "read_copy",
               "read_break"}
Locked == {"write", "write_body", "read", "read_wait", "read_copy", "read_break"}

TypeOK ==
  /\ data \in [0..(PIPESIZE - 1) -> Bytes]
  /\ nread \in 0..(UintMod - 1) /\ nwrite \in 0..(UintMod - 1)
  /\ readopen \in {0, 1} /\ writeopen \in {0, 1}
  /\ freed \in BOOLEAN
  /\ lock \in Procs \cup {Nobody}
  /\ pc \in [Procs -> WritePlaces \cup ReadPlaces \cup {"idle", "pipeclose"}]
  /\ n \in [Procs -> 0..MaxCount] /\ i \in [Procs -> 0..MaxCount]
  /\ ch \in Bytes
  /\ killed \subseteq Procs
  /\ fds \subseteq Procs

\* Number of bytes in the ring.
Count == (nwrite - nread) % UintMod

ByteStream == INSTANCE Fifo WITH
  Size  <- PIPESIZE,
  queue <- [k \in 1..Count |-> data[(nread + k - 1) % PIPESIZE]],
  taken <- ch

\* The ring of pipe.c is a bounded queue: whatever the interleaving of readers,
\* writers, kills and closes, and across the wrap-around of nread and nwrite,
\* no byte is lost, repeated or reordered, and the ring never overflows.
FifoOrder == ByteStream!Spec

\* No wakeup is lost: a reader sleeps only while the pipe is empty and could still
\* be written (pipe.c:113, "DOC: pipe-empty"), a writer only while it is full and
\* could still be read (pipe.c:88, "DOC: pipewrite-full").
NoLostWakeup ==
  lock = Nobody =>
    /\ \A p \in Readers : pc[p] = "read_asleep" => Empty /\ writeopen = 1
    /\ \A p \in Writers : pc[p] = "write_asleep" => Full /\ readopen = 1

\* The page of the pipe is freed once, when nobody is inside the pipe.
FreedWhenUnused ==
  /\ TypeOK
  /\ freed => lock = Nobody /\ \A p \in Procs : pc[p] = "idle" /\ p \notin fds

\* Calls return: a reader that waits gets data that is there and notices the end
\* of the file, and a writer that waits notices a broken pipe.
CallsReturn ==
  /\ \A p \in Readers :
       (~Empty \/ writeopen = 0) /\ pc[p] \in ReadPlaces ~> pc[p] = "idle"
  /\ \A p \in Writers : readopen = 0 /\ pc[p] \in WritePlaces ~> pc[p] = "idle"
==============================================================================
