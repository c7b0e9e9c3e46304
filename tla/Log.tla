--------------------------------- MODULE Log ---------------------------------
(***************************************************************************)
(* The redo log of kernel/log.c, over the buffer cache of kernel/bio.c and *)
(* a disk that writes one block at a time, with a crash between any two    *)
(* steps and recovery at the next boot.                                    *)
(*                                                                         *)
(* A critical section of log.lock is one step.  commit() and               *)
(* recover_from_log() run without a lock: every disk write they make is a  *)
(* step of its own, so a crash can fall between any two of them.           *)
(***************************************************************************)
EXTENDS Integers, Sequences, FiniteSets

CONSTANTS
  Procs,        \* processes that make file system calls
  Blocks,       \* home blocks of the file system
  Data,         \* contents of a block
  LOGSIZE,      \* param.h: space begin_op() reserves against
  MAXOPBLOCKS,  \* param.h: what begin_op() reserves for one operation
  NLOG,         \* sb.nlog: blocks of the on-disk log, its header included
  OpMax,        \* distinct blocks one operation really logs
  NotCached     \* a block that no buffer holds

ASSUME ConstantsAssumption ==
  /\ IsFiniteSet(Procs)
  /\ LOGSIZE \in Nat /\ MAXOPBLOCKS \in Nat /\ NLOG \in Nat /\ OpMax \in Nat
  /\ 0 < MAXOPBLOCKS /\ MAXOPBLOCKS <= LOGSIZE
  /\ OpMax <= MAXOPBLOCKS
  /\ NotCached \notin Data

VARIABLES
  disk,         \* home blocks on the device
  dlog,         \* the log's data blocks on the device
  dhead,        \* the log's header on the device: block[0..n-1]
  cache,        \* contents of the buffer that holds a block
  pins,         \* references to that buffer taken by bpin()
  lh,           \* log.lh
  outstanding,  \* log.outstanding
  committing,   \* log.committing
  pc,           \* where each process is
  wrote,        \* blocks logged by each process's current operation
  step,         \* where the thread inside commit() or recovery is
  tail          \* its loop index

device == <<disk, dlog, dhead>>
bcache == <<cache, pins>>
log    == <<lh, outstanding, committing>>
vars   == <<device, bcache, log, pc, wrote, step, tail>>

Steps == {"none", "write_log", "install_trans", "finish",
          "read_head", "recover", "panic"}

Places == {"idle", "begin", "asleep", "op", "commit"}

\* Only the first process runs, inside fsinit(); see forkret() in proc.c.
Booting == step \in {"read_head", "recover"}

\* System calls run: recovery is over and no panic() stopped the machine.
Up == ~Booting /\ step # "panic"

Logged == {lh[i] : i \in DOMAIN lh}

\* Processes between begin_op() and end_op().
Open == {p \in Procs : pc[p] = "op"}

\* bread(): the cached copy if there is one, else the disk's.
bread(b) == IF cache[b] = NotCached THEN disk[b] ELSE cache[b]

\* wakeup(&log): every process asleep in begin_op() runs again.
wakeup(at) == [p \in Procs |-> IF at[p] = "asleep" THEN "begin" ELSE at[p]]

PowerOn ==
  /\ cache = [b \in Blocks |-> NotCached]
  /\ pins = [b \in Blocks |-> 0]
  /\ lh = <<>>
  /\ outstanding = 0
  /\ committing = 0
  /\ pc = [p \in Procs |-> "idle"]
  /\ wrote = [p \in Procs |-> {}]
  /\ step = "read_head"
  /\ tail = 0

\* A disk as mkfs leaves it: the log's header block is all zeroes.
Init ==
  /\ disk \in [Blocks -> Data]
  /\ \E v \in Data : dlog = [i \in 1..LOGSIZE |-> v]
  /\ dhead = <<>>
  /\ PowerOn
------------------------------------------------------------------------------
(* System calls *)

\* The test of begin_op(): this operation might exhaust the log.
NoSpace == Len(lh) + (outstanding + 1) * MAXOPBLOCKS > LOGSIZE

\* Mutant: log.committing is not tested.
begin_op_DuringCommit(p) ==
  /\ Up
  /\ pc[p] \in {"idle", "begin"}
  /\ ~NoSpace
  /\ pc' = [pc EXCEPT ![p] = "op"]
  /\ outstanding' = outstanding + 1
  /\ wrote' = [wrote EXCEPT ![p] = {}]
  /\ UNCHANGED <<device, bcache, lh, committing, step, tail>>

\* One turn of begin_op()'s loop.
begin_op(p) ==
  /\ Up
  /\ pc[p] \in {"idle", "begin"}
  /\ IF committing = 1 \/ NoSpace
       THEN /\ pc' = [pc EXCEPT ![p] = "asleep"]
            /\ UNCHANGED <<outstanding, wrote>>
       ELSE /\ pc' = [pc EXCEPT ![p] = "op"]
            /\ outstanding' = outstanding + 1
            /\ wrote' = [wrote EXCEPT ![p] = {}]
  /\ UNCHANGED <<device, bcache, lh, committing, step, tail>>

\* log_write() panics before it looks whether the block is already logged.
TooBig == Len(lh) >= LOGSIZE \/ Len(lh) >= NLOG - 1

\* Mutant: bpin() outside the test for absorption.
log_write_PinsAlways(p, b, v) ==
  /\ Up
  /\ pc[p] = "op"
  /\ b \in wrote[p] \/ Cardinality(wrote[p]) < OpMax
  /\ ~TooBig
  /\ cache' = [cache EXCEPT ![b] = v]
  /\ wrote' = [wrote EXCEPT ![p] = @ \cup {b}]
  /\ lh' = IF b \in Logged THEN lh ELSE Append(lh, b)
  /\ pins' = [pins EXCEPT ![b] = @ + 1]
  /\ UNCHANGED <<device, outstanding, committing, pc, step, tail>>

\* bread(b), modify its data, log_write(b), brelse(b).
log_write(p, b, v) ==
  /\ Up
  /\ pc[p] = "op"
  /\ b \in wrote[p] \/ Cardinality(wrote[p]) < OpMax
  /\ IF TooBig \/ outstanding < 1
       THEN /\ step' = "panic"
            /\ UNCHANGED <<bcache, lh, wrote>>
       ELSE /\ cache' = [cache EXCEPT ![b] = v]
            /\ wrote' = [wrote EXCEPT ![p] = @ \cup {b}]
            /\ IF b \in Logged
                 THEN UNCHANGED <<lh, pins>>
                 ELSE /\ lh' = Append(lh, b)
                      /\ pins' = [pins EXCEPT ![b] = @ + 1]
            /\ UNCHANGED step
  /\ UNCHANGED <<device, outstanding, committing, pc, tail>>

\* end_op() up to its first release(&log.lock).  The last operation commits;
\* commit() does nothing if nothing was logged.
end_op(p) ==
  /\ Up
  /\ pc[p] = "op"
  /\ outstanding' = outstanding - 1
  /\ IF committing = 1
       THEN /\ step' = "panic"
            /\ UNCHANGED <<committing, pc>>
       ELSE IF outstanding = 1
       THEN /\ committing' = 1
            /\ pc' = [pc EXCEPT ![p] = "commit"]
            /\ step' = IF lh = <<>> THEN "finish" ELSE "write_log"
       ELSE /\ pc' = wakeup([pc EXCEPT ![p] = "idle"])
            /\ UNCHANGED <<committing, step>>
  /\ UNCHANGED <<device, bcache, lh, wrote, tail>>
------------------------------------------------------------------------------
(* commit() *)

\* One turn of the loop: copy a modified block from the cache to the log.
write_log ==
  /\ step = "write_log"
  /\ tail < Len(lh)
  /\ dlog' = [dlog EXCEPT ![tail + 1] = bread(lh[tail + 1])]
  /\ cache' = [cache EXCEPT ![lh[tail + 1]] = bread(lh[tail + 1])]
  /\ tail' = tail + 1
  /\ UNCHANGED <<disk, dhead, pins, log, pc, wrote, step>>

\* Mutant: the header is written before the log's blocks are.
write_head_Early ==
  /\ step = "write_log"
  /\ dhead' = lh
  /\ step' = "install_trans"
  /\ tail' = 0
  /\ UNCHANGED <<disk, dlog, bcache, log, pc, wrote>>

\* The first write_head(): the true point at which the transaction commits.
write_head ==
  /\ step = "write_log"
  /\ tail = Len(lh)
  /\ dhead' = lh
  /\ step' = "install_trans"
  /\ tail' = 0
  /\ UNCHANGED <<disk, dlog, bcache, log, pc, wrote>>

\* One turn of install_trans(): copy a logged block to its home.
install_block ==
  /\ tail < Len(lh)
  /\ disk' = [disk EXCEPT ![lh[tail + 1]] = dlog[tail + 1]]
  /\ cache' = [cache EXCEPT ![lh[tail + 1]] = dlog[tail + 1]]
  /\ tail' = tail + 1
  /\ UNCHANGED <<dlog, dhead, log, pc, wrote, step>>

install_trans ==
  /\ step = "install_trans"
  /\ install_block
  /\ pins' = [pins EXCEPT ![lh[tail + 1]] = @ - 1]

\* Mutant: no second write_head().
erase_OnlyInMemory(next) ==
  /\ tail = Len(lh)
  /\ lh' = <<>>
  /\ step' = next
  /\ tail' = 0
  /\ UNCHANGED <<device, bcache, outstanding, committing, pc, wrote>>

\* log.lh.n = 0 and the second write_head(): erase the transaction.
erase(next) ==
  /\ tail = Len(lh)
  /\ lh' = <<>>
  /\ dhead' = <<>>
  /\ step' = next
  /\ tail' = 0
  /\ UNCHANGED <<disk, dlog, bcache, outstanding, committing, pc, wrote>>

commit_erase ==
  /\ step = "install_trans"
  /\ erase("finish")

\* Mutant: no wakeup(&log) after the commit.
commit_done_NoWakeup(p) ==
  /\ step = "finish"
  /\ pc[p] = "commit"
  /\ committing' = 0
  /\ pc' = [pc EXCEPT ![p] = "idle"]
  /\ step' = "none"
  /\ UNCHANGED <<device, bcache, lh, outstanding, wrote, tail>>

\* The last critical section of end_op().
commit_done(p) ==
  /\ step = "finish"
  /\ pc[p] = "commit"
  /\ committing' = 0
  /\ pc' = wakeup([pc EXCEPT ![p] = "idle"])
  /\ step' = "none"
  /\ UNCHANGED <<device, bcache, lh, outstanding, wrote, tail>>
------------------------------------------------------------------------------
(* The buffer cache: a buffer is filled by any bread(), and recycled by     *)
(* bget() once nothing refers to it.                                        *)

fill(b) ==
  /\ Up
  /\ cache[b] = NotCached
  /\ cache' = [cache EXCEPT ![b] = disk[b]]
  /\ UNCHANGED <<device, pins, log, pc, wrote, step, tail>>

recycle(b) ==
  /\ step # "panic"
  /\ cache[b] # NotCached
  /\ pins[b] = 0
  /\ cache' = [cache EXCEPT ![b] = NotCached]
  /\ UNCHANGED <<device, pins, log, pc, wrote, step, tail>>
------------------------------------------------------------------------------
(* Crash and recovery *)

crash ==
  /\ cache' = [b \in Blocks |-> NotCached]
  /\ pins' = [b \in Blocks |-> 0]
  /\ lh' = <<>>
  /\ outstanding' = 0
  /\ committing' = 0
  /\ pc' = [p \in Procs |-> "idle"]
  /\ wrote' = [p \in Procs |-> {}]
  /\ step' = "read_head"
  /\ tail' = 0
  /\ UNCHANGED device

read_head ==
  /\ step = "read_head"
  /\ lh' = dhead
  /\ step' = "recover"
  /\ UNCHANGED <<device, bcache, outstanding, committing, pc, wrote, tail>>

\* install_trans(1): no buffer was pinned.
recover_install ==
  /\ step = "recover"
  /\ install_block
  /\ UNCHANGED pins

recover_erase ==
  /\ step = "recover"
  /\ erase("none")
------------------------------------------------------------------------------
commit ==
  \/ write_log
  \/ write_head
  \/ install_trans
  \/ commit_erase
  \/ \E p \in Procs : commit_done(p)

recover_from_log == read_head \/ recover_install \/ recover_erase

Syscall(p) ==
  \/ begin_op(p)
  \/ \E b \in Blocks, v \in Data : log_write(p, b, v)
  \/ end_op(p)

Next ==
  \/ \E p \in Procs : Syscall(p)
  \/ commit
  \/ recover_from_log
  \/ \E b \in Blocks : fill(b) \/ recycle(b)
  \/ crash

Spec == Init /\ [][Next]_vars

\* The scheduler runs every runnable process: a woken process re-checks, an
\* operation ends, a commit and a recovery go on.  Nobody has to start one.
Fairness ==
  /\ \A p \in Procs :
       /\ WF_vars(pc[p] = "begin" /\ begin_op(p))
       /\ WF_vars(end_op(p))
  /\ WF_vars(commit)
  /\ WF_vars(recover_from_log)
------------------------------------------------------------------------------
(* What the log promises *)

\* The contents recovery would leave on the disk.
Recovered ==
  [b \in Blocks |->
     IF \E i \in DOMAIN dhead : dhead[i] = b
       THEN dlog[CHOOSE i \in DOMAIN dhead : dhead[i] = b]
       ELSE disk[b]]

\* The contents that system calls see.
View == IF Booting THEN Recovered ELSE [b \in Blocks |-> bread(b)]

Txn == INSTANCE Txn WITH
  durable <- Recovered,
  current <- View,
  open    <- Open

\* The log implements atomic, crash-safe operations (log.c:10-31): a crash at
\* any step of commit() or of recovery leaves exactly the contents of the last
\* committed transaction, never a part of an operation.
Atomicity == Txn!Spec

TypeOK ==
  /\ disk \in [Blocks -> Data]
  /\ dlog \in [1..LOGSIZE -> Data]
  /\ dhead \in Seq(Blocks)
  /\ cache \in [Blocks -> Data \cup {NotCached}]
  /\ pins \in [Blocks -> Nat]
  /\ lh \in Seq(Blocks)
  /\ outstanding \in Nat
  /\ committing \in {0, 1}
  /\ pc \in [Procs -> Places]
  /\ wrote \in [Procs -> SUBSET Blocks]
  /\ step \in Steps
  /\ tail \in 0..LOGSIZE

\* No panic() of log.c is reached: operations that log fewer than MAXOPBLOCKS
\* blocks never meet "too big a transaction", whatever begin_op() let run
\* together; nobody logs outside a transaction or ends one during a commit.
NoPanic == step # "panic"

\* The references taken by bpin() are exactly those of the blocks that are
\* logged and not yet installed, so commit() leaves none behind.
PinsMatchLog ==
  \A b \in Blocks :
    pins[b] = IF \E i \in DOMAIN lh :
                     /\ lh[i] = b
                     /\ ~Booting
                     /\ step = "install_trans" => i > tail
                THEN 1 ELSE 0

\* When the call of end_op() that committed returns, what every finished
\* system call wrote is durable and the on-disk log is empty.
DurableAtReturn == step = "finish" => Recovered = View /\ dhead = <<>>

\* No wakeup of the log is lost: a process that sleeps in begin_op() enters its
\* operation, unless the machine crashes.  (With endlessly many operations it
\* could be overtaken for ever, so this is checked for finitely many.)
BeginReturns == \A p \in Procs : pc[p] = "asleep" ~> pc[p] \in {"op", "idle"}
==============================================================================
