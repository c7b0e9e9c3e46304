-------------------------------- MODULE Proc ---------------------------------
(***************************************************************************)
(* The life of a process in kernel/proc.c: fork, exit, wait, kill, and the *)
(* switches between a process and its CPU's scheduler, at the grain of the *)
(* locks p->lock and wait_lock.                                            *)
(*                                                                         *)
(* A lock is held by a CPU.  A stretch of code that runs under one lock    *)
(* and touches only what that lock protects is one step.  A scan of the    *)
(* process table is reduced to the slots it acts on, because the fields it *)
(* tests cannot change under the lock held during the scan.                *)
(***************************************************************************)
EXTENDS Integers, FiniteSets

CONSTANTS
  NPROC,      \* slots of the process table
  CPUs,
  MaxPid,     \* bound on nextpid
  KillPids    \* what processes ever pass to kill()

ASSUME ConstantsAssumption ==
  /\ NPROC \in Nat \ {0}
  /\ MaxPid \in Nat \ {0}
  /\ KillPids \subseteq Nat
  /\ 0 \notin CPUs

Slots == 1..NPROC
initproc == 1

VARIABLES
  state, chan, killed, pid, parent,   \* fields of struct proc
  nextpid,
  plock,      \* the CPU that holds p->lock, or 0
  wait_lock,  \* the CPU that holds wait_lock, or 0
  cpu,        \* c->proc, or 0 while the scheduler runs
  th          \* each kernel thread: where it is, where it goes back to after
              \* a switch, and the slot it works on

vars == <<state, chan, killed, pid, parent, nextpid, plock, wait_lock, cpu, th>>
fields == <<state, chan, killed, pid, parent, nextpid>>

Thread(pc, back) == [pc |-> pc, back |-> back, arg |-> 0]

\* userinit(): one process, runnable; its first switch goes to forkret().
Init ==
  /\ state = [p \in Slots |-> IF p = initproc THEN "RUNNABLE" ELSE "UNUSED"]
  /\ chan = [p \in Slots |-> 0]
  /\ killed = [p \in Slots |-> 0]
  /\ pid = [p \in Slots |-> IF p = initproc THEN 1 ELSE 0]
  /\ parent = [p \in Slots |-> 0]
  /\ nextpid = 2
  /\ plock = [p \in Slots |-> 0]
  /\ wait_lock = 0
  /\ cpu = [c \in CPUs |-> 0]
  /\ th = [p \in Slots |-> Thread("switched", "user")]

\* The process on CPU c, at label l.
At(c, p, l) == cpu[c] = p /\ th[p].pc = l

goto(p, l) == th' = [th EXCEPT ![p].pc = l]
call(p, l, a) == th' = [th EXCEPT ![p].pc = l, ![p].arg = a]
------------------------------------------------------------------------------
(* Scheduling *)

\* Mutant: p->state is tested without p->lock.
scheduler_Unlocked(c, p) ==
  /\ cpu[c] = 0
  /\ state[p] = "RUNNABLE"
  /\ state' = [state EXCEPT ![p] = "RUNNING"]
  /\ cpu' = [cpu EXCEPT ![c] = p]
  /\ plock' = [plock EXCEPT ![p] = c]
  /\ UNCHANGED <<chan, killed, pid, parent, nextpid, wait_lock, th>>

\* The scheduler takes p->lock and switches to p, which will release it.
scheduler(c, p) ==
  /\ cpu[c] = 0
  /\ plock[p] = 0
  /\ state[p] = "RUNNABLE"
  /\ state' = [state EXCEPT ![p] = "RUNNING"]
  /\ cpu' = [cpu EXCEPT ![c] = p]
  /\ plock' = [plock EXCEPT ![p] = c]
  /\ UNCHANGED <<chan, killed, pid, parent, nextpid, wait_lock, th>>

\* swtch() to the scheduler, which clears c->proc and releases p->lock.
sched(c, p) ==
  /\ At(c, p, "sched")
  /\ cpu' = [cpu EXCEPT ![c] = 0]
  /\ plock' = [plock EXCEPT ![p] = 0]
  /\ goto(p, "switched")
  /\ UNCHANGED <<fields, wait_lock>>

\* Back from swtch(), in forkret(), yield() or sleep(): release p->lock.
resume(c, p) ==
  /\ At(c, p, "switched")
  /\ chan' = [chan EXCEPT ![p] = 0]
  /\ plock' = [plock EXCEPT ![p] = 0]
  /\ goto(p, th[p].back)
  /\ UNCHANGED <<state, killed, pid, parent, nextpid, wait_lock, cpu>>

\* A timer interrupt in user space, or in the kernel while no lock is held.
yield(c, p) ==
  /\ \E l \in {"user", "fork_parent", "fork_run", "exit", "wait"} : At(c, p, l)
  /\ plock[p] = 0
  /\ plock' = [plock EXCEPT ![p] = c]
  /\ state' = [state EXCEPT ![p] = "RUNNABLE"]
  /\ th' = [th EXCEPT ![p].pc = "sched", ![p].back = th[p].pc]
  /\ UNCHANGED <<chan, killed, pid, parent, nextpid, wait_lock, cpu>>

\* The state of every process after wakeup(ch) by p.
wakeup(p, ch) ==
  LET sleepers == {q \in Slots \ {p} : state[q] = "SLEEPING" /\ chan[q] = ch}
  IN  /\ \A q \in sleepers : plock[q] = 0
      /\ state' = [q \in Slots |-> IF q \in sleepers THEN "RUNNABLE" ELSE state[q]]
------------------------------------------------------------------------------
(* fork *)

\* usertrap(): a killed process makes no system call.
Syscall(c, p) == At(c, p, "user") /\ killed[p] = 0

\* allocproc() and the rest of fork() up to release(&np->lock).
fork(c, p, np) ==
  /\ Syscall(c, p)
  /\ state[np] = "UNUSED"
  /\ plock[np] = 0
  /\ nextpid <= MaxPid
  /\ state' = [state EXCEPT ![np] = "USED"]
  /\ pid' = [pid EXCEPT ![np] = nextpid]
  /\ nextpid' = nextpid + 1
  /\ th' = [th EXCEPT ![p].pc = "fork_parent", ![p].arg = np,
                      ![np] = Thread("switched", "user")]
  /\ UNCHANGED <<chan, killed, parent, plock, wait_lock, cpu>>

\* Mutant: p->killed is left alone.
freeproc_KeepsKilled(p) ==
  /\ pid' = [pid EXCEPT ![p] = 0]
  /\ parent' = [parent EXCEPT ![p] = 0]
  /\ chan' = [chan EXCEPT ![p] = 0]
  /\ state' = [state EXCEPT ![p] = "UNUSED"]
  /\ UNCHANGED killed

freeproc(p) ==
  /\ pid' = [pid EXCEPT ![p] = 0]
  /\ parent' = [parent EXCEPT ![p] = 0]
  /\ chan' = [chan EXCEPT ![p] = 0]
  /\ killed' = [killed EXCEPT ![p] = 0]
  /\ state' = [state EXCEPT ![p] = "UNUSED"]

\* An allocation fails after allocpid(): the slot is freed again.
fork_fails(c, p, np) ==
  /\ Syscall(c, p)
  /\ state[np] = "UNUSED"
  /\ plock[np] = 0
  /\ nextpid <= MaxPid
  /\ nextpid' = nextpid + 1
  /\ freeproc(np)
  /\ UNCHANGED <<plock, wait_lock, cpu, th>>

fork_parent(c, p) ==
  /\ At(c, p, "fork_parent")
  /\ wait_lock = 0
  /\ parent' = [parent EXCEPT ![th[p].arg] = p]
  /\ goto(p, "fork_run")
  /\ UNCHANGED <<state, chan, killed, pid, nextpid, plock, wait_lock, cpu>>

fork_run(c, p) ==
  /\ At(c, p, "fork_run")
  /\ plock[th[p].arg] = 0
  /\ state' = [state EXCEPT ![th[p].arg] = "RUNNABLE"]
  /\ call(p, "user", 0)
  /\ UNCHANGED <<chan, killed, pid, parent, nextpid, plock, wait_lock, cpu>>
------------------------------------------------------------------------------
(* exit: by a system call, or because the process was killed.  init never   *)
(* exits: its program loops, and exit() would panic.                        *)

exit(c, p) ==
  /\ At(c, p, "user")
  /\ p # initproc
  /\ goto(p, "exit")
  /\ UNCHANGED <<fields, plock, wait_lock, cpu>>

\* Files are closed: acquire(&wait_lock).
exit_lock(c, p) ==
  /\ At(c, p, "exit")
  /\ wait_lock = 0
  /\ wait_lock' = c
  /\ goto(p, "reparent")
  /\ UNCHANGED <<fields, plock, cpu>>

\* Mutant: the children are not handed over.
reparent_Nothing(c, p) ==
  /\ At(c, p, "reparent")
  /\ goto(p, "exit_wakeup")
  /\ UNCHANGED <<fields, plock, wait_lock, cpu>>

\* reparent(): init gets the children, and is woken if there are any.
reparent(c, p) ==
  LET children == {q \in Slots : parent[q] = p}
  IN  /\ At(c, p, "reparent")
      /\ parent' = [q \in Slots |-> IF q \in children THEN initproc ELSE parent[q]]
      /\ IF children = {} THEN UNCHANGED state ELSE wakeup(p, initproc)
      /\ goto(p, "exit_wakeup")
      /\ UNCHANGED <<chan, killed, pid, nextpid, plock, wait_lock, cpu>>

\* Mutant: the parent is not woken.
exit_wakeup_Nobody(c, p) ==
  /\ At(c, p, "exit_wakeup")
  /\ goto(p, "zombie")
  /\ UNCHANGED <<fields, plock, wait_lock, cpu>>

\* The parent might be sleeping in wait().
exit_wakeup(c, p) ==
  /\ At(c, p, "exit_wakeup")
  /\ wakeup(p, parent[p])
  /\ goto(p, "zombie")
  /\ UNCHANGED <<chan, killed, pid, parent, nextpid, plock, wait_lock, cpu>>

\* acquire(&p->lock), become a zombie, release(&wait_lock), sched().
exit_zombie(c, p) ==
  /\ At(c, p, "zombie")
  /\ plock[p] = 0
  /\ plock' = [plock EXCEPT ![p] = c]
  /\ state' = [state EXCEPT ![p] = "ZOMBIE"]
  /\ wait_lock' = 0
  /\ th' = [th EXCEPT ![p].pc = "sched", ![p].back = "panic"]
  /\ UNCHANGED <<chan, killed, pid, parent, nextpid, cpu>>
------------------------------------------------------------------------------
(* wait *)

wait(c, p) ==
  /\ Syscall(c, p)
  /\ goto(p, "wait")
  /\ UNCHANGED <<fields, plock, wait_lock, cpu>>

\* acquire(&wait_lock), on entry and on return from sleep().
wait_acquire(c, p) ==
  /\ At(c, p, "wait")
  /\ wait_lock = 0
  /\ wait_lock' = c
  /\ goto(p, "wait_scan")
  /\ UNCHANGED <<fields, plock, cpu>>

\* A zombie child is freed under its lock, unless copyout() fails; init passes
\* no address and copies nothing.
wait_reap(c, p, q) ==
  /\ At(c, p, "wait_scan")
  /\ parent[q] = p
  /\ state[q] = "ZOMBIE"
  /\ plock[q] = 0
  /\ \/ freeproc(q)
     \/ p # initproc /\ UNCHANGED <<pid, parent, chan, killed, state>>
  /\ wait_lock' = 0
  /\ goto(p, "user")
  /\ UNCHANGED <<nextpid, plock, cpu>>

\* No zombie child: give up without children or when killed, else sleep.
wait_none(c, p) ==
  LET children == {q \in Slots : parent[q] = p}
  IN  /\ At(c, p, "wait_scan")
      /\ \A q \in children : state[q] # "ZOMBIE"
      /\ children # {} => plock[p] = 0
      /\ IF children = {} \/ killed[p] = 1
           THEN wait_lock' = 0 /\ goto(p, "user")
           ELSE goto(p, "sleep") /\ UNCHANGED wait_lock
      /\ UNCHANGED <<fields, plock, cpu>>

\* sleep(p, &wait_lock): acquire(&p->lock) before the other is released.
sleep_lock(c, p) ==
  /\ At(c, p, "sleep")
  /\ plock[p] = 0
  /\ plock' = [plock EXCEPT ![p] = c]
  /\ goto(p, "sleep_locked")
  /\ UNCHANGED <<fields, wait_lock, cpu>>

sleep(c, p) ==
  /\ At(c, p, "sleep_locked")
  /\ wait_lock' = 0
  /\ chan' = [chan EXCEPT ![p] = p]
  /\ state' = [state EXCEPT ![p] = "SLEEPING"]
  /\ th' = [th EXCEPT ![p].pc = "sched", ![p].back = "wait"]
  /\ UNCHANGED <<killed, pid, parent, nextpid, plock, cpu>>
------------------------------------------------------------------------------
(* kill *)

kill(c, p, q) ==
  /\ Syscall(c, p)
  /\ pid[q] \in KillPids
  /\ plock[q] = 0
  /\ killed' = [killed EXCEPT ![q] = 1]
  /\ state' = [state EXCEPT ![q] = IF @ = "SLEEPING" THEN "RUNNABLE" ELSE @]
  /\ UNCHANGED <<chan, pid, parent, nextpid, plock, wait_lock, cpu, th>>
------------------------------------------------------------------------------
Switch(c, p) == sched(c, p) \/ resume(c, p)

\* What a system call does by itself once it is possible.
Kernel(c, p) ==
  \/ fork_parent(c, p) \/ fork_run(c, p)
  \/ exit_lock(c, p) \/ reparent(c, p) \/ exit_wakeup(c, p) \/ exit_zombie(c, p)
  \/ wait_acquire(c, p) \/ wait_none(c, p) \/ sleep_lock(c, p) \/ sleep(c, p)
  \/ \E q \in Slots : wait_reap(c, p, q)

\* Steps a user program chooses.
User(c, p) ==
  \/ exit(c, p) \/ wait(c, p)
  \/ \E q \in Slots : fork(c, p, q) \/ fork_fails(c, p, q) \/ kill(c, p, q)

Next == \E c \in CPUs, p \in Slots :
          scheduler(c, p) \/ Switch(c, p) \/ Kernel(c, p) \/ yield(c, p) \/ User(c, p)

Spec == Init /\ [][Next]_vars

\* Each thread that keeps being run takes its next step, the timer interrupts a
\* thread that stays in user space, the scheduler's loop over the table passes
\* over no runnable process for ever, and init waits for the children it has.
Fairness ==
  /\ \A p \in Slots :
       /\ SF_vars(\E c \in CPUs : Kernel(c, p))
       /\ SF_vars(\E c \in CPUs : scheduler(c, p))
  /\ \A c \in CPUs : WF_vars(\E p \in Slots : Switch(c, p) \/ yield(c, p))
  /\ SF_vars(/\ \E q \in Slots : parent[q] = initproc
             /\ \E c \in CPUs : wait(c, initproc))
------------------------------------------------------------------------------
States == {"UNUSED", "USED", "SLEEPING", "RUNNABLE", "RUNNING", "ZOMBIE"}

Labels == {"user", "sched", "switched", "panic", "fork_parent", "fork_run",
           "exit", "reparent", "exit_wakeup", "zombie",
           "wait", "wait_scan", "sleep", "sleep_locked"}

Threads == [Slots -> [pc : Labels, back : Labels, arg : 0..NPROC]]

TypeOK ==
  /\ state \in [Slots -> States]
  /\ chan \in [Slots -> 0..NPROC]
  /\ killed \in [Slots -> {0, 1}]
  /\ pid \in [Slots -> 0..MaxPid]
  /\ parent \in [Slots -> 0..NPROC]
  /\ nextpid \in 2..(MaxPid + 1)
  /\ plock \in [Slots -> CPUs \cup {0}]
  /\ wait_lock \in CPUs \cup {0}
  /\ cpu \in [CPUs -> 0..NPROC]
  /\ th \in Threads

\* A process runs on at most one CPU, and a slot that wait() freed on none: no
\* wakeup(), kill() or wait() acts on a process that is still leaving its CPU.  No
\* panic of sched() or exit() is reached: a thread that leaves its CPU holds its
\* p->lock and nothing else and is no longer RUNNING, and one that left it as a
\* zombie is never dispatched again.
OneCpu ==
  /\ \A p \in Slots :
       /\ Cardinality({c \in CPUs : cpu[c] = p}) <= 1
       /\ state[p] = "RUNNING" => \E c \in CPUs : cpu[c] = p
       /\ state[p] \in {"UNUSED", "USED"} => \A c \in CPUs : cpu[c] # p
  /\ \A c \in CPUs, p \in Slots :
       /\ ~At(c, p, "panic")
       /\ At(c, p, "sched") =>
            /\ plock[p] = c /\ wait_lock # c
            /\ \A q \in Slots \ {p} : plock[q] # c
            /\ state[p] # "RUNNING"

\* Nobody's parent is dead: exit() hands the children over before the process
\* becomes a zombie, and a child cannot be born to a process past that point.
ParentAlive ==
  \A q \in Slots :
    /\ parent[q] # 0 => state[parent[q]] \in {"RUNNABLE", "RUNNING", "SLEEPING"}
    /\ state[q] \in {"RUNNABLE", "RUNNING", "SLEEPING", "ZOMBIE"} /\ q # initproc
         => parent[q] # 0

\* No lost wakeup: a process that sleeps in wait() has a child, and, whenever
\* wait_lock is free, no child that has exited already.
NoLostExit ==
  \A p \in Slots : state[p] = "SLEEPING" /\ wait_lock = 0 =>
    /\ \E q \in Slots : parent[q] = p
    /\ \A q \in Slots : parent[q] = p => state[q] # "ZOMBIE"

\* kill() marks only the processes it was asked to kill, and the mark dies with
\* the process: whoever gets the slot next is not marked.
KillsOnlyNamed ==
  \A p \in Slots : state[p] # "UNUSED" /\ killed[p] = 1 => pid[p] \in KillPids

\* An exit() comes to its end, and a process left to init is then reaped, although
\* init may be asleep, on its way to sleep or between two calls of wait().
OrphansReaped ==
  \A q \in Slots :
    th[q].pc = "exit" /\ parent[q] = initproc ~> state[q] = "UNUSED"
==============================================================================
