------------------------------- MODULE MCProc --------------------------------
(* Instances of Proc and Trap for TLC.  Both model the switches between      *)
(* processes, Proc for what the table of processes goes through and Trap for *)
(* what interrupts do in between: a behaviour is one of either.              *)
EXTENDS Proc, TLC

CONSTANTS UintMod, StartTicks

VARIABLES
  runs,
  todo, cur, user, sstatus, stvec, noff, intena, lock, tstate, tkilled, time, timer, irq, panicked, left

trap == <<todo, cur, user, sstatus, stvec, noff, intena, lock, tstate, tkilled, time, timer, irq, panicked, left>>

Budget(t, i, c, k) == [timers |-> t, irqs |-> i, calls |-> c, kills |-> k]

T == INSTANCE Trap WITH
       CPUs <- {"c0", "c1"}, cpu0 <- "c0", Procs <- {"p"}, SleepArgs <- {-1, 1, 2},
       Budgets <- {Budget(2, 0, 1, 0), Budget(1, 1, 1, 0), Budget(1, 0, 1, 1)},
       state <- tstate, killed <- tkilled

Symmetry == Permutations(CPUs)

BothInit ==
  /\ Init
  /\ T!Init
  /\ runs \in {"table", "traps"}
  /\ runs = "table" => left.irqs = 1

BothNext ==
  \/ runs = "table" /\ Next /\ UNCHANGED <<trap, runs>>
  \/ runs = "traps" /\ T!Next /\ UNCHANGED <<vars, runs>>

BothSpec == BothInit /\ [][BothNext]_<<vars, trap, runs>>
------------------------------------------------------------------------------
\* Interrupts are off while a lock is held and in a handler, and on where the
\* code counts on them; no check of trap.c, spinlock.c and sched() fails:
\* InterruptsMatch of Trap.
InterruptsMatch == runs = "traps" => T!InterruptsMatch

\* sleep(n) takes n ticks, neither less nor a lost wakeup more: SleepsExactly
\* of Trap.
SleepsExactly == runs = "traps" => T!SleepsExactly
==============================================================================
