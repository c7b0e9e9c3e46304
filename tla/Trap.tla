-------------------------------- MODULE Trap ---------------------------------
(* Traps and interrupts: kernel/trap.c, the interrupt side of spinlock.c,    *)
(* the switches of proc.c and sys_sleep.  A thread (a process, or the        *)
(* scheduler of a CPU) is the sequence of steps its kernel stack still holds *)
(* in store; an interrupt puts the steps of its handler in front of those of *)
(* the thread it interrupts, on whatever CPU that thread goes on later.      *)
(* A step is a tuple of its name and arguments.  What a CPU does with        *)
(* interrupts off and p->lock held, up to a switch or the release, is one.   *)
EXTENDS Integers, Sequences, FiniteSets, SequencesExt

CONSTANTS
  CPUs, cpu0,         \* cpu0 counts the ticks
  Procs,
  UintMod,            \* number of values of a uint
  StartTicks,         \* ticks at first
  SleepArgs,          \* arguments of sleep()
  Budgets             \* how often the outside acts: [timers, irqs, calls, kills]

VARIABLES
  todo,               \* the steps of each thread
  cur,                \* the thread each CPU runs: a process, or the CPU for its scheduler
  user,               \* whether it runs in user mode
  sstatus,            \* [SIE, SPIE, SPP] of each CPU
  stvec,              \* where its traps go
  noff, intena,       \* struct cpu
  lock,               \* the CPU in lk->cpu, Nobody if not locked
  state, killed,      \* struct proc
  time,               \* ticks since the start
  timer,              \* CPUs with a timer interrupt pending
  irq,                \* the one external interrupt: "none", "raised" or "claimed"
  panicked,
  left                \* how often the outside may act still

cpus == <<cur, user, sstatus, stvec, noff, intena>>
trapvars == <<todo, cpus, lock, state, killed, time, timer, irq, panicked, left>>

Nobody == "nobody"
Locks == {"tickslock", "devlock"} \cup Procs
ticks == (StartTicks + time) % UintMod
ProcSeq == SetToSeq(Procs)

myproc(c) == cur[c]
Step(c) == Head(todo[cur[c]])
At(c, label) == ~panicked /\ ~user[c] /\ Step(c)[1] = label

\* c goes on with the steps s.
Then(c, s) == [todo EXCEPT ![cur[c]] = s \o Tail(@)]
panic == panicked' = TRUE /\ UNCHANGED <<todo, cpus, lock, state, killed, time, timer, irq, left>>
------------------------------------------------------------------------------
(* The code as steps. *)
acquire(l) == << <<"push_off", l>> >>
release(l) == << <<"release", l>> >>
sched(p, st) == << <<"sched", p, st>> >>
yield(p) == acquire(p) \o sched(p, "RUNNABLE")
\* Mutant: the lock is released before p->lock is held.
sleep_ReleasesFirst(p, lk) == release(lk) \o acquire(p) \o sched(p, "SLEEPING") \o acquire(lk)
sleep(p, lk) == acquire(p) \o release(lk) \o sched(p, "SLEEPING") \o acquire(lk)
exit(p) == acquire(p) \o sched(p, "ZOMBIE")
usertrapret == << <<"usertrapret">>, <<"sret">> >>

\* wakeup(&ticks), of every process but the one that runs.
wakeup(c) ==
  FlattenSeq([k \in DOMAIN ProcSeq |->
    IF ProcSeq[k] = myproc(c) THEN <<>>
    ELSE << <<"wake", ProcSeq[k]>> >>])

clockintr(c) ==
  (IF c = cpu0 THEN acquire("tickslock") \o << <<"tick">> >> \o wakeup(c) \o release("tickslock") ELSE <<>>)
  \o << <<"stimecmp">> >>

devintr(c, cause) == IF cause = "timer" THEN clockintr(c) ELSE << <<"plic_claim">> >>

sys_sleep(n) == acquire("tickslock") \o << <<"ticks0", IF n < 0 THEN 0 ELSE n>> >>

scan(k) == << <<"scan", k>> >>
scheduler == << <<"intr_on">> >> \o scan(1)
------------------------------------------------------------------------------
\* A process begins in forkret.
Init ==
  /\ todo = [t \in CPUs \cup Procs |-> IF t \in CPUs THEN scheduler ELSE release(t) \o usertrapret]
  /\ cur = [c \in CPUs |-> c]
  /\ user = [c \in CPUs |-> FALSE]
  /\ sstatus = [c \in CPUs |-> [SIE |-> FALSE, SPIE |-> FALSE, SPP |-> "S"]]
  /\ stvec = [c \in CPUs |-> "kernelvec"]
  /\ noff = [c \in CPUs |-> 0]
  /\ intena = [c \in CPUs |-> FALSE]
  /\ lock = [l \in Locks |-> Nobody]
  /\ state = [p \in Procs |-> "RUNNABLE"]
  /\ killed = [p \in Procs |-> FALSE]
  /\ time = 0
  /\ timer = {}
  /\ irq = "none"
  /\ panicked = FALSE
  /\ left \in Budgets

\* push_off reads sstatus, then turns interrupts off.
push_off(c) ==
  /\ At(c, "push_off")
  /\ todo' = Then(c, << <<"intr_off", sstatus[c].SIE, Step(c)[2]>> >>)
  /\ UNCHANGED <<cpus, lock, state, killed, time, timer, irq, panicked, left>>

holding(c, l) == lock[l] = c

intr_off(c) ==
  /\ At(c, "intr_off")
  /\ sstatus' = [sstatus EXCEPT ![c].SIE = FALSE]
  /\ intena' = IF noff[c] = 0 THEN [intena EXCEPT ![c] = Step(c)[2]] ELSE intena
  /\ noff' = [noff EXCEPT ![c] = @ + 1]
  /\ todo' = Then(c, << <<"lock", Step(c)[3]>> >>)
  /\ UNCHANGED <<cur, user, stvec, lock, state, killed, time, timer, irq, panicked, left>>

take_lock(c) ==
  /\ At(c, "lock")
  /\ \/ holding(c, Step(c)[2]) /\ panic
     \/ /\ lock[Step(c)[2]] = Nobody
        /\ lock' = [lock EXCEPT ![Step(c)[2]] = c]
        /\ todo' = Then(c, <<>>)
        /\ UNCHANGED <<cpus, state, killed, time, timer, irq, panicked, left>>

\* release(l), with interrupts as v says if noff becomes 0.
pop_off(c, l, v) ==
  IF ~holding(c, l) \/ sstatus[c].SIE \/ noff[c] < 1 THEN panic
  ELSE /\ lock' = [lock EXCEPT ![l] = Nobody]
       /\ noff' = [noff EXCEPT ![c] = @ - 1]
       /\ intena' = [intena EXCEPT ![c] = v]
       /\ sstatus' = [sstatus EXCEPT ![c].SIE = noff[c] = 1 /\ v]
       /\ todo' = Then(c, <<>>)
       /\ UNCHANGED <<cur, user, stvec, state, killed, time, timer, irq, panicked, left>>

drop_lock(c) == At(c, "release") /\ pop_off(c, Step(c)[2], intena[c])

intr_on(c) ==
  /\ At(c, "intr_on")
  /\ sstatus' = [sstatus EXCEPT ![c].SIE = TRUE]
  /\ todo' = Then(c, <<>>)
  /\ UNCHANGED <<cur, user, stvec, noff, intena, lock, state, killed, time, timer, irq, panicked, left>>
------------------------------------------------------------------------------
(* Switches. *)
\* The process has set its state, and goes to the scheduler of its CPU.
to_scheduler(c) ==
  /\ At(c, "sched")
  /\ LET p == Step(c)[2]
     IN  IF ~holding(c, p) \/ noff[c] # 1 \/ sstatus[c].SIE THEN panic
         ELSE /\ state' = [state EXCEPT ![p] = Step(c)[3]]
              /\ todo' = Then(c, << <<"resume", p, intena[c]>> >>)
              /\ cur' = [cur EXCEPT ![c] = c]
              /\ UNCHANGED <<user, sstatus, stvec, noff, intena, lock, killed, time, timer, irq, panicked, left>>

\* Mutant: intena is the one of the CPU.
sched_returns_Forgets(c) == At(c, "resume") /\ pop_off(c, Step(c)[2], intena[c])

\* sched() puts intena back, on what may be another CPU; then p->lock goes.
sched_returns(c) == At(c, "resume") /\ pop_off(c, Step(c)[2], Step(c)[3])

\* The loop of the scheduler over the process table: push_off reads sstatus,
\* then the process is looked at under its lock, which stays held if it runs.
look_at(c) ==
  /\ At(c, "scan")
  /\ LET k == Step(c)[2]
     IN  todo' = Then(c, IF k > Len(ProcSeq) THEN scheduler
                         ELSE << <<"choose", ProcSeq[k], sstatus[c].SIE>> >> \o scan(k + 1))
  /\ UNCHANGED <<cpus, lock, state, killed, time, timer, irq, panicked, left>>

to_process(c) ==
  /\ At(c, "choose")
  /\ LET p == Step(c)[2]
     IN  /\ lock[p] = Nobody
         /\ intena' = [intena EXCEPT ![c] = Step(c)[3]]
         /\ IF state[p] = "RUNNABLE"
            THEN /\ state' = [state EXCEPT ![p] = "RUNNING"]
                 /\ cur' = [cur EXCEPT ![c] = p]
                 /\ lock' = [lock EXCEPT ![p] = c]
                 /\ noff' = [noff EXCEPT ![c] = 1]
                 /\ sstatus' = [sstatus EXCEPT ![c].SIE = FALSE]
                 /\ todo' = Then(c, release(p))
            ELSE /\ todo' = Then(c, <<>>)
                 /\ sstatus' = [sstatus EXCEPT ![c].SIE = Step(c)[3]]
                 /\ UNCHANGED <<state, cur, lock, noff>>
  /\ UNCHANGED <<user, stvec, killed, time, timer, irq, panicked, left>>
------------------------------------------------------------------------------
(* Traps. *)
Enter(c, cause) ==
  /\ ~panicked
  /\ sstatus' = [sstatus EXCEPT ![c] = [SIE |-> FALSE, SPIE |-> @.SIE, SPP |-> IF user[c] THEN "U" ELSE "S"]]
  /\ user' = [user EXCEPT ![c] = FALSE]
  /\ todo' = [todo EXCEPT ![cur[c]] = << <<stvec[c], cause>> >> \o @]
  /\ UNCHANGED <<cur, stvec, noff, intena, lock, state, killed, time, timer, irq, panicked>>

Interrupt(c) ==
  /\ user[c] \/ sstatus[c].SIE
  /\ \/ c \in timer /\ Enter(c, <<"timer">>)
     \/ irq = "raised" /\ Enter(c, <<"device">>)
  /\ UNCHANGED left

\* In user mode: a call of sleep(), or a fault.
Ecall(c) ==
  /\ user[c]
  /\ \/ \E n \in SleepArgs : left.calls > 0 /\ Enter(c, <<"ecall", n>>) /\ left' = [left EXCEPT !.calls = @ - 1]
     \/ left.kills > 0 /\ Enter(c, <<"fault">>) /\ left' = [left EXCEPT !.kills = @ - 1]

\* killed(p) and setkilled(p) hold p->lock for one step.
Killed(p) == << <<"killed", p>> >>

usertrap(c) ==
  /\ At(c, "uservec")
  /\ LET cause == Step(c)[2]
         p == myproc(c)
     IN  IF sstatus[c].SPP # "U" THEN panic
         ELSE /\ stvec' = [stvec EXCEPT ![c] = "kernelvec"]
              /\ todo' = Then(c,
                   (CASE cause[1] = "ecall" -> Killed(p) \o << <<"intr_on">> >> \o sys_sleep(cause[2])
                      [] cause[1] = "fault" -> << <<"setkilled", p>> >>
                      [] OTHER -> devintr(c, cause[1]))
                   \o Killed(p) \o (IF cause[1] = "timer" THEN yield(p) ELSE <<>>) \o usertrapret)
              /\ UNCHANGED <<cur, user, sstatus, noff, intena, lock, state, killed, time, timer, irq, panicked, left>>

if_killed(c) ==
  /\ At(c, "killed")
  /\ lock[Step(c)[2]] = Nobody
  /\ todo' = [todo EXCEPT ![cur[c]] = IF killed[Step(c)[2]] THEN exit(Step(c)[2]) ELSE Tail(@)]
  /\ UNCHANGED <<cpus, lock, state, killed, time, timer, irq, panicked, left>>

setkilled(c) ==
  /\ At(c, "setkilled")
  /\ lock[Step(c)[2]] = Nobody
  /\ killed' = [killed EXCEPT ![Step(c)[2]] = TRUE]
  /\ todo' = Then(c, <<>>)
  /\ UNCHANGED <<cpus, lock, state, time, timer, irq, panicked, left>>

\* usertrapret turns interrupts off before it does anything else.
to_user(c) ==
  /\ At(c, "usertrapret")
  /\ stvec' = [stvec EXCEPT ![c] = "uservec"]
  /\ sstatus' = [sstatus EXCEPT ![c] = [SIE |-> FALSE, SPIE |-> TRUE, SPP |-> "U"]]
  /\ todo' = Then(c, <<>>)
  /\ UNCHANGED <<cur, user, noff, intena, lock, state, killed, time, timer, irq, panicked, left>>

sret(c) ==
  /\ At(c, "sret")
  /\ user' = [user EXCEPT ![c] = sstatus[c].SPP = "U"]
  /\ sstatus' = [sstatus EXCEPT ![c] = [SIE |-> @.SPIE, SPIE |-> TRUE, SPP |-> "U"]]
  /\ todo' = Then(c, <<>>)
  /\ UNCHANGED <<cur, stvec, noff, intena, lock, state, killed, time, timer, irq, panicked, left>>

\* The saved sstatus is part of the step that writes it back.
kerneltrap(c) ==
  /\ At(c, "kernelvec")
  /\ LET cause == Step(c)[2][1]
     IN  IF sstatus[c].SPP # "S" \/ sstatus[c].SIE THEN panic
         ELSE /\ todo' = Then(c, devintr(c, cause)
                              \o (IF cause = "timer" /\ cur[c] \in Procs THEN yield(myproc(c)) ELSE <<>>)
                              \o << <<"w_sstatus", sstatus[c]>>, <<"sret">> >>)
              /\ UNCHANGED <<cpus, lock, state, killed, time, timer, irq, panicked, left>>

w_sstatus(c) ==
  /\ At(c, "w_sstatus")
  /\ sstatus' = [sstatus EXCEPT ![c] = Step(c)[2]]
  /\ todo' = Then(c, <<>>)
  /\ UNCHANGED <<cur, user, stvec, noff, intena, lock, state, killed, time, timer, irq, panicked, left>>
------------------------------------------------------------------------------
(* The handlers. *)
tick(c) ==
  /\ At(c, "tick")
  /\ time' = time + 1
  /\ todo' = Then(c, <<>>)
  /\ UNCHANGED <<cpus, lock, state, killed, timer, irq, panicked, left>>

\* p sleeps on &ticks when it sleeps.
wake(c) ==
  /\ At(c, "wake")
  /\ lock[Step(c)[2]] = Nobody
  /\ LET p == Step(c)[2]
     IN  state' = IF state[p] = "SLEEPING" THEN [state EXCEPT ![p] = "RUNNABLE"] ELSE state
  /\ todo' = Then(c, <<>>)
  /\ UNCHANGED <<cpus, lock, killed, time, timer, irq, panicked, left>>

stimecmp(c) ==
  /\ At(c, "stimecmp")
  /\ timer' = timer \ {c}
  /\ todo' = Then(c, <<>>)
  /\ UNCHANGED <<cpus, lock, state, killed, time, irq, panicked, left>>

\* The handler of the device works under a lock; another CPU may have claimed
\* the interrupt before.
plic_claim(c) ==
  /\ At(c, "plic_claim")
  /\ IF irq = "raised"
     THEN irq' = "claimed" /\ todo' = Then(c, acquire("devlock") \o release("devlock") \o << <<"plic_complete">> >>)
     ELSE todo' = Then(c, <<>>) /\ UNCHANGED irq
  /\ UNCHANGED <<cpus, lock, state, killed, time, timer, panicked, left>>

plic_complete(c) ==
  /\ At(c, "plic_complete")
  /\ irq' = "none"
  /\ todo' = Then(c, <<>>)
  /\ UNCHANGED <<cpus, lock, state, killed, time, timer, panicked, left>>

sleep_begins(c) ==
  /\ At(c, "ticks0")
  /\ todo' = Then(c, << <<"while", Step(c)[2], ticks, time>> >>)
  /\ UNCHANGED <<cpus, lock, state, killed, time, timer, irq, panicked, left>>

Passed(n, ticks0) == (ticks - ticks0) % UintMod >= n

\* The loop of sys_sleep; the last part of its step is when it began.
sleep_goes_on(c) ==
  /\ At(c, "while")
  /\ LET n == Step(c)[2]
         ticks0 == Step(c)[3]
         p == myproc(c)
     IN  \/ /\ Passed(n, ticks0)
            /\ todo' = Then(c, release("tickslock") \o << <<"slept", n, Step(c)[4]>> >>)
         \/ /\ ~Passed(n, ticks0)
            /\ lock[p] = Nobody
            /\ todo' = IF killed[p] THEN Then(c, release("tickslock"))
                       ELSE Then(c, sleep(p, "tickslock") \o <<Step(c)>>)
  /\ UNCHANGED <<cpus, lock, state, killed, time, timer, irq, panicked, left>>

sleep_returns(c) ==
  /\ At(c, "slept")
  /\ todo' = Then(c, <<>>)
  /\ UNCHANGED <<cpus, lock, state, killed, time, timer, irq, panicked, left>>
------------------------------------------------------------------------------
(* The outside: clocks, a device, and kill() of another process. *)
Outside ==
  /\ ~panicked
  /\ \/ \E c \in CPUs \ timer :
          left.timers > 0 /\ timer' = timer \cup {c} /\ left' = [left EXCEPT !.timers = @ - 1] /\ UNCHANGED <<irq, killed, state>>
     \/ /\ irq = "none" /\ left.irqs > 0
        /\ irq' = "raised" /\ left' = [left EXCEPT !.irqs = @ - 1] /\ UNCHANGED <<timer, killed, state>>
     \/ \E p \in Procs :
          /\ left.kills > 0 /\ lock[p] = Nobody /\ state[p] # "ZOMBIE"
          /\ killed' = [killed EXCEPT ![p] = TRUE]
          /\ state' = IF state[p] = "SLEEPING" THEN [state EXCEPT ![p] = "RUNNABLE"] ELSE state
          /\ left' = [left EXCEPT !.kills = @ - 1]
          /\ UNCHANGED <<timer, irq>>
  /\ UNCHANGED <<todo, cpus, lock, time, panicked>>

Next ==
  \/ \E c \in CPUs :
       \/ push_off(c) \/ intr_off(c) \/ take_lock(c) \/ drop_lock(c) \/ intr_on(c)
       \/ to_scheduler(c) \/ sched_returns(c) \/ look_at(c) \/ to_process(c)
       \/ Interrupt(c) \/ Ecall(c) \/ usertrap(c) \/ if_killed(c) \/ setkilled(c)
       \/ to_user(c) \/ sret(c) \/ kerneltrap(c) \/ w_sstatus(c)
       \/ tick(c) \/ wake(c) \/ stimecmp(c) \/ plic_claim(c) \/ plic_complete(c)
       \/ sleep_begins(c) \/ sleep_goes_on(c) \/ sleep_returns(c)
  \/ Outside
------------------------------------------------------------------------------
Interrupted(t) ==
  \E k \in DOMAIN todo[t] : todo[t][k][1] \in {"kernelvec", "w_sstatus"} \/ (k = 1 /\ todo[t][k][1] = "sret")
InSleep(t) == \E k \in DOMAIN todo[t] : todo[t][k][1] \in {"while", "slept"}

\* No check of trap.c, spinlock.c and sched() fails: no CPU waits for a lock
\* its own interrupted code holds, no trap arrives in the kernel while stvec
\* sends traps to uservec, and no process is switched away from with another
\* lock in hand or with interrupts on.  noff counts the locks a CPU holds or
\* waits for, and interrupts are off while it is not 0 and in the handler of
\* an interrupt; a scheduler at the start of its loop, and a system call
\* without a lock, can be interrupted, on whatever CPU and after how many
\* switches.
InterruptsMatch ==
  /\ ~panicked
  /\ \A c \in CPUs :
       /\ noff[c] = Cardinality({l \in Locks : lock[l] = c}) + (IF At(c, "lock") THEN 1 ELSE 0)
       /\ noff[c] > 0 => ~sstatus[c].SIE /\ ~user[c]
       /\ Interrupted(cur[c]) => ~sstatus[c].SIE
       /\ /\ noff[c] = 0 /\ ~user[c] /\ ~Interrupted(cur[c])
          /\ InSleep(cur[c]) \/ (At(c, "scan") /\ Step(c)[2] = 1)
          => sstatus[c].SIE

\* sleep(n) does not return before n ticks have passed, also if ticks wraps
\* round; a process does not sleep on after them, unless the clock interrupt is
\* still on its way to it.
SleepsExactly ==
  /\ \A p \in Procs : todo[p] # <<>> /\ Head(todo[p])[1] = "slept" => time - Head(todo[p])[3] >= Head(todo[p])[2]
  /\ \A p \in Procs : state[p] = "SLEEPING" =>
       \A k \in DOMAIN todo[p] : todo[p][k][1] = "while" /\ time - todo[p][k][4] >= todo[p][k][2] =>
         \E c \in CPUs : \E j \in DOMAIN todo[cur[c]] : todo[cur[c]][j] = <<"wake", p>>
==============================================================================
