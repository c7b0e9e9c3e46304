------------------------------ MODULE ProcProof ------------------------------
(***************************************************************************)
(* Proofs about Proc, for every number of processes and every set of CPUs: *)
(* an inductive invariant of the process table and its locks, and from it  *)
(* the invariants of Proc.                                                 *)
(***************************************************************************)
EXTENDS Proc, FiniteSetTheorems, TLAPS

\* Where a thread may leave its CPU and come back to it.
Resumed == {"user", "fork_parent", "fork_run", "exit", "wait"}

\* Where a thread holds its own p->lock, and where it holds wait_lock.
PLocked == {"switched", "sched", "sleep_locked"}
WLocked == {"reparent", "exit_wakeup", "zombie", "wait_scan", "sleep", "sleep_locked"}

Live == {"RUNNABLE", "RUNNING", "SLEEPING"}

\* A thread's place in the code, also while it is switched out.
Place(p) == IF th[p].pc \in {"sched", "switched"} THEN th[p].back ELSE th[p].pc

\* A process on a CPU, and one on none.
Running ==
  /\ \A c, d \in CPUs : cpu[c] = cpu[d] /\ cpu[c] # 0 => c = d
  /\ \A c \in CPUs, p \in Slots : cpu[c] = p =>
       /\ th[p].pc \in PLocked => plock[p] = c
       /\ th[p].pc \notin PLocked => plock[p] = 0
       /\ th[p].pc = "sched" => state[p] \in {"RUNNABLE", "SLEEPING", "ZOMBIE"}
       /\ th[p].pc # "sched" => state[p] = "RUNNING"
  /\ \A p \in Slots : (\A c \in CPUs : cpu[c] # p) =>
       th[p].pc = "switched" /\ plock[p] = 0 /\ state[p] # "RUNNING"

\* Where a thread goes on.  A zombie goes on to exit()'s panic, but is never
\* dispatched again; a process sleeps in wait() only, on itself.
Switched ==
  \A p \in Slots :
    /\ th[p].pc # "panic"
    /\ state[p] \in Live \cup {"USED"} => th[p].back \in Resumed
    /\ state[p] = "SLEEPING" => th[p].back = "wait" /\ chan[p] = p
    /\ state[p] \in {"UNUSED", "ZOMBIE"} => Place(p) \notin {"fork_parent", "fork_run"}

\* A thread holds wait_lock exactly where the code says so.
WaitLock ==
  /\ \A c \in CPUs, p \in Slots : cpu[c] = p /\ th[p].pc \in WLocked => wait_lock = c
  /\ wait_lock # 0 => \E p \in Slots : cpu[wait_lock] = p /\ th[p].pc \in WLocked

\* The child of a fork() that is not over: nobody else works on it, and it has a
\* parent from fork_parent on.
Forking ==
  /\ \A p \in Slots : Place(p) \in {"fork_parent", "fork_run"} =>
       /\ th[p].arg \in Slots /\ state[th[p].arg] = "USED"
       /\ parent[th[p].arg] = IF Place(p) = "fork_run" THEN p ELSE 0
  /\ \A p, q \in Slots :
       /\ Place(p) \in {"fork_parent", "fork_run"}
       /\ Place(q) \in {"fork_parent", "fork_run"}
       /\ th[p].arg = th[q].arg
       => p = q

\* ParentAlive, with what exit() relies on: init is alive and does not exit, and
\* past reparent() a process has no children and gets none.
Family ==
  /\ state[initproc] \in Live
  /\ \A p \in Slots :
       Place(p) \in {"exit", "reparent", "exit_wakeup", "zombie"} => p # initproc
  /\ \A p, q \in Slots : th[p].pc \in {"exit_wakeup", "zombie"} => parent[q] # p
  /\ \A q \in Slots :
       /\ parent[q] # 0 => state[parent[q]] \in Live
       /\ state[q] \in Live \cup {"ZOMBIE"} /\ q # initproc => parent[q] # 0
       /\ state[q] = "UNUSED" => parent[q] = 0

\* p has reason to sleep in wait().
Waiting(p) ==
  /\ \E q \in Slots : parent[q] = p
  /\ \A q \in Slots : parent[q] = p => state[q] # "ZOMBIE"

\* The reason lasts from the scan of the table to the wakeup; a process that is
\* about to become a zombie has woken its parent.
Asleep ==
  /\ \A p \in Slots :
       (th[p].pc \in {"sleep", "sleep_locked"} \/ state[p] = "SLEEPING") => Waiting(p)
  /\ \A p \in Slots : th[p].pc = "zombie" /\ parent[p] # 0 => state[parent[p]] # "SLEEPING"

\* The inductive invariant.
Inv == TypeOK /\ Running /\ Switched /\ WaitLock /\ Forking /\ Family /\ Asleep

\* The process table is not empty, and 0 stands for no slot and for no CPU.
LEMMA SlotsAre ==
  /\ Slots \cup {0} = 0..NPROC /\ 0 \notin Slots
  /\ initproc \in Slots
  /\ 0 \notin CPUs
  BY ConstantsAssumption DEF Slots, initproc

\* What a jump does to a thread keeps its type: to a label, also with an
\* argument, and into sched().
LEMMA GotoTypes ==
  ASSUME th \in Threads, NEW p \in Slots, NEW l \in Labels
  PROVE  /\ goto(p, l) => th' \in Threads
         /\ \A a \in 0..NPROC : call(p, l, a) => th' \in Threads
         /\ th' = [th EXCEPT ![p].pc = "sched", ![p].back = l] => th' \in Threads
<1>1. "sched" \in Labels
  BY DEF Labels
<1>. QED BY <1>1 DEF Threads, goto, call

\* A process that is dispatched was on no CPU: on one, its lock would be held.
LEMMA scheduler_Inv ==
  ASSUME Inv, NEW c \in CPUs, NEW p \in Slots, scheduler(c, p)
  PROVE  Inv'
<1>1. TypeOK'
  BY SlotsAre DEF Inv, scheduler, Slots, TypeOK, States
<1>2. Running'
  BY SlotsAre DEF Inv, scheduler, TypeOK, Threads, Running, PLocked
<1>3. Switched'
  BY SlotsAre DEF Inv, scheduler, TypeOK, Threads, Switched, Live, Resumed, Place
<1>4. WaitLock'
  BY SlotsAre DEF Inv, scheduler, TypeOK, Threads, Running, WaitLock, WLocked,
     Switched
<1>5. Forking'
  BY SlotsAre DEF Inv, scheduler, TypeOK, Threads, Forking, Place
<1>6. Family'
  BY SlotsAre DEF Inv, scheduler, TypeOK, Threads, Family, Live, Place, initproc
<1>7. Asleep'
  BY SlotsAre DEF Inv, scheduler, TypeOK, Threads, Asleep, Waiting
<1>. QED BY <1>1, <1>2, <1>3, <1>4, <1>5, <1>6, <1>7 DEF Inv

\* A process leaves its CPU, and its lock with it.
LEMMA sched_Inv ==
  ASSUME Inv, NEW c \in CPUs, NEW p \in Slots, sched(c, p)
  PROVE  Inv'
<1>1. TypeOK'
  <2>1. th' \in Threads
    BY GotoTypes, Zenon DEF Inv, sched, TypeOK, Labels
  <2>. QED BY <2>1, SlotsAre DEF Inv, sched, fields, TypeOK, States
<1>2. Running'
  BY SlotsAre DEF Inv, sched, At, goto, fields, TypeOK, Threads, Running, PLocked
<1>3. Switched'
  BY SlotsAre DEF Inv, sched, At, goto, fields, TypeOK, Threads, Switched, Live,
     Resumed, Place
<1>4. WaitLock'
  BY SlotsAre DEF Inv, sched, At, goto, fields, TypeOK, Threads, Running, WaitLock,
     WLocked
<1>5. Forking'
  BY SlotsAre DEF Inv, sched, At, goto, fields, TypeOK, Threads, Forking, Place
<1>6. Family'
  BY SlotsAre DEF Inv, sched, At, goto, fields, TypeOK, Threads, Family, Live, Place,
     initproc
<1>7. Asleep'
  BY SlotsAre DEF Inv, sched, At, goto, fields, TypeOK, Threads, Asleep, Waiting
<1>. QED BY <1>1, <1>2, <1>3, <1>4, <1>5, <1>6, <1>7 DEF Inv

\* A thread that is back on a CPU is RUNNING, so it has a place to go on from.
LEMMA resume_Inv ==
  ASSUME Inv, NEW c \in CPUs, NEW p \in Slots, resume(c, p)
  PROVE  Inv'
<1>1. TypeOK'
  <2>1. th[p].back \in Labels
    BY DEF Inv, TypeOK, Threads
  <2>2. th' \in Threads
    BY <2>1, GotoTypes, Zenon DEF Inv, resume, TypeOK
  <2>. QED BY <2>2, SlotsAre DEF Inv, resume, TypeOK
<1>2. Running'
  BY SlotsAre DEF Inv, resume, At, goto, TypeOK, Threads, Running, PLocked, Switched,
     Live, Resumed
<1>3. Switched'
  BY SlotsAre DEF Inv, resume, At, goto, TypeOK, Threads, Switched, Live, Resumed,
     Place, Running
<1>4. WaitLock'
  BY SlotsAre DEF Inv, resume, At, goto, TypeOK, Threads, Running, WaitLock, WLocked,
     Switched, Live, Resumed
<1>5. Forking'
  BY SlotsAre, SMTT(20) DEF Inv, resume, At, goto, TypeOK, Threads, Forking, Place
<1>6. Family'
  BY SlotsAre DEF Inv, resume, At, goto, TypeOK, Threads, Family, Live, Place,
     initproc, Switched, Resumed
<1>7. Asleep'
  <2>1. state[p] = "RUNNING" /\ th[p].back \in Resumed
    BY DEF Inv, resume, At, Running, Switched, Live
  <2>. QED BY <2>1, SlotsAre DEF Inv, resume, goto, TypeOK, Threads, Resumed, Asleep,
     Waiting
<1>. QED BY <1>1, <1>2, <1>3, <1>4, <1>5, <1>6, <1>7 DEF Inv

\* A thread gives up its CPU only where it holds no lock.
LEMMA yield_Inv ==
  ASSUME Inv, NEW c \in CPUs, NEW p \in Slots, yield(c, p)
  PROVE  Inv'
<1>1. TypeOK'
  <2>1. th[p].pc \in Labels
    BY DEF Inv, TypeOK, Threads
  <2>2. th' \in Threads
    BY <2>1, GotoTypes, Zenon DEF Inv, yield, TypeOK
  <2>. QED BY <2>2, SlotsAre DEF Inv, yield, TypeOK, States
<1>2. Running'
  BY SlotsAre DEF Inv, yield, At, TypeOK, Threads, Running, PLocked
<1>3. Switched'
  BY SlotsAre DEF Inv, yield, At, TypeOK, Threads, Switched, Live, Resumed, Place
<1>4. WaitLock'
  BY SlotsAre DEF Inv, yield, At, TypeOK, Threads, Running, WaitLock, WLocked
<1>5. Forking'
  BY SlotsAre, SMTT(20) DEF Inv, yield, At, TypeOK, Threads, Forking, Place, Running
<1>6. Family'
  BY SlotsAre DEF Inv, yield, At, TypeOK, Threads, Family, Live, Place, initproc,
     Running
<1>7. Asleep'
  BY SlotsAre DEF Inv, yield, At, TypeOK, Threads, Asleep, Waiting
<1>. QED BY <1>1, <1>2, <1>3, <1>4, <1>5, <1>6, <1>7 DEF Inv

\* The new process was in a free slot, so on no CPU, and nobody's parent, child in
\* the making or sleeper.
LEMMA fork_Inv ==
  ASSUME Inv, NEW c \in CPUs, NEW p \in Slots, NEW np \in Slots, fork(c, p, np)
  PROVE  Inv'
<1>t. /\ np # p
      /\ th' = [q \in Slots |->
                  IF q = np THEN [pc |-> "switched", back |-> "user", arg |-> 0]
                  ELSE IF q = p THEN [pc |-> "fork_parent", back |-> th[p].back, arg |-> np]
                  ELSE th[q]]
  <2>1. np # p
    BY DEF Inv, Running, fork, Syscall, At
  <2>2. th[p] = [pc |-> th[p].pc, back |-> th[p].back, arg |-> th[p].arg]
    BY DEF Inv, TypeOK, Threads
  <2>3. DOMAIN th = Slots /\ DOMAIN th' = Slots
    BY DEF Inv, fork, TypeOK, Threads
  <2>4. th'[np] = [pc |-> "switched", back |-> "user", arg |-> 0]
    BY <2>3 DEF fork, Thread
  <2>5. th'[p] = [pc |-> "fork_parent", back |-> th[p].back, arg |-> np]
    BY <2>1, <2>2, <2>3 DEF fork
  <2>6. \A q \in Slots \ {p, np} : th'[q] = th[q]
    BY <2>3 DEF fork
  <2>7. th' = [q \in Slots |-> th'[q]]
    BY <2>3, Zenon DEF fork
  <2>. QED BY <2>1, <2>4, <2>5, <2>6, <2>7
<1>r. /\ Syscall(c, p) /\ state[np] = "UNUSED" /\ plock[np] = 0 /\ nextpid <= MaxPid
      /\ state' = [state EXCEPT ![np] = "USED"]
      /\ pid' = [pid EXCEPT ![np] = nextpid]
      /\ nextpid' = nextpid + 1
      /\ UNCHANGED <<chan, killed, parent, plock, wait_lock, cpu>>
  BY DEF fork
<1>1. TypeOK'
  <2>1. th' \in Threads
    BY <1>t, <1>r, SlotsAre DEF Inv, TypeOK, Threads, Labels
  <2>2. nextpid \in 0..MaxPid /\ nextpid' \in 2..(MaxPid + 1)
    BY <1>r, ConstantsAssumption DEF Inv, TypeOK
  <2>. QED BY <2>1, <2>2, <1>r, SlotsAre DEF Inv, TypeOK, States
<1>2. Running'
  BY <1>t, <1>r, SlotsAre DEF Inv, Syscall, At, TypeOK, Threads, Running, PLocked
<1>3. Switched'
  BY <1>t, <1>r, SlotsAre DEF Inv, Syscall, At, TypeOK, Threads, Running, Switched,
     Live, Resumed, Place
<1>4. WaitLock'
  <2>1. th[np].pc \notin WLocked /\ th[p].pc \notin WLocked
    BY <1>r DEF Inv, Syscall, At, Running, WLocked
  <2>2. \A q \in Slots : th'[q].pc \in WLocked <=> th[q].pc \in WLocked
    BY <1>t, <2>1 DEF WLocked
  <2>. QED BY <1>r, <2>2 DEF Inv, WaitLock
<1>5. Forking'
  BY <1>t, <1>r, SlotsAre DEF Inv, Syscall, At, TypeOK, Threads, Forking, Family, Place
<1>6. Family'
  BY <1>t, <1>r, SlotsAre DEF Inv, Syscall, At, TypeOK, Threads, Family, Live, Place,
     initproc
<1>7. Asleep'
  BY <1>t, <1>r, SlotsAre DEF Inv, Syscall, At, TypeOK, Threads, Asleep, Waiting
<1>. QED BY <1>1, <1>2, <1>3, <1>4, <1>5, <1>6, <1>7 DEF Inv

\* The slot was free, and is free again.
LEMMA fork_fails_Inv ==
  ASSUME Inv, NEW c \in CPUs, NEW p \in Slots, NEW np \in Slots, fork_fails(c, p, np)
  PROVE  Inv'
<1>1. TypeOK'
  BY ConstantsAssumption DEF Inv, fork_fails, freeproc, TypeOK, States
<1>2. Running'
  BY SlotsAre DEF Inv, fork_fails, Syscall, freeproc, At, TypeOK, Threads, Running,
     PLocked
<1>3. Switched'
  BY SlotsAre DEF Inv, fork_fails, Syscall, freeproc, At, TypeOK, Threads, Switched,
     Live, Resumed, Place
<1>4. WaitLock'
  BY SlotsAre DEF Inv, fork_fails, Syscall, freeproc, At, TypeOK, Threads, Running,
     WaitLock, WLocked
<1>5. Forking'
  BY SlotsAre DEF Inv, fork_fails, Syscall, freeproc, At, TypeOK, Threads, Forking,
     Place
<1>6. Family'
  BY SlotsAre DEF Inv, fork_fails, Syscall, freeproc, At, TypeOK, Threads, Family,
     Live, Place, initproc
<1>7. Asleep'
  BY SlotsAre DEF Inv, fork_fails, Syscall, freeproc, At, TypeOK, Threads, Asleep,
     Waiting, Running, Family, Live
<1>. QED BY <1>1, <1>2, <1>3, <1>4, <1>5, <1>6, <1>7 DEF Inv

\* A child gets a parent only now, so nobody waited for it or handed it over.
LEMMA fork_parent_Inv ==
  ASSUME Inv, NEW c \in CPUs, NEW p \in Slots, fork_parent(c, p)
  PROVE  Inv'
<1>1. TypeOK'
  <2>1. th' \in Threads
    BY GotoTypes, Zenon DEF Inv, fork_parent, TypeOK, Labels
  <2>2. parent' \in [Slots -> 0..NPROC]
    BY SlotsAre, Zenon DEF Inv, fork_parent, TypeOK
  <2>. QED BY <2>1, <2>2 DEF Inv, fork_parent, TypeOK
<1>2. Running'
  BY SlotsAre DEF Inv, fork_parent, At, goto, TypeOK, Threads, Running, PLocked
<1>3. Switched'
  BY SlotsAre DEF Inv, fork_parent, At, goto, TypeOK, Threads, Switched, Live,
     Resumed, Place
<1>4. WaitLock'
  BY SlotsAre DEF Inv, fork_parent, At, goto, TypeOK, Threads, Running, WaitLock,
     WLocked
<1>5. Forking'
  BY SlotsAre DEF Inv, fork_parent, At, goto, TypeOK, Threads, Forking, Place
<1>6. Family'
  BY SlotsAre DEF Inv, fork_parent, At, goto, TypeOK, Threads, Family, Live, Place,
     initproc, Running, Forking
<1>7. Asleep'
  BY SlotsAre, SMTT(20) DEF Inv, fork_parent, At, goto, TypeOK, Threads, Asleep, Waiting,
     Running, Forking, Place
<1>. QED BY <1>1, <1>2, <1>3, <1>4, <1>5, <1>6, <1>7 DEF Inv

\* The child that may run has a parent.
LEMMA fork_run_Inv ==
  ASSUME Inv, NEW c \in CPUs, NEW p \in Slots, fork_run(c, p)
  PROVE  Inv'
<1>1. TypeOK'
  <2>1. th \in Threads /\ "user" \in Labels /\ 0 \in 0..NPROC
    BY SlotsAre DEF Inv, TypeOK, Labels
  <2>2. th' \in Threads
    BY <2>1, GotoTypes, Zenon DEF fork_run
  <2>. QED BY <2>2, Zenon DEF Inv, fork_run, TypeOK, States
<1>2. Running'
  BY SlotsAre DEF Inv, fork_run, At, call, TypeOK, Threads, Running, PLocked
<1>3. Switched'
  BY SlotsAre DEF Inv, fork_run, At, call, TypeOK, Threads, Switched, Live, Resumed,
     Place
<1>4. WaitLock'
  BY SlotsAre DEF Inv, fork_run, At, call, TypeOK, Threads, Running, WaitLock, WLocked
<1>5. Forking'
  BY SlotsAre, SMTT(20) DEF Inv, fork_run, At, call, TypeOK, Threads, Forking, Place
<1>6. Family'
  BY SlotsAre DEF Inv, fork_run, At, call, TypeOK, Threads, Family, Live, Place,
     initproc
<1>7. Asleep'
  BY SlotsAre DEF Inv, fork_run, At, call, TypeOK, Threads, Asleep, Waiting
<1>. QED BY <1>1, <1>2, <1>3, <1>4, <1>5, <1>6, <1>7 DEF Inv

\* A process other than init starts to exit.
LEMMA exit_Inv ==
  ASSUME Inv, NEW c \in CPUs, NEW p \in Slots, exit(c, p)
  PROVE  Inv'
<1>1. TypeOK'
  <2>1. th' \in Threads
    BY GotoTypes, Zenon DEF Inv, exit, TypeOK, Labels
  <2>. QED BY <2>1, SlotsAre DEF Inv, exit, fields, TypeOK, States
<1>2. Running'
  BY SlotsAre DEF Inv, exit, At, goto, fields, TypeOK, Threads, Running, PLocked
<1>3. Switched'
  BY SlotsAre DEF Inv, exit, At, goto, fields, TypeOK, Threads, Switched, Live,
     Resumed, Place
<1>4. WaitLock'
  BY SlotsAre DEF Inv, exit, At, goto, fields, TypeOK, Threads, Running, WaitLock,
     WLocked
<1>5. Forking'
  BY SlotsAre, SMTT(20) DEF Inv, exit, At, goto, fields, TypeOK, Threads, Forking, Place
<1>6. Family'
  BY SlotsAre DEF Inv, exit, At, goto, fields, TypeOK, Threads, Family, Live, Place,
     initproc
<1>7. Asleep'
  BY SlotsAre DEF Inv, exit, At, goto, fields, TypeOK, Threads, Asleep, Waiting
<1>. QED BY <1>1, <1>2, <1>3, <1>4, <1>5, <1>6, <1>7 DEF Inv

\* wait_lock is taken.
LEMMA exit_lock_Inv ==
  ASSUME Inv, NEW c \in CPUs, NEW p \in Slots, exit_lock(c, p)
  PROVE  Inv'
<1>1. TypeOK'
  <2>1. th' \in Threads
    BY GotoTypes, Zenon DEF Inv, exit_lock, TypeOK, Labels
  <2>. QED BY <2>1, SlotsAre DEF Inv, exit_lock, fields, TypeOK, States
<1>2. Running'
  BY SlotsAre DEF Inv, exit_lock, At, goto, fields, TypeOK, Threads, Running, PLocked
<1>3. Switched'
  BY SlotsAre DEF Inv, exit_lock, At, goto, fields, TypeOK, Threads, Switched, Live,
     Resumed, Place
<1>4. WaitLock'
  BY SlotsAre DEF Inv, exit_lock, At, goto, fields, TypeOK, Threads, Running,
     WaitLock, WLocked
<1>5. Forking'
  BY SlotsAre, SMTT(20) DEF Inv, exit_lock, At, goto, fields, TypeOK, Threads, Forking,
     Place
<1>6. Family'
  BY SlotsAre DEF Inv, exit_lock, At, goto, fields, TypeOK, Threads, Family, Live,
     Place, initproc
<1>7. Asleep'
  BY SlotsAre DEF Inv, exit_lock, At, goto, fields, TypeOK, Threads, Asleep, Waiting
<1>. QED BY <1>1, <1>2, <1>3, <1>4, <1>5, <1>6, <1>7 DEF Inv

\* The children go to init, which is alive, and is awake from now on if it was
\* asleep in wait(): it cannot be on its way to sleep, for that takes wait_lock.
LEMMA reparent_Inv ==
  ASSUME Inv, NEW c \in CPUs, NEW p \in Slots, reparent(c, p)
  PROVE  Inv'
<1>1. TypeOK'
  <2>1. th' \in Threads
    BY GotoTypes, Zenon DEF Inv, reparent, TypeOK, Labels
  <2>. QED BY <2>1, SlotsAre DEF Inv, reparent, wakeup, TypeOK, States
<1>2. Running'
  BY SlotsAre DEF Inv, reparent, At, goto, wakeup, TypeOK, Threads, Running, PLocked
<1>3. Switched'
  BY SlotsAre DEF Inv, reparent, At, goto, wakeup, TypeOK, Threads, Switched, Live,
     Resumed, Place
<1>4. WaitLock'
  BY SlotsAre DEF Inv, reparent, At, goto, wakeup, TypeOK, Threads, Running, WaitLock,
     WLocked
<1>5. Forking'
  BY SlotsAre DEF Inv, reparent, At, goto, wakeup, TypeOK, Threads, Forking, Place
<1>6. Family'
  BY SlotsAre DEF Inv, reparent, At, goto, wakeup, TypeOK, Threads, Family, Live,
     Place, initproc
<1>7. Asleep'
  <2>1. p # initproc /\ state[p] = "RUNNING"
    BY DEF Inv, reparent, At, Running, Family, Place
  <2>2. \A q \in Slots : th[q].pc \in WLocked => q = p
    BY DEF Inv, reparent, At, Running, WaitLock, WLocked
  <2>3. ASSUME NEW q \in Slots, parent[q] = p PROVE state'[initproc] # "SLEEPING"
    BY <2>1, <2>3, SlotsAre, SMTT(20) DEF Inv, reparent, wakeup, TypeOK, Switched
  <2>. QED BY <2>1, <2>2, <2>3, SlotsAre DEF Inv, reparent, At, goto, wakeup, TypeOK,
          Threads, Asleep, Waiting, WLocked
<1>. QED BY <1>1, <1>2, <1>3, <1>4, <1>5, <1>6, <1>7 DEF Inv

\* The parent is awake from now on: it cannot go to sleep before wait_lock is
\* released.
LEMMA exit_wakeup_Inv ==
  ASSUME Inv, NEW c \in CPUs, NEW p \in Slots, exit_wakeup(c, p)
  PROVE  Inv'
<1>1. TypeOK'
  <2>1. th' \in Threads
    BY GotoTypes, Zenon DEF Inv, exit_wakeup, TypeOK, Labels
  <2>. QED BY <2>1, SlotsAre DEF Inv, exit_wakeup, wakeup, TypeOK, States
<1>2. Running'
  BY SlotsAre DEF Inv, exit_wakeup, At, goto, wakeup, TypeOK, Threads, Running,
     PLocked
<1>3. Switched'
  BY SlotsAre DEF Inv, exit_wakeup, At, goto, wakeup, TypeOK, Threads, Switched, Live,
     Resumed, Place
<1>4. WaitLock'
  BY SlotsAre DEF Inv, exit_wakeup, At, goto, wakeup, TypeOK, Threads, Running,
     WaitLock, WLocked
<1>5. Forking'
  BY SlotsAre DEF Inv, exit_wakeup, At, goto, wakeup, TypeOK, Threads, Forking, Place
<1>6. Family'
  BY SlotsAre DEF Inv, exit_wakeup, At, goto, wakeup, TypeOK, Threads, Family, Live,
     Place, initproc
<1>7. Asleep'
  <2>1. state[p] = "RUNNING"
    BY DEF Inv, exit_wakeup, At, Running
  <2>2. parent[p] # 0 => state'[parent[p]] # "SLEEPING"
    BY <2>1, SlotsAre, SMTT(20) DEF Inv, exit_wakeup, wakeup, TypeOK, Switched
  <2>. QED BY <2>1, <2>2, SlotsAre DEF Inv, exit_wakeup, At, goto, wakeup, TypeOK,
     Threads,
          Asleep, Waiting
<1>. QED BY <1>1, <1>2, <1>3, <1>4, <1>5, <1>6, <1>7 DEF Inv

\* A process becomes a zombie without children, and its parent is not asleep.
LEMMA exit_zombie_Inv ==
  ASSUME Inv, NEW c \in CPUs, NEW p \in Slots, exit_zombie(c, p)
  PROVE  Inv'
<1>1. TypeOK'
  <2>1. th' \in Threads
    BY GotoTypes, Zenon DEF Inv, exit_zombie, TypeOK, Labels
  <2>. QED BY <2>1, SlotsAre DEF Inv, exit_zombie, TypeOK, States
<1>2. Running'
  BY SlotsAre DEF Inv, exit_zombie, At, TypeOK, Threads, Running, PLocked
<1>3. Switched'
  BY SlotsAre DEF Inv, exit_zombie, At, TypeOK, Threads, Switched, Live, Resumed,
     Place
<1>4. WaitLock'
  BY SlotsAre DEF Inv, exit_zombie, At, TypeOK, Threads, Running, WaitLock, WLocked
<1>5. Forking'
  BY SlotsAre, SMTT(20) DEF Inv, exit_zombie, At, TypeOK, Threads, Forking, Place, Running
<1>6. Family'
  BY SlotsAre DEF Inv, exit_zombie, At, TypeOK, Threads, Family, Live, Place,
     initproc, Running
<1>7. Asleep'
  <2>1. \A q \in Slots : th[q].pc \in {"sleep", "sleep_locked"} => FALSE
    BY DEF Inv, exit_zombie, At, Running, WaitLock, WLocked
  <2>. QED BY <2>1, SlotsAre DEF Inv, exit_zombie, At, TypeOK, Threads, Asleep, Waiting
<1>. QED BY <1>1, <1>2, <1>3, <1>4, <1>5, <1>6, <1>7 DEF Inv

\* A process enters wait().
LEMMA wait_Inv ==
  ASSUME Inv, NEW c \in CPUs, NEW p \in Slots, wait(c, p)
  PROVE  Inv'
<1>1. TypeOK'
  <2>1. th' \in Threads
    BY GotoTypes, Zenon DEF Inv, wait, TypeOK, Labels
  <2>. QED BY <2>1, SlotsAre DEF Inv, wait, fields, TypeOK, States
<1>2. Running'
  BY SlotsAre DEF Inv, wait, goto, Syscall, fields, At, TypeOK, Threads, Running,
     PLocked
<1>3. Switched'
  BY SlotsAre DEF Inv, wait, goto, Syscall, fields, At, TypeOK, Threads, Switched,
     Live, Resumed, Place
<1>4. WaitLock'
  BY SlotsAre DEF Inv, wait, goto, Syscall, fields, At, TypeOK, Threads, Running,
     WaitLock, WLocked
<1>5. Forking'
  BY SlotsAre DEF Inv, wait, goto, Syscall, fields, At, TypeOK, Threads, Forking,
     Place
<1>6. Family'
  BY SlotsAre DEF Inv, wait, goto, Syscall, fields, At, TypeOK, Threads, Family, Live,
     Place, initproc
<1>7. Asleep'
  BY SlotsAre DEF Inv, wait, goto, Syscall, fields, At, TypeOK, Threads, Asleep,
     Waiting
<1>. QED BY <1>1, <1>2, <1>3, <1>4, <1>5, <1>6, <1>7 DEF Inv

\* wait_lock is taken.
LEMMA wait_acquire_Inv ==
  ASSUME Inv, NEW c \in CPUs, NEW p \in Slots, wait_acquire(c, p)
  PROVE  Inv'
<1>1. TypeOK'
  <2>1. th' \in Threads
    BY GotoTypes, Zenon DEF Inv, wait_acquire, TypeOK, Labels
  <2>. QED BY <2>1, SlotsAre DEF Inv, wait_acquire, fields, TypeOK, States
<1>2. Running'
  BY SlotsAre DEF Inv, wait_acquire, At, goto, fields, TypeOK, Threads, Running,
     PLocked
<1>3. Switched'
  BY SlotsAre DEF Inv, wait_acquire, At, goto, fields, TypeOK, Threads, Switched,
     Live, Resumed, Place
<1>4. WaitLock'
  BY SlotsAre DEF Inv, wait_acquire, At, goto, fields, TypeOK, Threads, Running,
     WaitLock, WLocked
<1>5. Forking'
  BY SlotsAre, SMTT(20) DEF Inv, wait_acquire, At, goto, fields, TypeOK, Threads,
     Forking, Place
<1>6. Family'
  BY SlotsAre DEF Inv, wait_acquire, At, goto, fields, TypeOK, Threads, Family, Live,
     Place, initproc
<1>7. Asleep'
  BY SlotsAre DEF Inv, wait_acquire, At, goto, fields, TypeOK, Threads, Asleep,
     Waiting
<1>. QED BY <1>1, <1>2, <1>3, <1>4, <1>5, <1>6, <1>7 DEF Inv

\* A zombie that left its CPU is freed: it has no children, and only its parent
\* waited for it.
LEMMA wait_reap_Inv ==
  ASSUME Inv, NEW c \in CPUs, NEW p \in Slots, NEW q \in Slots, wait_reap(c, p, q)
  PROVE  Inv'
<1>1. TypeOK'
  <2>1. th' \in Threads
    BY GotoTypes, Zenon DEF Inv, wait_reap, TypeOK, Labels
  <2>2. 0 \in 0..NPROC /\ 0 \in 0..MaxPid
    BY ConstantsAssumption
  <2>3. CASE freeproc(q)
    <3>1. /\ state' \in [Slots -> States] /\ chan' \in [Slots -> 0..NPROC]
          /\ killed' \in [Slots -> {0, 1}] /\ pid' \in [Slots -> 0..MaxPid]
          /\ parent' \in [Slots -> 0..NPROC]
      BY <2>2, <2>3 DEF Inv, freeproc, TypeOK, States
    <3>. QED BY <2>1, <3>1 DEF Inv, wait_reap, TypeOK
  <2>4. CASE UNCHANGED <<pid, parent, chan, killed, state>>
    BY <2>1, <2>4 DEF Inv, wait_reap, TypeOK
  <2>. QED BY <2>3, <2>4 DEF wait_reap
<1>2. Running'
  BY SlotsAre DEF Inv, wait_reap, At, goto, freeproc, TypeOK, Threads, Running,
     PLocked
<1>3. Switched'
  BY SlotsAre DEF Inv, wait_reap, At, goto, freeproc, TypeOK, Threads, Switched, Live,
     Resumed, Place
<1>4. WaitLock'
  BY SlotsAre DEF Inv, wait_reap, At, goto, freeproc, TypeOK, Threads, Running,
     WaitLock, WLocked
<1>5. Forking'
  BY SlotsAre, SMTT(20) DEF Inv, wait_reap, At, goto, freeproc, TypeOK, Threads,
     Forking, Place
<1>6. Family'
  <2>2. CASE freeproc(q)
    BY <2>2, SlotsAre DEF Inv, wait_reap, At, goto, freeproc, TypeOK, Threads, Family,
       Live, Place,
       initproc
  <2>3. CASE UNCHANGED <<pid, parent, chan, killed, state>>
    BY <2>3, SlotsAre DEF Inv, wait_reap, At, goto, TypeOK, Threads, Family, Live,
       Place, initproc
  <2>. QED BY <2>2, <2>3 DEF wait_reap
<1>7. Asleep'
  <2>1. state[p] # "SLEEPING"
    BY DEF Inv, wait_reap, At, Running
  <2>2. CASE freeproc(q)
    BY <2>1, <2>2, SlotsAre DEF Inv, wait_reap, At, goto, freeproc, TypeOK, Threads,
       Asleep, Waiting
  <2>3. CASE UNCHANGED <<pid, parent, chan, killed, state>>
    BY <2>3, SlotsAre DEF Inv, wait_reap, At, goto, TypeOK, Threads, Asleep, Waiting
  <2>. QED BY <2>2, <2>3 DEF wait_reap
<1>. QED BY <1>1, <1>2, <1>3, <1>4, <1>5, <1>6, <1>7 DEF Inv

\* A process goes on to sleep() with children of which none is a zombie.
LEMMA wait_none_Inv ==
  ASSUME Inv, NEW c \in CPUs, NEW p \in Slots, wait_none(c, p)
  PROVE  Inv'
<1>l. PICK l \in {"user", "sleep"} :
       /\ At(c, p, "wait_scan")
       /\ goto(p, l)
       /\ l = "user" => wait_lock' = 0
       /\ l = "sleep" => wait_lock' = wait_lock /\ Waiting(p)
       /\ UNCHANGED <<fields, plock, cpu>>
  BY DEF wait_none, Waiting
<1>1. TypeOK'
  <2>1. th \in Threads /\ l \in Labels
    BY DEF Inv, TypeOK, Labels
  <2>2. th' \in Threads
    BY <1>l, <2>1, GotoTypes, Zenon
  <2>. QED BY <1>l, <2>2, SlotsAre DEF Inv, fields, TypeOK
<1>2. Running'
  BY <1>l, SlotsAre DEF Inv, At, goto, fields, TypeOK, Threads, Running, PLocked
<1>3. Switched'
  BY <1>l, SlotsAre DEF Inv, At, goto, fields, TypeOK, Threads, Switched, Live, Resumed,
     Place
<1>4. WaitLock'
  BY <1>l, SlotsAre DEF Inv, At, goto, fields, TypeOK, Threads, Running, WaitLock, WLocked
<1>5. Forking'
  BY <1>l, SlotsAre, SMTT(20) DEF Inv, At, goto, fields, TypeOK, Threads, Forking, Place
<1>6. Family'
  BY <1>l, SlotsAre DEF Inv, At, goto, fields, TypeOK, Threads, Family, Live, Place,
     initproc
<1>7. Asleep'
  BY <1>l, SlotsAre DEF Inv, At, goto, fields, TypeOK, Threads, Asleep, Waiting
<1>. QED BY <1>1, <1>2, <1>3, <1>4, <1>5, <1>6, <1>7 DEF Inv

\* p->lock is taken.
LEMMA sleep_lock_Inv ==
  ASSUME Inv, NEW c \in CPUs, NEW p \in Slots, sleep_lock(c, p)
  PROVE  Inv'
<1>1. TypeOK'
  <2>1. th' \in Threads
    BY GotoTypes, Zenon DEF Inv, sleep_lock, TypeOK, Labels
  <2>. QED BY <2>1, SlotsAre DEF Inv, sleep_lock, fields, TypeOK, States
<1>2. Running'
  BY SlotsAre DEF Inv, sleep_lock, At, goto, fields, TypeOK, Threads, Running, PLocked
<1>3. Switched'
  BY SlotsAre DEF Inv, sleep_lock, At, goto, fields, TypeOK, Threads, Switched, Live,
     Resumed, Place
<1>4. WaitLock'
  BY SlotsAre DEF Inv, sleep_lock, At, goto, fields, TypeOK, Threads, Running,
     WaitLock, WLocked
<1>5. Forking'
  BY SlotsAre, SMTT(20) DEF Inv, sleep_lock, At, goto, fields, TypeOK, Threads,
     Forking, Place
<1>6. Family'
  BY SlotsAre DEF Inv, sleep_lock, At, goto, fields, TypeOK, Threads, Family, Live,
     Place, initproc
<1>7. Asleep'
  BY SlotsAre DEF Inv, sleep_lock, At, goto, fields, TypeOK, Threads, Asleep, Waiting
<1>. QED BY <1>1, <1>2, <1>3, <1>4, <1>5, <1>6, <1>7 DEF Inv

\* A process falls asleep while no other is between reparent() and its end.
LEMMA sleep_Inv ==
  ASSUME Inv, NEW c \in CPUs, NEW p \in Slots, sleep(c, p)
  PROVE  Inv'
<1>1. TypeOK'
  <2>1. th' \in Threads
    BY GotoTypes, Zenon DEF Inv, sleep, TypeOK, Labels
  <2>. QED BY <2>1, SlotsAre DEF Inv, sleep, TypeOK, States
<1>2. Running'
  BY SlotsAre DEF Inv, sleep, At, TypeOK, Threads, Running, PLocked
<1>3. Switched'
  BY SlotsAre DEF Inv, sleep, At, TypeOK, Threads, Switched, Live, Resumed, Place
<1>4. WaitLock'
  BY SlotsAre DEF Inv, sleep, At, TypeOK, Threads, Running, WaitLock, WLocked
<1>5. Forking'
  BY SlotsAre, SMTT(20) DEF Inv, sleep, At, TypeOK, Threads, Forking, Place, Running
<1>6. Family'
  BY SlotsAre DEF Inv, sleep, At, TypeOK, Threads, Family, Live, Place, initproc,
     Running
<1>7. Asleep'
  <2>1. \A q \in Slots : th[q].pc # "zombie"
    BY DEF Inv, sleep, At, Running, WaitLock, WLocked
  <2>. QED BY <2>1, SlotsAre DEF Inv, sleep, At, TypeOK, Threads, Asleep, Waiting
<1>. QED BY <1>1, <1>2, <1>3, <1>4, <1>5, <1>6, <1>7 DEF Inv

\* A sleeper that is killed is runnable.
LEMMA kill_Inv ==
  ASSUME Inv, NEW c \in CPUs, NEW p \in Slots, NEW q \in Slots, kill(c, p, q)
  PROVE  Inv'
<1>1. TypeOK'
  <2>1. state' \in [Slots -> States] /\ killed' \in [Slots -> {0, 1}]
    BY DEF Inv, kill, TypeOK, States
  <2>. QED BY <2>1 DEF Inv, kill, TypeOK
<1>2. Running'
  BY SlotsAre DEF Inv, kill, Syscall, At, TypeOK, Threads, Running, PLocked
<1>3. Switched'
  BY SlotsAre DEF Inv, kill, Syscall, At, TypeOK, Threads, Switched, Live, Resumed,
     Place
<1>4. WaitLock'
  BY SlotsAre DEF Inv, kill, Syscall, At, TypeOK, Threads, Running, WaitLock, WLocked
<1>5. Forking'
  BY SlotsAre DEF Inv, kill, Syscall, At, TypeOK, Threads, Forking, Place
<1>6. Family'
  BY SlotsAre DEF Inv, kill, Syscall, At, TypeOK, Threads, Family, Live, Place,
     initproc
<1>7. Asleep'
  BY SlotsAre DEF Inv, kill, Syscall, At, TypeOK, Threads, Asleep, Waiting
<1>. QED BY <1>1, <1>2, <1>3, <1>4, <1>5, <1>6, <1>7 DEF Inv

\* The table userinit() leaves satisfies it.
LEMMA InitInv == Init => Inv
<1> SUFFICES ASSUME Init PROVE Inv
  OBVIOUS
<1>1. TypeOK
  BY ConstantsAssumption, SlotsAre DEF Init, TypeOK, Threads, Thread, States, Labels
<1>2. Running /\ Switched /\ WaitLock /\ Forking
  BY SlotsAre DEF Init, Thread, Running, Switched, WaitLock, Forking, Place, Live,
     Resumed,
     PLocked, WLocked
<1>3. Family /\ Asleep
  BY SlotsAre DEF Init, Thread, Family, Asleep, Waiting, Place, Live, initproc
<1>. QED BY <1>1, <1>2, <1>3 DEF Inv

\* Every step preserves it.
LEMMA NextInv == Inv /\ [Next]_vars => Inv'
<1> SUFFICES ASSUME Inv, [Next]_vars PROVE Inv'
  OBVIOUS
<1>1. CASE UNCHANGED vars
  <2>1. TypeOK' /\ Running' /\ Switched' /\ WaitLock'
    BY <1>1 DEF Inv, vars, TypeOK, Running, Switched, WaitLock, Place
  <2>2. Forking' /\ Family' /\ Asleep'
    BY <1>1, SMTT(20) DEF Inv, vars, Forking, Family, Asleep, Waiting, Place
  <2>. QED BY <2>1, <2>2 DEF Inv
<1>2. CASE Next
  <2>1. PICK c \in CPUs, p \in Slots :
          scheduler(c, p) \/ Switch(c, p) \/ Kernel(c, p) \/ yield(c, p) \/ User(c, p)
    BY <1>2 DEF Next
  <2>2. CASE scheduler(c, p)
    BY <2>2, scheduler_Inv
  <2>3. CASE Switch(c, p)
    BY <2>3, sched_Inv, resume_Inv DEF Switch
  <2>4. CASE Kernel(c, p)
    BY <2>4, fork_parent_Inv, fork_run_Inv, exit_lock_Inv, reparent_Inv, exit_wakeup_Inv,
       exit_zombie_Inv, wait_acquire_Inv, wait_reap_Inv, wait_none_Inv, sleep_lock_Inv,
       sleep_Inv DEF Kernel
  <2>5. CASE yield(c, p)
    BY <2>5, yield_Inv
  <2>6. CASE User(c, p)
    BY <2>6, exit_Inv, wait_Inv, fork_Inv, fork_fails_Inv, kill_Inv DEF User
  <2>. QED BY <2>1, <2>2, <2>3, <2>4, <2>5, <2>6
<1>. QED BY <1>1, <1>2

\* The invariant holds in every reachable state.
THEOREM Invariance == Spec => []Inv
  BY InitInv, NextInv, PTL DEF Spec
------------------------------------------------------------------------------
(* What follows *)

\* A process runs on at most one CPU, whatever the interleaving of the
\* schedulers with wakeup(), kill() and wait(); and what sched() and exit() would
\* panic about does not happen: OneCpu of Proc, for every number of CPUs.
THEOREM RunsOnce == Spec => []OneCpu
<1>1. Inv => OneCpu
  <2> SUFFICES ASSUME Inv PROVE OneCpu
    OBVIOUS
  <2>1. ASSUME NEW p \in Slots
        PROVE  Cardinality({c \in CPUs : cpu[c] = p}) <= 1
    <3>1. CASE {c \in CPUs : cpu[c] = p} = {}
      BY <3>1, FS_EmptySet
    <3>2. CASE {c \in CPUs : cpu[c] = p} # {}
      <4>1. PICK c \in CPUs : cpu[c] = p
        BY <3>2
      <4>2. {d \in CPUs : cpu[d] = p} = {c}
        BY <4>1, SlotsAre DEF Inv, Running
      <4>3. Cardinality({c}) = 1
        BY FS_Singleton
      <4>. QED BY <4>2, <4>3
    <3>. QED BY <3>1, <3>2
  <2>2. ASSUME NEW p \in Slots
        PROVE  /\ state[p] = "RUNNING" => \E c \in CPUs : cpu[c] = p
               /\ state[p] \in {"UNUSED", "USED"} => \A c \in CPUs : cpu[c] # p
    BY DEF Inv, Running
  <2>3. ASSUME NEW c \in CPUs, NEW p \in Slots
        PROVE  /\ ~At(c, p, "panic")
               /\ At(c, p, "sched") =>
                    /\ plock[p] = c /\ wait_lock # c
                    /\ \A q \in Slots \ {p} : plock[q] # c
                    /\ state[p] # "RUNNING"
    <3>1. ~At(c, p, "panic")
      BY DEF Inv, Switched, At
    <3>2. ASSUME At(c, p, "sched") PROVE plock[p] = c /\ state[p] # "RUNNING"
      BY <3>2 DEF Inv, Running, PLocked, At
    <3>3. ASSUME At(c, p, "sched") PROVE wait_lock # c
      BY <3>3, SlotsAre DEF Inv, WaitLock, WLocked, At
    <3>4. ASSUME At(c, p, "sched"), NEW q \in Slots \ {p} PROVE plock[q] # c
      BY <3>4, SlotsAre DEF Inv, Running, At
    <3>. QED BY <3>1, <3>2, <3>3, <3>4
  <2>. QED BY <2>1, <2>2, <2>3 DEF OneCpu
<1>. QED BY <1>1, Invariance, PTL

\* Nobody's parent is dead, whenever exit() hands children over while others
\* fork, exit or wait: ParentAlive of Proc.
THEOREM ParentsLive == Spec => []ParentAlive
<1>1. Inv => ParentAlive
  BY DEF Inv, Family, ParentAlive, Live
<1>. QED BY <1>1, Invariance, PTL

\* No exit() is missed by a wait(): NoLostExit of Proc.  The invariant says more:
\* a sleeper's children are not zombies even while wait_lock is held.
THEOREM ExitsSeen == Spec => []NoLostExit
<1>1. Inv => NoLostExit
  BY DEF Inv, Asleep, Waiting, NoLostExit
<1>. QED BY <1>1, Invariance, PTL

\* A free slot has no pid and no kill mark, and a mark was asked for.
Killed ==
  \A p \in Slots :
    /\ state[p] = "UNUSED" => pid[p] = 0 /\ killed[p] = 0
    /\ killed[p] = 1 => pid[p] \in KillPids

\* Every step preserves that, unless somebody kills process 0, which is every
\* free slot.
LEMMA KilledStep ==
  ASSUME 0 \notin KillPids, Inv, Killed, [Next]_vars
  PROVE  Killed'
<1>1. CASE UNCHANGED vars
  BY <1>1 DEF vars, Killed
<1>2. ASSUME NEW c \in CPUs, NEW p \in Slots, scheduler(c, p) \/ Switch(c, p) \/ yield(c, p)
      PROVE  Killed'
  BY <1>2 DEF Inv, TypeOK, Killed, Switch, scheduler, sched, resume, yield, fields
<1>3. ASSUME NEW c \in CPUs, NEW p \in Slots, Kernel(c, p)
      PROVE  Killed'
  <2>1. CASE fork_parent(c, p) \/ fork_run(c, p) \/ exit_lock(c, p) \/ wait_acquire(c, p)
             \/ wait_none(c, p) \/ sleep_lock(c, p) \/ sleep(c, p) \/ exit_zombie(c, p)
    BY <2>1 DEF Inv, TypeOK, Killed, fork_parent, fork_run, exit_lock, wait_acquire,
       wait_none,
       sleep_lock, sleep, exit_zombie, fields
  <2>2. CASE reparent(c, p) \/ exit_wakeup(c, p)
    BY <2>2 DEF Inv, TypeOK, Killed, reparent, exit_wakeup, wakeup
  <2>3. ASSUME NEW q \in Slots, wait_reap(c, p, q) PROVE Killed'
    BY <2>3 DEF Inv, TypeOK, Killed, wait_reap, freeproc
  <2>. QED BY <1>3, <2>1, <2>2, <2>3 DEF Kernel
<1>4. ASSUME NEW c \in CPUs, NEW p \in Slots, User(c, p)
      PROVE  Killed'
  <2>1. CASE exit(c, p) \/ wait(c, p)
    BY <2>1 DEF Killed, exit, wait, fields
  <2>2. ASSUME NEW q \in Slots, fork(c, p, q) PROVE Killed'
    BY <2>2 DEF Inv, TypeOK, Killed, fork
  <2>3. ASSUME NEW q \in Slots, fork_fails(c, p, q) PROVE Killed'
    BY <2>3 DEF Inv, TypeOK, Killed, fork_fails, freeproc
  <2>4. ASSUME NEW q \in Slots, kill(c, p, q) PROVE Killed'
    BY <2>4 DEF Inv, TypeOK, Killed, kill
  <2>. QED BY <1>4, <2>1, <2>2, <2>3, <2>4 DEF User
<1>. QED BY <1>1, <1>2, <1>3, <1>4 DEF Next

\* kill() marks only the processes it was asked to kill, and nobody inherits a
\* mark with a slot, as long as nobody asks for process 0: KillsOnlyNamed of Proc.
THEOREM KillsNamed ==
  ASSUME 0 \notin KillPids
  PROVE  Spec => []KillsOnlyNamed
<1>1. Init => Killed
  BY SlotsAre DEF Init, Killed
<1>2. Inv /\ Killed /\ [Next]_vars => Killed'
  BY KilledStep
<1>3. Killed => KillsOnlyNamed
  BY DEF Killed, KillsOnlyNamed
<1>. QED BY <1>1, <1>2, <1>3, Invariance, PTL DEF Spec
==============================================================================
