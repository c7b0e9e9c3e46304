--------------------------------- MODULE Vm ----------------------------------
(***************************************************************************)
(* kernel/kalloc.c, vm.c and exec.c, and what proc.c does to the memory of *)
(* a process: the free list, three-level page tables that live in          *)
(* allocated pages, and sbrk(), fork(), exec(), exit() and wait() as they  *)
(* take pages and give them back.                                          *)
(*                                                                         *)
(* Only the free list is shared, a page table belongs to one process: a    *)
(* step is what happens between two calls of kalloc() or kfree().  The     *)
(* steps of mappages() begin at the root again and find what they left.    *)
(* Sizes are in bytes; a, end and the TRAP constants are page numbers.  A  *)
(* page holds one value.                                                   *)
(***************************************************************************)
EXTENDS Integers, Sequences, FiniteSets

CONSTANTS
  Procs, initproc,
  MemorySizes,    \* numbers of physical pages a machine may have
  FAN,            \* entries of a page-table page
  PGSIZE, USERSTACK,
  Word,           \* number of values of a uint64
  Programs,       \* files that exec() may load
  ArgSizes,       \* room on the stack the arguments of exec() take
  SbrkArgs,
  MaxSize,        \* memory ends before a process is larger
  AddrPages,      \* pages that addresses passed to system calls lie in
  Values, Zero,   \* contents of a user page
  MaxCalls        \* system calls in a behaviour, but for exit() and wait()

Pg(size) == (size + PGSIZE - 1) \div PGSIZE   \* PGROUNDUP(size) / PGSIZE
MAXVA == FAN * FAN * FAN
TRAMPOLINE == MAXVA - 1
TRAPFRAME == TRAMPOLINE - 1
PX(level, a) == (a \div FAN^level) % FAN

Pages == 1..(CHOOSE n \in MemorySizes : \A m \in MemorySizes : m <= n)
trampoline == -1   \* a page of the kernel image

ASSUME ConstantsAssumption ==
  /\ initproc \in Procs
  /\ MaxCalls \in Nat
  /\ MemorySizes # {} /\ IsFiniteSet(MemorySizes)
  /\ \A n \in MemorySizes : n \in Nat /\ n >= 7   \* userinit() needs them
  /\ {PGSIZE, USERSTACK, Word} \subseteq Nat \ {0}
  /\ FAN \in Nat \ {0, 1}
  /\ ArgSizes \subseteq Nat \ {0}
  /\ SbrkArgs \subseteq Int /\ AddrPages \subseteq Nat
  /\ Zero \in Values
  /\ \A g \in Programs : g.val \in Values
  /\ MaxSize \in Nat /\ MaxSize < Word /\ Pg(MaxSize) <= TRAPFRAME
  /\ \A g \in Programs : \A k \in DOMAIN g.segs :
       (Pg(g.segs[k].vaddr + g.segs[k].memsz) + USERSTACK + 1) * PGSIZE <= MaxSize

VARIABLES
  freelist,    \* kmem.freelist
  mem,         \* the contents of each page
  pagetable, trapframe, sz,   \* fields of struct proc, 0 if there is none
  pc, f,       \* where a process is in the kernel, and its local variables
  panicked,
  npages,      \* pages this machine has
  calls        \* system calls made so far, but for exit() and wait()

procs == <<pagetable, trapframe, sz>>
vars == <<freelist, mem, procs, pc, f, panicked, npages, calls>>

NoPte == [pa |-> 0, flags |-> {}]
Pte(pa, perm) == [pa |-> pa, flags |-> perm \cup {"V"}]
Valid(e) == "V" \in e.flags
Leaf(e) == e.flags \cap {"R", "W", "X"} # {}

Junk == [junk |-> TRUE]
NoImage == [none |-> TRUE]
Data(v) == [data |-> v]
Table(t) == [table |-> t]
EmptyTable == Table([i \in 0..(FAN - 1) |-> NoPte])

\* Local variables: the system call, the process fork() makes or wait()
\* frees, the page table worked on, its size and the size it gets, the loop
\* from a to end, the page in hand and its permissions, where uvmunmap()
\* returns to; for exec() the file, its next segment and the argument.
NoFrame ==
  [op |-> "none", np |-> initproc, tbl |-> 0, sz |-> 0, new |-> 0,
   a |-> 0, end |-> 0, pg |-> 0, perm |-> {}, then |-> "user",
   prog |-> [segs |-> <<>>, val |-> Zero], seg |-> 1, arg |-> 0]

UserPerm == {"R", "W", "U"}

\* kinit() and userinit().
Init ==
  /\ npages \in MemorySizes
  /\ freelist = [i \in 1..(npages - 7) |-> i + 7]
  /\ LET Entry(a, l, e) ==
           Table([EmptyTable.table EXCEPT ![PX(l, a)] = e])
     IN mem = [pg \in Pages |->
          CASE pg = 1 -> Data(Zero)
            [] pg = 2 -> Table([EmptyTable.table EXCEPT
                           ![PX(2, TRAMPOLINE)] = Pte(3, {}),
                           ![0] = Pte(6, {})])
            [] pg = 3 -> Entry(TRAMPOLINE, 1, Pte(4, {}))
            [] pg = 4 -> Table([EmptyTable.table EXCEPT
                           ![PX(0, TRAMPOLINE)] = Pte(trampoline, {"R", "X"}),
                           ![PX(0, TRAPFRAME)] = Pte(1, {"R", "W"})])
            [] pg = 5 -> Data(Zero)
            [] pg = 6 -> Entry(0, 1, Pte(7, {}))
            [] pg = 7 -> Entry(0, 0, Pte(5, {"R", "W", "X", "U"}))
            [] OTHER -> Junk]
  /\ pagetable = [p \in Procs |-> IF p = initproc THEN 2 ELSE 0]
  /\ trapframe = [p \in Procs |-> IF p = initproc THEN 1 ELSE 0]
  /\ sz = [p \in Procs |-> IF p = initproc THEN PGSIZE ELSE 0]
  /\ pc = [p \in Procs |-> IF p = initproc THEN "user" ELSE "unused"]
  /\ f = [p \in Procs |-> NoFrame]
  /\ panicked = FALSE
  /\ calls = 0
------------------------------------------------------------------------------
(* Steps and pages *)

At(p, label) == ~panicked /\ pc[p] = label

\* p goes on at a label with the local variables fr.
go(p, label, fr) ==
  /\ pc' = [pc EXCEPT ![p] = label]
  /\ f' = [f EXCEPT ![p] = IF label = "user" THEN NoFrame ELSE fr]
  /\ UNCHANGED <<panicked, npages, calls>>

panic ==
  /\ panicked' = TRUE
  /\ UNCHANGED <<freelist, mem, procs, pc, f, npages, calls>>

kalloc(content) ==
  /\ freelist # <<>>
  /\ freelist' = Tail(freelist)
  /\ mem' = [mem EXCEPT ![Head(freelist)] = content]

NoMemory == freelist = <<>> /\ UNCHANGED <<freelist, mem>>

\* kfree(pg), in the memory m.
kfree(m, pg) ==
  /\ freelist' = <<pg>> \o freelist
  /\ mem' = [m EXCEPT ![pg] = Junk]

\* walk(root, a, 0): the table it reaches, and its level.
walk(root, a) ==
  LET e2 == mem[root].table[PX(2, a)]
      e1 == mem[e2.pa].table[PX(1, a)]
  IN IF ~Valid(e2) THEN [t |-> root, level |-> 2]
     ELSE IF ~Valid(e1) THEN [t |-> e2.pa, level |-> 1]
     ELSE [t |-> e1.pa, level |-> 0]

Mapping(root, a) ==
  LET w == walk(root, a)
  IN IF a >= MAXVA \/ w.level > 0 THEN NoPte ELSE mem[w.t].table[PX(0, a)]

setpte(m, root, a, e) == [m EXCEPT ![walk(root, a).t].table[PX(0, a)] = e]
------------------------------------------------------------------------------
(* Adding pages *)

\* Mutant: uvmdealloc() is told that page a was added.
undo_OffByOne(fr) ==
  [fr EXCEPT !.a = Pg(fr.sz), !.end = fr.a + 1, !.pg = 0,
             !.then = CASE fr.op = "sbrk" -> "user"
                        [] fr.op = "exec" -> "freept"
                        [] OTHER -> "freeproc"]

\* A failure after some pages were added: uvmdealloc() or the error path of
\* uvmcopy() takes them back, then the caller fails.
undo(fr) ==
  [fr EXCEPT !.a = Pg(fr.sz), !.end = fr.a, !.pg = 0,
             !.then = CASE fr.op = "sbrk" -> "user"
                        [] fr.op = "exec" -> "freept"
                        [] OTHER -> "freeproc"]

\* An iteration of uvmalloc().
uvmalloc(p) ==
  /\ At(p, "alloc") /\ f[p].a < f[p].end
  /\ \/ kalloc(Data(Zero)) /\ go(p, "map", [f[p] EXCEPT !.pg = Head(freelist)])
     \/ NoMemory /\ go(p, "unmap", undo(f[p]))
  /\ UNCHANGED procs

\* Mutant: the copy gets the permissions of ordinary memory.
uvmcopy_LosesFlags(p) ==
  LET e == Mapping(pagetable[p], f[p].a)
  IN /\ At(p, "copy") /\ f[p].a < f[p].end
     /\ \/ ~Valid(e) /\ panic
        \/ /\ Valid(e)
           /\ \/ /\ kalloc(mem[e.pa])
                 /\ go(p, "map", [f[p] EXCEPT !.pg = Head(freelist),
                                              !.perm = UserPerm \cup {"X"}])
              \/ NoMemory /\ go(p, "unmap", undo(f[p]))
           /\ UNCHANGED procs

\* An iteration of uvmcopy().
uvmcopy(p) ==
  LET e == Mapping(pagetable[p], f[p].a)
  IN /\ At(p, "copy") /\ f[p].a < f[p].end
     /\ \/ ~Valid(e) /\ panic
        \/ /\ Valid(e)
           /\ \/ /\ kalloc(mem[e.pa])
                 /\ go(p, "map", [f[p] EXCEPT !.pg = Head(freelist),
                                              !.perm = e.flags])
              \/ NoMemory /\ go(p, "unmap", undo(f[p]))
           /\ UNCHANGED procs

\* walk() in mappages() adds a page-table page.
map_table(p) ==
  LET w == walk(f[p].tbl, f[p].a)
  IN /\ At(p, "map") /\ f[p].a < MAXVA /\ w.level > 0
     /\ freelist # <<>>
     /\ freelist' = Tail(freelist)
     /\ mem' = [mem EXCEPT ![Head(freelist)] = EmptyTable,
                           ![w.t].table[PX(w.level, f[p].a)] =
                               Pte(Head(freelist), {})]
     /\ go(p, "map", f[p])
     /\ UNCHANGED procs

\* Mutant: uvmalloc() and uvmcopy() keep the page that was not mapped.
map_fails_Leaks(p) ==
  /\ At(p, "map") /\ f[p].a < MAXVA /\ walk(f[p].tbl, f[p].a).level > 0
  /\ freelist = <<>>
  /\ CASE f[p].a = TRAMPOLINE -> go(p, "freewalk", f[p]) /\ UNCHANGED mem
       [] f[p].a = TRAPFRAME ->
            /\ mem' = setpte(mem, f[p].tbl, TRAMPOLINE, NoPte)
            /\ go(p, "freewalk", f[p])
       [] OTHER -> go(p, "unmap", undo(f[p])) /\ UNCHANGED mem
  /\ UNCHANGED <<freelist, procs>>

\* mappages() fails for want of a page-table page.
map_fails(p) ==
  /\ At(p, "map") /\ f[p].a < MAXVA /\ walk(f[p].tbl, f[p].a).level > 0
  /\ freelist = <<>>
  /\ CASE f[p].a = TRAMPOLINE ->
            go(p, "freewalk", f[p]) /\ UNCHANGED <<freelist, mem>>
       [] f[p].a = TRAPFRAME ->
            /\ mem' = setpte(mem, f[p].tbl, TRAMPOLINE, NoPte)
            /\ go(p, "freewalk", f[p]) /\ UNCHANGED freelist
       [] OTHER -> kfree(mem, f[p].pg) /\ go(p, "unmap", undo(f[p]))
  /\ UNCHANGED procs

\* mappages() stores the entry and its caller goes on.
map_page(p) ==
  LET a == f[p].a
      w == walk(f[p].tbl, a)
      Set(pa, perm) == mem' = setpte(mem, f[p].tbl, a, Pte(pa, perm))
      owner == IF f[p].op = "fork" THEN f[p].np ELSE p
  IN /\ At(p, "map")
     /\ \/ (a >= MAXVA \/ (w.level = 0 /\ Valid(Mapping(f[p].tbl, a)))) /\ panic
        \/ /\ a < MAXVA /\ w.level = 0 /\ ~Valid(Mapping(f[p].tbl, a))
           /\ CASE a = TRAMPOLINE ->
                     /\ Set(trampoline, {"R", "X"})
                     /\ go(p, "map", [f[p] EXCEPT !.a = TRAPFRAME])
                     /\ UNCHANGED procs
                [] a = TRAPFRAME ->
                     /\ Set(trapframe[owner], {"R", "W"})
                     /\ go(p, IF f[p].op = "fork" THEN "copy" ELSE "segment",
                           [f[p] EXCEPT !.a = 0])
                     /\ pagetable' = IF f[p].op = "fork"
                                       THEN [pagetable EXCEPT ![owner] = f[p].tbl]
                                       ELSE pagetable
                     /\ UNCHANGED <<trapframe, sz>>
                [] OTHER ->
                     /\ Set(f[p].pg, f[p].perm)
                     /\ go(p, IF f[p].op = "fork" THEN "copy" ELSE "alloc",
                           [f[p] EXCEPT !.a = a + 1, !.pg = 0])
                     /\ UNCHANGED procs
           /\ UNCHANGED freelist

\* uvmcreate(), the start of proc_pagetable().
uvmcreate(p) ==
  /\ At(p, "create")
  /\ \/ /\ kalloc(EmptyTable)
        /\ go(p, "map", [f[p] EXCEPT !.tbl = Head(freelist), !.a = TRAMPOLINE])
     \/ /\ NoMemory
        /\ go(p, IF f[p].op = "exec" THEN "execdone" ELSE "freeproc", f[p])
  /\ UNCHANGED procs
------------------------------------------------------------------------------
(* Removing pages *)

\* An iteration of uvmunmap(), which frees the page.
uvmunmap(p) ==
  LET e == Mapping(f[p].tbl, f[p].a)
  IN /\ At(p, "unmap") /\ f[p].a < f[p].end
     /\ \/ ~Leaf(e) /\ panic
        \/ /\ Leaf(e)
           /\ kfree(setpte(mem, f[p].tbl, f[p].a, NoPte), e.pa)
           /\ go(p, "unmap", [f[p] EXCEPT !.a = @ + 1])
           /\ UNCHANGED procs

uvmunmap_done(p) ==
  /\ At(p, "unmap") /\ f[p].a >= f[p].end
  /\ go(p, f[p].then, f[p])
  /\ UNCHANGED <<freelist, mem, procs>>

\* proc_freepagetable(), up to the loop of uvmfree().
proc_freepagetable(p) ==
  LET tbl == f[p].tbl
  IN /\ At(p, "freept")
     /\ \/ ~(Leaf(Mapping(tbl, TRAMPOLINE)) /\ Leaf(Mapping(tbl, TRAPFRAME))) /\ panic
        \/ /\ Leaf(Mapping(tbl, TRAMPOLINE)) /\ Leaf(Mapping(tbl, TRAPFRAME))
           /\ mem' = setpte(setpte(mem, tbl, TRAMPOLINE, NoPte), tbl, TRAPFRAME, NoPte)
           /\ go(p, "unmap", [f[p] EXCEPT !.a = 0, !.end = Pg(f[p].sz),
                                          !.then = "freewalk"])
           /\ UNCHANGED <<freelist, procs>>

\* The process np is UNUSED again and the call of p is over.
slot_freed(p, np) ==
  /\ pagetable' = [pagetable EXCEPT ![np] = 0]
  /\ sz' = [sz EXCEPT ![np] = 0]
  /\ pc' = [pc EXCEPT ![np] = "unused", ![p] = "user"]
  /\ f' = [f EXCEPT ![p] = NoFrame]
  /\ UNCHANGED <<panicked, npages, calls>>

\* The caller of the outermost freewalk() goes on: exec() returns, freeproc()
\* is done, or allocproc() calls freeproc() as it has no page table.
after_freewalk(p) ==
  IF f[p].op = "exec"
    THEN go(p, "execdone", [f[p] EXCEPT !.tbl = 0]) /\ UNCHANGED procs
    ELSE IF trapframe[f[p].np] # 0
      THEN go(p, "freeproc", [f[p] EXCEPT !.tbl = 0]) /\ UNCHANGED procs
      ELSE slot_freed(p, f[p].np) /\ UNCHANGED trapframe

\* The next page freewalk() frees: it comes to the first entry in use, and
\* frees a table after the tables below it.
freewalk(p) ==
  LET Used(t) == {i \in 0..(FAN - 1) : Valid(mem[t].table[i])}
      First(t) == CHOOSE i \in Used(t) : \A j \in Used(t) : i <= j
      root == f[p].tbl
      e1 == mem[root].table[First(root)]
      e0 == mem[e1.pa].table[First(e1.pa)]
      Free(t, pg) ==   \* the table of the first entry of t
        /\ kfree([mem EXCEPT ![t].table[First(t)] = NoPte], pg)
        /\ go(p, "freewalk", f[p]) /\ UNCHANGED procs
  IN /\ At(p, "freewalk")
     /\ IF Used(root) = {} THEN kfree(mem, root) /\ after_freewalk(p)
        ELSE IF Leaf(e1) THEN panic
        ELSE IF Used(e1.pa) = {} THEN Free(root, e1.pa)
        ELSE IF Leaf(e0) \/ Used(e0.pa) # {} THEN panic
        ELSE Free(e1.pa, e0.pa)

\* freeproc(f[p].np): the trapframe, then the page table.
freeproc(p) ==
  LET np == f[p].np
  IN /\ At(p, "freeproc")
     /\ kfree(mem, trapframe[np])
     /\ trapframe' = [trapframe EXCEPT ![np] = 0]
     /\ IF f[p].tbl # 0
          THEN go(p, "freept", f[p]) /\ UNCHANGED <<pagetable, sz>>
          ELSE slot_freed(p, np)
------------------------------------------------------------------------------
(* System calls *)

\* p is in user space and makes a call; it goes on at a label.
call(p, label, fr) ==
  /\ At(p, "user") /\ calls < MaxCalls
  /\ calls' = calls + 1
  /\ pc' = [pc EXCEPT ![p] = label]
  /\ f' = [f EXCEPT ![p] = fr]
  /\ UNCHANGED <<panicked, npages>>

\* growproc(n).  A size below zero is a large uint64, which uvmdealloc()
\* takes for no change.
growproc(p, n) ==
  LET new == (sz[p] + n) % Word
      fr == [NoFrame EXCEPT !.op = "sbrk", !.tbl = pagetable[p],
               !.sz = sz[p], !.perm = UserPerm]
  IN /\ n > 0 => new <= MaxSize
     /\ \/ /\ n > 0
           /\ call(p, "alloc", [fr EXCEPT !.new = new, !.a = Pg(sz[p]), !.end = Pg(new)])
        \/ /\ n < 0 /\ new < sz[p]
           /\ call(p, "unmap", [fr EXCEPT !.op = "shrink", !.new = new,
                                          !.a = Pg(new), !.end = Pg(sz[p]),
                                          !.then = "grown"])
        \/ n < 0 /\ new >= sz[p] /\ call(p, "user", NoFrame)
     /\ UNCHANGED <<freelist, mem, procs>>

\* p->sz = sz, at the end of growproc().
growproc_done(p) ==
  /\ \/ At(p, "alloc") /\ f[p].op = "sbrk" /\ f[p].a >= f[p].end
     \/ At(p, "grown")
  /\ sz' = [sz EXCEPT ![p] = f[p].new]
  /\ go(p, "user", NoFrame)
  /\ UNCHANGED <<freelist, mem, pagetable, trapframe>>

\* sbrk(0).
sbrk_zero(p) == At(p, "user") /\ UNCHANGED vars

\* fork() up to the trapframe of the new process.
fork(p) ==
  LET unused == {c \in Procs : pc[c] = "unused"}
  IN /\ At(p, "user") /\ calls < MaxCalls
     /\ calls' = calls + 1
     /\ \/ /\ unused = {} \/ freelist = <<>>
           /\ UNCHANGED <<freelist, mem, trapframe, pc, f>>
        \/ \E np \in unused :
             /\ kalloc(Junk)
             /\ trapframe' = [trapframe EXCEPT ![np] = Head(freelist)]
             /\ pc' = [pc EXCEPT ![p] = "create", ![np] = "used"]
             /\ f' = [f EXCEPT ![p] = [NoFrame EXCEPT !.op = "fork", !.np = np,
                                         !.end = Pg(sz[p])]]
     /\ UNCHANGED <<pagetable, sz, panicked, npages>>

\* The rest of fork() once uvmcopy() has copied everything.
fork_done(p) ==
  LET np == f[p].np
  IN /\ At(p, "copy") /\ f[p].a >= f[p].end
     /\ sz' = [sz EXCEPT ![np] = sz[p]]
     /\ pc' = [pc EXCEPT ![p] = "user", ![np] = "user"]
     /\ f' = [f EXCEPT ![p] = NoFrame]
     /\ mem' = [mem EXCEPT ![trapframe[np]] = mem[trapframe[p]]]
     /\ UNCHANGED <<freelist, pagetable, trapframe, panicked, npages, calls>>

exit(p) ==
  /\ p # initproc
  /\ At(p, "user")
  /\ go(p, "zombie", NoFrame)
  /\ UNCHANGED <<freelist, mem, procs>>

\* wait(0) calls freeproc() on a zombie; module Proc has the rest of it.
wait(p, c) ==
  /\ At(p, "user") /\ pc[c] = "zombie"
  /\ pc' = [pc EXCEPT ![p] = "freeproc", ![c] = "used"]
  /\ f' = [f EXCEPT ![p] = [NoFrame EXCEPT !.op = "wait", !.np = c,
                              !.tbl = pagetable[c], !.sz = sz[c]]]
  /\ UNCHANGED <<freelist, mem, procs, panicked, npages, calls>>
------------------------------------------------------------------------------
(* Copying between the kernel and a process *)

\* The pages of a..(a + n - 1) that a copy passes before one without the
\* flags it needs stops it.
Copied(tbl, a, n, need) ==
  {b \in a..(a + n - 1) : \A c \in a..b : need \subseteq Mapping(tbl, c).flags}

Writable == {"V", "U", "W"}
Readable == {"V", "U"}

copyout(tbl, a, n, v) ==
  LET to == {Mapping(tbl, b).pa : b \in Copied(tbl, a, n, Writable)}
  IN [pg \in Pages |-> IF pg \in to THEN Data(v) ELSE mem[pg]]

\* copyin() and copyinstr(), of something within a page.
copyin(tbl, a) == Copied(tbl, a, 1, Readable) # {}

ReadPages == 2   \* pages that a read() reaches

\* A read() into pages of p.
read(p, a, v) ==
  /\ call(p, "user", NoFrame)
  /\ mem' = copyout(pagetable[p], a, ReadPages, v)
  /\ UNCHANGED <<freelist, procs>>
------------------------------------------------------------------------------
(* exec *)

\* sys_exec() fetches one argument, whose address is in page u and whose
\* text is in page s; exec() opens the file and reads its header.
sys_exec(p, g, u, s) ==
  /\ At(p, "user") /\ calls < MaxCalls
  /\ calls' = calls + 1
  /\ LET tbl == pagetable[p]
         addr == u * PGSIZE < sz[p] /\ copyin(tbl, u)
     IN \/ /\ ~addr \/ freelist = <<>>
           /\ UNCHANGED <<freelist, mem, pc, f>>
        \/ /\ addr
           /\ kalloc(IF copyin(tbl, s) THEN mem[Mapping(tbl, s).pa] ELSE Junk)
           /\ \E l \in IF copyin(tbl, s) THEN {"create", "execdone"} ELSE {"execdone"} :
                pc' = [pc EXCEPT ![p] = l]
           /\ f' = [f EXCEPT ![p] = [NoFrame EXCEPT !.op = "exec", !.prog = g,
                                       !.arg = Head(freelist)]]
  /\ UNCHANGED <<procs, panicked, npages>>

\* The head of the loop over program headers, all of them ELF_PROG_LOAD.
segment(p) ==
  LET fr == f[p]
      s == fr.prog.segs[fr.seg]
      new == (s.vaddr + s.memsz) % Word
      good == s.memsz >= s.filesz /\ new >= s.vaddr /\ s.vaddr % PGSIZE = 0
  IN /\ At(p, "segment") /\ fr.seg <= Len(fr.prog.segs)
     /\ \/ go(p, "freept", fr)   \* also if the header cannot be read
        \/ good /\ new < fr.sz /\ go(p, "load", fr)
        \/ /\ good /\ new >= fr.sz
           /\ go(p, "alloc", [fr EXCEPT !.new = new, !.a = Pg(fr.sz), !.end = Pg(new),
                                        !.perm = {"R", "U"} \cup s.perm])
     /\ UNCHANGED <<freelist, mem, procs>>

\* uvmalloc() returns to exec().
uvmalloc_done(p) ==
  /\ At(p, "alloc") /\ f[p].op = "exec" /\ f[p].a >= f[p].end
  /\ IF f[p].new = 0
       THEN go(p, "freept", f[p])
       ELSE go(p, IF f[p].seg <= Len(f[p].prog.segs) THEN "load" ELSE "guard",
               [f[p] EXCEPT !.sz = f[p].new])
  /\ UNCHANGED <<freelist, mem, procs>>

\* loadseg(): readi() may stop it after k pages.
loadseg(p) ==
  LET s == f[p].prog.segs[f[p].seg]
      first == s.vaddr \div PGSIZE
      n == Pg(s.filesz)
      To(k) == {Mapping(f[p].tbl, b).pa : b \in first..(first + k - 1)}
      there == Copied(f[p].tbl, first, n, Readable) = first..(first + n - 1)
  IN /\ At(p, "load")
     /\ \/ ~there /\ panic
        \/ \E k \in 0..n :
             /\ there
             /\ mem' = [pg \in Pages |->
                          IF pg \in To(k) THEN Data(f[p].prog.val) ELSE mem[pg]]
             /\ IF k = n THEN go(p, "segment", [f[p] EXCEPT !.seg = @ + 1])
                         ELSE go(p, "freept", f[p])
             /\ UNCHANGED <<freelist, procs>>

\* Room for the guard page and the stack.
stack(p) ==
  LET top == Pg(f[p].sz)
  IN /\ At(p, "segment") /\ f[p].seg > Len(f[p].prog.segs)
     /\ go(p, "alloc", [f[p] EXCEPT !.sz = top * PGSIZE,
                                    !.new = (top + USERSTACK + 1) * PGSIZE,
                                    !.a = top, !.end = top + USERSTACK + 1,
                                    !.perm = UserPerm])
     /\ UNCHANGED <<freelist, mem, procs>>

uvmclear(p) ==
  LET a == Pg(f[p].sz) - (USERSTACK + 1)
      e == Mapping(f[p].tbl, a)
  IN /\ At(p, "guard")
     /\ \/ ~Valid(e) /\ panic
        \/ /\ Valid(e)
           /\ mem' = setpte(mem, f[p].tbl, a, [e EXCEPT !.flags = @ \ {"U"}])
           /\ go(p, "args", f[p])
           /\ UNCHANGED <<freelist, procs>>

\* The argument takes n bytes of the stack; then exec() commits to the new
\* image and frees the old one.
exec_commit(p, n) ==
  LET fr == f[p]
      sp == fr.sz - n
      a == sp \div PGSIZE
      top == Pg(fr.sz)
  IN /\ At(p, "args")
     /\ IF n > USERSTACK * PGSIZE \/ top - 1 \notin Copied(fr.tbl, a, top - a, Writable)
          THEN go(p, "freept", fr) /\ UNCHANGED <<mem, pagetable, sz>>
          ELSE /\ mem' = copyout(fr.tbl, a, top - a, mem[fr.arg].data)
               /\ pagetable' = [pagetable EXCEPT ![p] = fr.tbl]
               /\ sz' = [sz EXCEPT ![p] = fr.sz]
               /\ go(p, "freept", [fr EXCEPT !.tbl = pagetable[p], !.sz = sz[p]])
     /\ UNCHANGED <<freelist, trapframe>>

\* sys_exec() frees the argument.
exec_done(p) ==
  /\ At(p, "execdone")
  /\ kfree(mem, f[p].arg)
  /\ go(p, "user", NoFrame)
  /\ UNCHANGED procs
------------------------------------------------------------------------------
Next == \E p \in Procs :
  \/ uvmalloc(p) \/ uvmcopy(p) \/ map_table(p) \/ map_fails(p) \/ map_page(p)
  \/ uvmcreate(p) \/ uvmunmap(p) \/ uvmunmap_done(p) \/ proc_freepagetable(p)
  \/ freewalk(p) \/ freeproc(p)
  \/ \E n \in SbrkArgs : growproc(p, n)
  \/ growproc_done(p) \/ sbrk_zero(p)
  \/ fork(p) \/ fork_done(p) \/ exit(p) \/ \E c \in Procs : wait(p, c)
  \/ \E a \in AddrPages, v \in Values : read(p, a, v)
  \/ \E g \in Programs, u \in AddrPages, s \in AddrPages : sys_exec(p, g, u, s)
  \/ segment(p) \/ uvmalloc_done(p) \/ loadseg(p) \/ stack(p) \/ uvmclear(p)
  \/ \E n \in ArgSizes : exec_commit(p, n)
  \/ exec_done(p)

Spec == Init /\ [][Next]_vars
------------------------------------------------------------------------------
(* Properties *)

Roots == ({pagetable[p] : p \in Procs} \cup {f[p].tbl : p \in Procs}) \ {0}

\* The places that hold a page, each with its page: the free list, the
\* processes, and the entries of page tables but for the two pages at the top.
Places ==
  LET Entries(t) == {x \in {t} \X (0..(FAN - 1)) : Valid(mem[t].table[x[2]])}
      Tables(T) == UNION {Entries(t) : t \in T}
      Pa(x) == mem[x[1]].table[x[2]].pa
      T2 == Tables(Roots)
      T1 == Tables({Pa(x) : x \in T2})
      T0 == Tables({Pa(x) : x \in T1})
      Trap == {<<walk(r, a).t, PX(0, a)>> : r \in Roots, a \in {TRAMPOLINE, TRAPFRAME}}
      Held(what, g) == {<<what, p, g[p]>> : p \in {q \in Procs : g[q] # 0}}
  IN {<<"free", i, freelist[i]>> : i \in DOMAIN freelist}
     \cup Held("trapframe", trapframe)
     \cup Held("page", [p \in Procs |-> f[p].pg])
     \cup Held("argument", [p \in Procs |-> f[p].arg])
     \cup {<<"root", r, r>> : r \in Roots}
     \cup {<<"entry", x, Pa(x)>> : x \in T2 \cup T1 \cup (T0 \ Trap)}

TypeOK ==
  /\ freelist \in Seq(Pages)
  /\ npages \in MemorySizes
  /\ pagetable \in [Procs -> {0} \cup Pages]
  /\ trapframe \in [Procs -> {0} \cup Pages]
  /\ sz \in [Procs -> Nat]
  /\ panicked \in BOOLEAN
  /\ calls \in 0..MaxCalls

\* Every page of memory is held in exactly one place, whatever step of a
\* call ran out of memory: none is lost, freed twice, or part of two
\* address spaces.
PagesAccounted ==
  /\ TypeOK
  /\ {x[3] : x \in Places} = 1..npages
  /\ Cardinality(Places) = npages

\* No panic of mappages, uvmunmap, freewalk, uvmcopy or loadseg is reached.
NoPanic == ~panicked

\* What a program sees of its memory.  A process that shrinks, exits or is
\* being made or freed has the memory it will have in the end.
Image(p) ==
  LET size == IF f[p].op = "shrink" THEN f[p].new ELSE sz[p]
      e(a) == Mapping(pagetable[p], a)
  IN IF pc[p] \in {"unused", "used", "zombie"} THEN NoImage
     ELSE [size |-> size,
           pages |-> [k \in 1..Pg(size) |->
             IF Valid(e(k - 1))
               THEN [val |-> mem[e(k - 1).pa], perm |-> e(k - 1).flags \ {"V"}]
               ELSE [val |-> Junk, perm |-> {}]]]

Images == [p \in Procs |-> Image(p)]

Space == INSTANCE AddressSpace WITH
  image <- Images,
  Values <- {Data(v) : v \in Values},
  Zero <- Data(Zero),
  Programs <- {[g EXCEPT !.val = Data(@)] : g \in Programs}

\* The memory of a process changes only as its own calls and stores say,
\* and all at once: a call that runs out of memory leaves it as it was.
AddressSpaces == Space!Spec
==============================================================================
