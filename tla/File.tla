-------------------------------- MODULE File ---------------------------------
(***************************************************************************)
(* The file table of kernel/file.c and the descriptors of processes, under *)
(* open, pipe, dup, close, fork and exit (sysfile.c, pipe.c, proc.c).      *)
(*                                                                         *)
(* A critical section of ftable.lock is one step.  Steps that touch only   *)
(* the process's own descriptors, or a file that nobody else can reach     *)
(* yet, are joined to the critical section next to them.                   *)
(***************************************************************************)
EXTENDS Integers, Sequences, FiniteSets

CONSTANTS
  Procs,
  initproc, \* the process that never exits
  Pipes,    \* pages that kalloc() has for pipes
  NFILE,    \* entries of the file table
  NOFILE,   \* descriptors of a process
  None

ASSUME ConstantsAssumption ==
  /\ initproc \in Procs
  /\ NFILE \in Nat /\ NOFILE \in Nat
  /\ None \notin Pipes /\ None \notin Int

Files == 1..NFILE
Fds == 1..NOFILE

VARIABLES
  ref, type, pipe,   \* struct file; type is FD_NONE, FD_INODE, or an end of a pipe
  ofile,    \* p->ofile
  alive,    \* processes
  pc,       \* where each process is
  rf,       \* the first file of pipealloc()
  todo,     \* files it is going to pass to fileclose()
  ff,       \* the copy fileclose() makes
  ends,     \* ends of a pipe that are open: readopen, writeopen
  irefs     \* references to inodes held through files

ftable == <<ref, type, pipe>>
vars == <<ftable, ofile, alive, pc, rf, todo, ff, ends, irefs>>

NoFile == [type |-> "none", pipe |-> None]

\* The first process has no files open; the others do not exist yet.
Init ==
  /\ ref = [f \in Files |-> 0]
  /\ type = [f \in Files |-> "none"]
  /\ pipe = [f \in Files |-> None]
  /\ ofile = [p \in Procs |-> [fd \in Fds |-> None]]
  /\ alive = {initproc}
  /\ pc = [p \in Procs |-> "user"]
  /\ rf = [p \in Procs |-> None]
  /\ todo = [p \in Procs |-> <<>>]
  /\ ff = [p \in Procs |-> NoFile]
  /\ ends = [o \in Pipes |-> {}]
  /\ irefs = 0

Lowest(S) == CHOOSE x \in S : \A y \in S : x <= y
FreeFiles == {f \in Files : ref[f] = 0}
FreeFds(p) == {fd \in Fds : ofile[p][fd] = None}
Returned(p) == todo[p] = <<>> /\ ff[p] = NoFile   \* from fileclose()
User(p) == p \in alive /\ pc[p] = "user" /\ Returned(p)

goto(p, l) == pc' = [pc EXCEPT ![p] = l]

\* Call fileclose() on each of the files.
closeAll(p, fs) == todo' = [todo EXCEPT ![p] = fs]
------------------------------------------------------------------------------
\* The end of sys_open(), with a reference to an inode: filealloc(), fdalloc().
sys_open(p) ==
  LET f == Lowest(FreeFiles)
  IN  /\ User(p)
      /\ FreeFiles # {}
      /\ ref' = [ref EXCEPT ![f] = 1]
      /\ IF FreeFds(p) = {}
           THEN closeAll(p, <<f>>) /\ UNCHANGED <<type, ofile, irefs>>
           ELSE /\ type' = [type EXCEPT ![f] = "inode"]
                /\ ofile' = [ofile EXCEPT ![p][Lowest(FreeFds(p))] = f]
                /\ irefs' = irefs + 1
                /\ UNCHANGED todo
      /\ UNCHANGED <<pipe, alive, pc, rf, ff, ends>>

\* pipealloc(): the first filealloc(),
pipealloc(p) ==
  /\ User(p)
  /\ FreeFiles # {}
  /\ rf' = [rf EXCEPT ![p] = Lowest(FreeFiles)]
  /\ ref' = [ref EXCEPT ![Lowest(FreeFiles)] = 1]
  /\ goto(p, "pipe")
  /\ UNCHANGED <<type, pipe, ofile, alive, todo, ff, ends, irefs>>

\* the second one or kalloc() fails,
pipealloc_bad(p) ==
  /\ pc[p] = "pipe"
  /\ IF FreeFiles = {}
       THEN closeAll(p, <<rf[p]>>) /\ UNCHANGED ref
       ELSE /\ ref' = [ref EXCEPT ![Lowest(FreeFiles)] = 1]
            /\ closeAll(p, <<rf[p], Lowest(FreeFiles)>>)
  /\ rf' = [rf EXCEPT ![p] = None]
  /\ goto(p, "user")
  /\ UNCHANGED <<type, pipe, ofile, alive, ff, ends, irefs>>

\* Mutant: only the first file is closed when there is no second descriptor.
sys_pipe_bad_HalfClosed(p, r, w) == closeAll(p, <<r>>)

\* The error paths of sys_pipe() close both files.
sys_pipe_bad(p, r, w) == closeAll(p, <<r, w>>)

\* or both succeed; then fdalloc() or copyout() may fail in sys_pipe().
sys_pipe(p, o) ==
  LET r == rf[p]
      w == Lowest(FreeFiles)
      fd0 == Lowest(FreeFds(p))
      fd1 == Lowest(FreeFds(p) \ {fd0})
  IN  /\ pc[p] = "pipe"
      /\ FreeFiles # {}
      /\ ends[o] = {}
      /\ ends' = [ends EXCEPT ![o] = {"read", "write"}]
      /\ ref' = [ref EXCEPT ![w] = 1]
      /\ type' = [type EXCEPT ![r] = "read", ![w] = "write"]
      /\ pipe' = [pipe EXCEPT ![r] = o, ![w] = o]
      /\ \/ /\ Cardinality(FreeFds(p)) >= 2
            /\ ofile' = [ofile EXCEPT ![p][fd0] = r, ![p][fd1] = w]
            /\ UNCHANGED todo
         \/ sys_pipe_bad(p, r, w) /\ UNCHANGED ofile
      /\ rf' = [rf EXCEPT ![p] = None]
      /\ goto(p, "user")
      /\ UNCHANGED <<alive, ff, irefs>>

\* sys_dup(): fdalloc() and filedup().
sys_dup(p, fd) ==
  LET f == ofile[p][fd]
  IN  /\ User(p)
      /\ f # None
      /\ FreeFds(p) # {}
      /\ ofile' = [ofile EXCEPT ![p][Lowest(FreeFds(p))] = f]
      /\ ref' = [ref EXCEPT ![f] = @ + 1]
      /\ UNCHANGED <<type, pipe, alive, pc, rf, todo, ff, ends, irefs>>

sys_close(p, fd) ==
  /\ User(p)
  /\ ofile[p][fd] # None
  /\ ofile' = [ofile EXCEPT ![p][fd] = None]
  /\ closeAll(p, <<ofile[p][fd]>>)
  /\ UNCHANGED <<ftable, alive, pc, rf, ff, ends, irefs>>

\* How often fork() calls filedup(f).
dups(p, f) == Cardinality({fd \in Fds : ofile[p][fd] = f})

fork(p, np) ==
  /\ User(p)
  /\ np \notin alive
  /\ alive' = alive \cup {np}
  /\ ofile' = [ofile EXCEPT ![np] = ofile[p]]
  /\ ref' = [f \in Files |-> ref[f] + dups(p, f)]
  /\ UNCHANGED <<type, pipe, pc, rf, todo, ff, ends, irefs>>

\* exit(), from the system call or because the process was killed.
exit(p) ==
  /\ User(p)
  /\ p # initproc
  /\ goto(p, "exit")
  /\ UNCHANGED <<ftable, ofile, alive, rf, todo, ff, ends, irefs>>

\* One turn of its loop over the descriptors.
exit_close(p) ==
  LET used == Fds \ FreeFds(p)
  IN  /\ pc[p] = "exit"
      /\ Returned(p)
      /\ IF used # {}
           THEN /\ closeAll(p, <<ofile[p][Lowest(used)]>>)
                /\ ofile' = [ofile EXCEPT ![p][Lowest(used)] = None]
                /\ UNCHANGED <<alive, pc>>
           ELSE /\ alive' = alive \ {p}
                /\ goto(p, "user")
                /\ UNCHANGED <<todo, ofile>>
      /\ UNCHANGED <<ftable, rf, ff, ends, irefs>>
------------------------------------------------------------------------------
(* fileclose *)

\* Mutant: the type of a closed file is left, and comes back with the next file.
forget_KeepsType(f) == UNCHANGED <<type, pipe>>

\* f->type = FD_NONE.  The rest of *f is dead.
forget(f) ==
  /\ type' = [type EXCEPT ![f] = "none"]
  /\ pipe' = [pipe EXCEPT ![f] = None]

\* Its critical section.
fileclose(p) ==
  LET f == Head(todo[p])
  IN  /\ todo[p] # <<>>
      /\ ff[p] = NoFile
      /\ IF ref[f] < 1
           THEN goto(p, "panic") /\ UNCHANGED <<ftable, todo, ff>>
           ELSE /\ ref' = [ref EXCEPT ![f] = @ - 1]
                /\ todo' = [todo EXCEPT ![p] = Tail(@)]
                /\ IF ref[f] > 1
                     THEN UNCHANGED <<type, pipe, ff>>
                     ELSE /\ ff' = [ff EXCEPT ![p] = [type |-> type[f],
                                                      pipe |-> pipe[f]]]
                          /\ forget(f)
                /\ UNCHANGED pc
      /\ UNCHANGED <<ofile, alive, rf, ends, irefs>>

\* pipeclose(), or iput() in a transaction.
fileclose_object(p) ==
  /\ ff[p] # NoFile
  /\ ff' = [ff EXCEPT ![p] = NoFile]
  /\ IF ff[p].type = "inode"
       THEN irefs' = irefs - 1 /\ UNCHANGED ends
       ELSE ends' = [ends EXCEPT ![ff[p].pipe] = @ \ {ff[p].type}] /\ UNCHANGED irefs
  /\ UNCHANGED <<ftable, ofile, alive, pc, rf, todo>>
------------------------------------------------------------------------------
Kernel(p) ==
  \/ pipealloc_bad(p) \/ \E o \in Pipes : sys_pipe(p, o)
  \/ exit_close(p) \/ fileclose(p) \/ fileclose_object(p)

Next == \E p \in Procs :
  \/ Kernel(p)
  \/ sys_open(p) \/ pipealloc(p) \/ exit(p)
  \/ \E fd \in Fds : sys_dup(p, fd) \/ sys_close(p, fd)
  \/ \E np \in Procs : fork(p, np)

Spec == Init /\ [][Next]_vars

\* A process inside the kernel goes on.
Fairness == \A p \in Procs : WF_vars(Kernel(p))
------------------------------------------------------------------------------
TypeOK ==
  /\ ref \in [Files -> Nat]
  /\ type \in [Files -> {"none", "inode", "read", "write"}]
  /\ pipe \in [Files -> Pipes \cup {None}]
  /\ ofile \in [Procs -> [Fds -> Files \cup {None}]]
  /\ alive \subseteq Procs
  /\ pc \in [Procs -> {"user", "pipe", "exit", "panic"}]
  /\ rf \in [Procs -> Files \cup {None}]
  /\ todo \in [Procs -> Seq(Files)]
  /\ ends \in [Pipes -> SUBSET {"read", "write"}]
  /\ irefs \in Nat

\* Files, and copies of files in fileclose(), that stand for end t of pipe o
\* or for an inode.
Holders(t, o) ==
  Cardinality({f \in Files : ref[f] > 0 /\ type[f] = t /\ pipe[f] = o})
  + Cardinality({p \in Procs : ff[p] = [type |-> t, pipe |-> o]})

\* f->ref counts the descriptors, of all processes, and the kernel's own pointers to
\* the file, also on the error paths of open() and pipe(); no panic() is reached.
\* Each end of a pipe, and each reference to an inode, belongs to one open file: it
\* is closed once, with the last descriptor, and never by the error path of a call
\* that got a used entry of the table again.
RefExact ==
  /\ TypeOK
  /\ \A p \in Procs : pc[p] # "panic"
  /\ \A f \in Files :
       ref[f] = Cardinality({<<p, fd>> \in Procs \X Fds : ofile[p][fd] = f})
                + Cardinality({p \in Procs : rf[p] = f})
                + Cardinality({p \in Procs : \E k \in DOMAIN todo[p] : todo[p][k] = f})
  /\ \A o \in Pipes, t \in {"read", "write"} :
       Holders(t, o) = IF t \in ends[o] THEN 1 ELSE 0
  /\ irefs = Holders("inode", None)

\* When the last descriptor of an end is gone, the end gets closed: what a reader
\* that waits for end-of-file, or a writer to a pipe nobody reads, relies on.
EndIsClosed ==
  \A o \in Pipes, t \in {"read", "write"} :
    (t \in ends[o] /\ \A p \in Procs, fd \in Fds :
       ofile[p][fd] # None => ~(type[ofile[p][fd]] = t /\ pipe[ofile[p][fd]] = o))
      ~> t \notin ends[o]
==============================================================================
