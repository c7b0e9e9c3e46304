------------------------------ MODULE Syscalls -------------------------------
(* The kernel as user programs see it.  A process is the sequence of the     *)
(* system calls it has still to make; a program is an operator that yields   *)
(* such a sequence, and goes on with Program(label, argument, variables)     *)
(* where what it does next depends on what a call returned.  Every call      *)
(* carries, last, the calls to make first if it returns -1.  Descriptors are *)
(* numbers kept in program variables; pipes are bounded; the file table, the *)
(* locks and the sleeping inside a call are those of File, Pipe and Proc.    *)
EXTENDS Integers, Sequences, FiniteSets, SequencesExt

CONSTANTS
  Pids,               \* processes, 1 is init or the only ancestor
  Pipes,              \* pipes there is memory for
  NOFILE,             \* descriptors per process
  NFILE,              \* open files that are not pipes
  PIPESIZE,           \* characters in a pipe
  MaxFails,           \* calls that find no memory, no slot or no file entry
  Program(_, _, _)    \* the code of all programs

VARIABLES
  code,       \* the calls each process has still to make, <<>> for no process
  var,        \* the variables of each process
  fd,         \* p->ofile of each process
  parent,     \* p->parent
  pipe,       \* characters in each pipe
  off,        \* f->off of each open file
  disk,       \* <<>> or <<contents>> of the one file
  input,      \* lines typed at the console and not yet read; <<>> is an end of file
  out,        \* characters on the console
  fails       \* how many calls found no resource

vars == <<code, var, fd, parent, pipe, off, disk, input, out, fails>>

None == <<"none", 0>>
Console == <<"console", 0>>

close(v, e) == <<"close", v, e>>
dup(v, e) == <<"dup", v, e>>
open(v, file, mode, e) == <<"open", v, file, mode, e>>
openpipe(r, w, e) == <<"pipe", r, w, e>>
fork(child, e) == <<"fork", child, e>>
wait(e) == <<"wait", e>>
exit(status) == <<"exit", status>>
exec(argv, e) == <<"exec", argv, e>>
read(v, buf, n, e) == <<"read", v, buf, n, e>>
write(v, data, e) == <<"write", v, data, e>>
set(v, w) == <<"set", v, w>>
at(label, a) == <<"at", label, a>>

Does(p, call) == code[p] # <<>> /\ Head(code[p])[1] = call
Arg(p, i) == Head(code[p])[i]
Zombie(p) == Does(p, "zombie")
Running(p) == code[p] # <<>> /\ ~Zombie(p)

Rest(p) == [code EXCEPT ![p] = Tail(@)]
Minus1(p) == [code EXCEPT ![p] = Last(Head(@)) \o Tail(@)]

argfd(p, v) == IF var[p][v] \in 0..NOFILE - 1 THEN fd[p][var[p][v]] ELSE None

Free(p) == {n \in 0..NOFILE - 1 : fd[p][n] = None}
fdalloc(S) == CHOOSE n \in S : \A m \in S : n <= m
IsOpen(f) == \E p \in Pids : \E n \in 0..NOFILE - 1 : fd[p][n] = f
Closed == [n \in 0..NOFILE - 1 |-> None]

\* A call that finds no memory, no process slot or no file entry; those of
\* init, which start a shell on an idle machine, find theirs.
NoResource(p) ==
  /\ p # 1
  /\ fails < MaxFails
  /\ fails' = fails + 1
  /\ code' = Minus1(p)
  /\ UNCHANGED <<var, fd, parent, pipe, off, disk, input, out>>

sys_close(p) ==
  /\ Does(p, "close")
  /\ IF argfd(p, Arg(p, 2)) = None
     THEN code' = Minus1(p) /\ UNCHANGED fd
     ELSE code' = Rest(p) /\ fd' = [fd EXCEPT ![p][var[p][Arg(p, 2)]] = None]
  /\ UNCHANGED <<var, parent, pipe, off, disk, input, out, fails>>

sys_dup(p) ==
  /\ Does(p, "dup")
  /\ IF argfd(p, Arg(p, 2)) = None \/ Free(p) = {}
     THEN code' = Minus1(p) /\ UNCHANGED fd
     ELSE /\ code' = Rest(p)
          /\ fd' = [fd EXCEPT ![p][fdalloc(Free(p))] = argfd(p, Arg(p, 2))]
  /\ UNCHANGED <<var, parent, pipe, off, disk, input, out, fails>>

\* "r" opens for reading, "w" for writing from the start, "t" truncates too.
sys_open(p) ==
  /\ Does(p, "open")
  /\ IF Free(p) = {} \/ (Arg(p, 3) # "console" /\ Arg(p, 4) = "r" /\ disk = <<>>)
     THEN code' = Minus1(p) /\ UNCHANGED <<var, fd, off, disk>>
     ELSE \E n \in {fdalloc(Free(p))} :
          /\ code' = Rest(p)
          /\ var' = [var EXCEPT ![p][Arg(p, 2)] = n]
          /\ IF Arg(p, 3) = "console"
             THEN fd' = [fd EXCEPT ![p][n] = Console] /\ UNCHANGED <<off, disk>>
             ELSE \E j \in {j \in 1..NFILE : ~IsOpen(<<"file", j>>)} :
                  /\ \A i \in 1..j - 1 : IsOpen(<<"file", i>>)
                  /\ fd' = [fd EXCEPT ![p][n] = <<"file", j>>]
                  /\ off' = [off EXCEPT ![j] = 0]
                  /\ disk' = IF Arg(p, 4) = "t" \/ disk = <<>> THEN <<(<<>>)>> ELSE disk
  /\ UNCHANGED <<parent, pipe, input, out, fails>>

sys_pipe(p) ==
  /\ Does(p, "pipe")
  /\ LET r == fdalloc(Free(p))
         w == fdalloc(Free(p) \ {r})
         new == {k \in Pipes : ~IsOpen(<<"r", k>>) /\ ~IsOpen(<<"w", k>>)}
     IN  IF new = {} \/ Cardinality(Free(p)) < 2
         THEN code' = Minus1(p) /\ UNCHANGED <<var, fd, pipe>>
         ELSE \E k \in {CHOOSE k \in new : TRUE} :
              /\ code' = Rest(p)
              /\ var' = [var EXCEPT ![p][Arg(p, 2)] = r, ![p][Arg(p, 3)] = w]
              /\ fd' = [fd EXCEPT ![p][r] = <<"r", k>>, ![p][w] = <<"w", k>>]
              /\ pipe' = [pipe EXCEPT ![k] = <<>>]
  /\ UNCHANGED <<parent, off, disk, input, out, fails>>

sys_fork(p) ==
  /\ Does(p, "fork")
  /\ LET slots == {c \in Pids : code[c] = <<>>}
         c == CHOOSE c \in slots : \A d \in slots : c <= d
     IN  IF slots = {}
         THEN code' = Minus1(p) /\ UNCHANGED <<var, fd, parent>>
         ELSE /\ code' = [Rest(p) EXCEPT ![c] = Arg(p, 2)]
              /\ var' = [var EXCEPT ![c] = var[p], ![p]["pid"] = c]
              /\ fd' = [fd EXCEPT ![c] = fd[p]]
              /\ parent' = [parent EXCEPT ![c] = p]
  /\ UNCHANGED <<pipe, off, disk, input, out, fails>>

\* exit closes every descriptor and gives the children to init.
sys_exit(p) ==
  /\ Does(p, "exit")
  /\ code' = [code EXCEPT ![p] = << <<"zombie", Arg(p, 2)>> >>]
  /\ fd' = [fd EXCEPT ![p] = Closed]
  /\ parent' = [c \in Pids |-> IF code[c] # <<>> /\ parent[c] = p THEN 1 ELSE parent[c]]
  /\ UNCHANGED <<var, pipe, off, disk, input, out, fails>>

Children(p) == {c \in Pids \ {p} : code[c] # <<>> /\ parent[c] = p}

sys_wait(p) ==
  /\ Does(p, "wait")
  /\ \/ /\ Children(p) = {}
        /\ code' = Minus1(p)
        /\ var' = [var EXCEPT ![p]["wpid"] = -1]
     \/ \E c \in {c \in Children(p) : Zombie(c)} :
        /\ code' = [Rest(p) EXCEPT ![c] = <<>>]
        /\ var' = [var EXCEPT ![p]["wpid"] = c, ![p]["status"] = Arg(c, 2)]
  /\ UNCHANGED <<fd, parent, pipe, off, disk, input, out, fails>>

\* The variables a program starts with; descriptors 0, 1 and 2 have names.
Fresh == [stdin |-> 0, stdout |-> 1, stderr |-> 2, p0 |-> -1, p1 |-> -1,
          fd |-> -1, pid |-> 0, wpid |-> 0, status |-> 0, buf |-> <<>>]

sys_exec(p) ==
  /\ Does(p, "exec")
  /\ LET image == Program("exec", Arg(p, 2), Fresh)
     IN  IF image = <<>>
         THEN code' = Minus1(p) /\ UNCHANGED var
         ELSE code' = [code EXCEPT ![p] = image] /\ var' = [var EXCEPT ![p] = Fresh]
  /\ UNCHANGED <<fd, parent, pipe, off, disk, input, out, fails>>

Shorter(n, m) == IF n < m THEN n ELSE m

\* piperead returns what there is, nothing if nobody can write any more; a
\* read of the console returns a line.
sys_read(p) ==
  /\ Does(p, "read")
  /\ LET f == argfd(p, Arg(p, 2))
         b == Arg(p, 3)
         n == Arg(p, 4)
         Takes(s) == /\ code' = Rest(p)
                     /\ var' = [var EXCEPT ![p][b] = SubSeq(s, 1, Shorter(n, Len(s)))]
         Drops(s) == SubSeq(s, n + 1, Len(s))
     IN  \/ /\ f[1] \in {"none", "w"}
            /\ code' = Minus1(p)
            /\ UNCHANGED <<var, pipe, off, input>>
         \/ /\ f[1] = "r"
            /\ pipe[f[2]] # <<>> \/ ~IsOpen(<<"w", f[2]>>)
            /\ Takes(pipe[f[2]])
            /\ pipe' = [pipe EXCEPT ![f[2]] = Drops(@)]
            /\ UNCHANGED <<off, input>>
         \/ /\ f[1] = "file"
            /\ LET s == SubSeq(Head(disk), off[f[2]] + 1, Len(Head(disk)))
               IN  Takes(s) /\ off' = [off EXCEPT ![f[2]] = @ + Shorter(n, Len(s))]
            /\ UNCHANGED <<pipe, input>>
         \/ /\ f = Console
            /\ input # <<>>
            /\ code' = Rest(p)
            /\ var' = [var EXCEPT ![p][b] = Head(input)]
            /\ input' = Tail(input)
            /\ UNCHANGED <<pipe, off>>
  /\ UNCHANGED <<fd, parent, disk, out, fails>>

\* pipewrite fills the pipe and sleeps for room, until all is written or
\* nobody can read any more.
sys_write(p) ==
  /\ Does(p, "write")
  /\ LET f == argfd(p, Arg(p, 2))
         s == Arg(p, 3)
         room == Shorter(PIPESIZE - Len(pipe[f[2]]), Len(s))
     IN  \/ /\ f[1] \in {"none", "r"} \/ (f[1] = "w" /\ ~IsOpen(<<"r", f[2]>>))
            /\ code' = Minus1(p)
            /\ UNCHANGED <<pipe, off, disk, out>>
         \/ /\ f[1] = "w"
            /\ IsOpen(<<"r", f[2]>>)
            /\ room > 0
            /\ pipe' = [pipe EXCEPT ![f[2]] = @ \o SubSeq(s, 1, room)]
            /\ code' = IF room = Len(s) THEN Rest(p)
                       ELSE [code EXCEPT ![p] = <<write(Arg(p, 2), SubSeq(s, room + 1, Len(s)), Last(Head(@)))>> \o Tail(@)]
            /\ UNCHANGED <<off, disk, out>>
         \/ /\ f[1] = "file"
            /\ LET c == Head(disk)
                   o == off[f[2]]
               IN  disk' = <<SubSeq(c, 1, o) \o s \o SubSeq(c, o + Len(s) + 1, Len(c))>>
            /\ off' = [off EXCEPT ![f[2]] = @ + Len(s)]
            /\ code' = Rest(p)
            /\ UNCHANGED <<pipe, out>>
         \/ /\ f = Console
            /\ out' = out \o s
            /\ code' = Rest(p)
            /\ UNCHANGED <<pipe, off, disk>>
  /\ UNCHANGED <<var, fd, parent, input, fails>>

\* What a program does between two calls.
Local(p) ==
  /\ \/ /\ Does(p, "at")
        /\ code' = [code EXCEPT ![p] = Program(Arg(p, 2), Arg(p, 3), var[p])]
        /\ UNCHANGED var
     \/ /\ Does(p, "set")
        /\ code' = Rest(p)
        /\ var' = [var EXCEPT ![p][Arg(p, 2)] = var[p][Arg(p, 3)]]
  /\ UNCHANGED <<fd, parent, pipe, off, disk, input, out, fails>>

Step(p) ==
  \/ sys_close(p) \/ sys_dup(p) \/ sys_open(p) \/ sys_pipe(p) \/ sys_fork(p)
  \/ sys_exit(p) \/ sys_wait(p) \/ sys_exec(p) \/ sys_read(p) \/ sys_write(p)
  \/ Local(p)

Next ==
  \E p \in Pids :
    \/ Step(p)
    \/ /\ \/ Does(p, "pipe")
          \/ Does(p, "fork")
          \/ Does(p, "open")
       /\ NoResource(p)

\* The scheduler runs every process that can run, and a call that sleeps is
\* woken when it can go on: Proc and Pipe.
Fairness == \A p \in Pids : WF_vars(Step(p))
==============================================================================
