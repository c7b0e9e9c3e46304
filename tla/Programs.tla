------------------------------ MODULE Programs -------------------------------
(* User programs on the kernel of Syscalls: each behaviour runs one job, the *)
(* sieve, the exchange of a byte, or a shell under init at whose console     *)
(* some lines are typed, and the job says what the console must show.        *)
EXTENDS LabPrograms, Shell, Texts

CONSTANT Jobs         \* [prog, lines]: the program and, for "sh", what is typed

VARIABLE job

ProgramCode(label, a, v) ==
  CASE label = "worker" -> worker(a, v)
    [] label = "worker_read" -> worker_read(a, v)
    [] label = "primes_status" -> primes_status(v)
    [] label = "ping" -> ping(v)
    [] label = "child_status" -> child_status(v)
    [] label = "pong" -> pong(v)
    [] label = "start_sh" -> start_sh
    [] label = "init_wait" -> init_wait
    [] label = "init_waited" -> init_waited(v)
    [] label = "sh_opened" -> sh_opened(v)
    [] label = "getcmd" -> getcmd
    [] label = "sh_line" -> sh_line(v)
    [] label = "runcmd" -> runcmd(a)
    [] label = "cat" -> cat(a)
    [] label = "cat_read" -> cat_read(v, a)
    [] label = "wc" -> wc(a)
    [] label = "wc_read" -> wc_read(v, a)
    [] label = "grep" -> grep(a)
    [] label = "grep_read" -> grep_read(v, a)
    [] label = "xargs" -> xargs(a)
    [] label = "xargs_read" -> xargs_read(v, a)
    [] label = "forks" -> forks(a)
    [] label = "waits" -> waits(a)
    [] label = "exec" -> image(a)
------------------------------------------------------------------------------
(* What a program and a line do, as a function from standard input and file  *)
(* to standard output, the input left over and file.                         *)
WordsIn(s) == Tokens(s)
LinesIn(s) == [k \in DOMAIN Newlines(s) |-> SubSeq(s, (<<0>> \o Newlines(s))[k] + 1, Newlines(s)[k])]

Run(argv, in, file) ==
  LET files == CASE argv[1] = <<"g">> -> Len(argv) - 2 [] OTHER -> Len(argv) - 1
      text == IF files = 0 THEN in ELSE file
      left == IF files = 0 THEN <<>> ELSE in
  IN  CASE argv[1] = <<"e">> -> [out |-> Tail(FlattenSeq([k \in 1..Len(argv) - 1 |-> <<" ">> \o argv[k + 1]])) \o <<"\n">>, in |-> in]
        [] argv[1] = <<"c">> -> [out |-> text, in |-> left]
        [] argv[1] = <<"w">> ->
           [out |-> <<ToString(Len(Newlines(text))), " ", ToString(Len(WordsIn(text))), " ", ToString(Len(text)), "\n">>, in |-> left]
        [] argv[1] = <<"g">> ->
           [out |-> FlattenSeq(SelectSeq(LinesIn(text), LAMBDA l : Matches(argv[2], Front(l)))), in |-> left]
        [] argv[1] = <<"x">> ->
           [out |-> FlattenSeq([k \in DOMAIN WordsIn(in) |-> WordsIn(in)[k] \o <<"\n">>]), in |-> <<>>]
        [] argv[1] = <<"k">> -> [out |-> <<"fork test\n", "fork test OK\n">>, in |-> in]
        [] OTHER -> [out |-> <<>>, in |-> in]

RECURSIVE Sem(_, _)
Sem(cmd, s) ==
  CASE cmd[1] = "panic" -> [s EXCEPT !.out = <<>>]
    [] cmd[1] = "exec" ->
       LET r == Run(cmd[2], s.in, s.file) IN [s EXCEPT !.out = r.out, !.in = r.in]
    [] cmd[1] = "redir" /\ cmd[4] = "r" -> [Sem(cmd[2], [s EXCEPT !.in = s.file]) EXCEPT !.in = s.in]
    [] cmd[1] = "redir" /\ cmd[4] # "r" ->
       LET r == Sem(cmd[2], s)
           old == IF cmd[4] = "t" THEN <<>> ELSE SubSeq(s.file, Len(r.out) + 1, Len(s.file))
       IN  [r EXCEPT !.out = <<>>, !.file = r.out \o old]
    [] cmd[1] = "list" ->
       LET l == Sem(cmd[2], s)
           r == Sem(cmd[3], l)
       IN  [r EXCEPT !.out = l.out \o r.out]
    [] cmd[1] = "pipe" ->
       LET l == Sem(cmd[2], s) IN Sem(cmd[3], [l EXCEPT !.in = l.out])
    [] cmd[1] = "back" -> [s EXCEPT !.out = <<>>]

\* The line a command is typed as.
RECURSIVE Text(_)
Text(cmd) ==
  CASE cmd[1] = "eof" -> <<>>
    [] cmd[1] = "panic" -> <<"(">>
    [] cmd[1] = "exec" -> FoldSeq(LAMBDA w, t : w \o <<" ">> \o t, <<>>, cmd[2])
    [] cmd[1] = "redir" -> <<"(">> \o Text(cmd[2]) \o <<")">> \o Modes[cmd[4]] \o <<"f">>
    [] cmd[1] = "pipe" -> <<"(">> \o Text(cmd[2]) \o <<")", "|">> \o Text(cmd[3])
    [] cmd[1] = "list" -> Text(cmd[2]) \o <<";">> \o Text(cmd[3])
    [] cmd[1] = "back" -> Text(cmd[2]) \o <<"&">>

RECURSIVE Session(_, _)
Session(lines, file) ==
  IF lines = <<>> THEN <<"$">>
  ELSE IF Head(lines)[1] = "eof" THEN <<"$">> \o Session(Tail(lines), file)
  ELSE LET r == Sem(Head(lines), [in |-> <<>>, out |-> <<>>, file |-> file])
       IN  <<"$">> \o r.out \o Session(Tail(lines), r.file)

TypedLines == UNION {{Text(j.lines[k]) : k \in DOMAIN j.lines} : j \in Jobs}

\* Output of background commands, which may come at any later time.
Behind(j) ==
  IF \E k \in DOMAIN j.lines : j.lines[k][1] = "list" /\ j.lines[k][2][1] = "back" THEN {"b", "\n"} ELSE {}
Foreground(s, j) == SelectSeq(s, LAMBDA c : c \notin Behind(j))

Expected == [j \in Jobs |->
  CASE j.prog = "primes" -> SelectSeq([k \in 1..MAX |-> k], is_prime)
    [] j.prog = "pingpong" -> <<"ping", "pong">>
    [] j.prog = "sh" -> Foreground(Session(j.lines, <<>>), j)]
------------------------------------------------------------------------------
InitVars(garbage) ==
  CASE job.prog = "primes" -> PrimesVars
    [] job.prog = "pingpong" -> PingPongVars(garbage)
    [] job.prog = "sh" -> Fresh

Root == IF job.prog = "sh" THEN 1 ELSE 2

\* The sieve and the exchange are run by a process that waits for them.
Init ==
  /\ job \in Jobs
  /\ code = [p \in Pids |->
       CASE p = 1 /\ job.prog = "sh" -> init_main
         [] p = 1 /\ job.prog # "sh" -> <<wait(Ignored), wait(Ignored), exit(0)>>
         [] p = 2 /\ job.prog = "primes" -> primes_main
         [] p = 2 /\ job.prog = "pingpong" -> pingpong_main
         [] OTHER -> <<>>]
  /\ \E garbage \in {-1, 0} : var = [p \in Pids |-> InitVars(garbage)]
  /\ fd = [p \in Pids |->
       IF p <= Root /\ job.prog # "sh" THEN [n \in 0..NOFILE - 1 |-> IF n <= 2 THEN Console ELSE None]
       ELSE Closed]
  /\ parent = [p \in Pids |-> 1]
  /\ pipe = [k \in Pipes |-> <<>>]
  /\ off = [j \in 1..NFILE |-> 0]
  /\ disk = <<>>
  /\ input = [k \in DOMAIN job.lines |-> Text(job.lines[k])]
  /\ out = <<>>
  /\ fails = 0

RunJob == Next /\ UNCHANGED job

Spec == Init /\ [][RunJob]_<<vars, job>> /\ Fairness

\* The console shows what the job must show, in its order and nothing else:
\* every prime once, a ping before the pong, and a line's output before the
\* next prompt.  A call that finds no resource may only cut the sieve short.
OutputInOrder ==
  fails = 0 \/ job.prog = "primes" => IsPrefix(Foreground(out, job), Expected[job])

\* Nothing a program started is left when it is over: the sieve ends after all
\* its workers, even if a call found no resource, and at the prompt there is
\* no process but init, the shell and what runs in the background.
NothingLeft ==
  /\ job.prog = "primes" /\ ~Running(2) => \A p \in Pids \ {1, 2} : code[p] = <<>>
  /\ job.prog = "sh" /\ fails = 0 /\ Behind(job) = {} =>
       \A s \in Pids : Does(s, "read") /\ argfd(s, Arg(s, 2)) = Console => {p \in Pids : Running(p)} = {1, s}

Over ==
  /\ \E s \in Pids \ {1} :
       /\ \A p \in Pids \ {1, s} : code[p] = <<>>
       /\ IF job.prog = "sh" THEN input = <<>> /\ Does(s, "read") /\ Does(1, "wait")
          ELSE code[s] = <<>> /\ Zombie(1)
  /\ fails = 0 => Foreground(out, job) = Expected[job] /\ Behind(job) \subseteq ToSet(out)

\* Nobody waits for ever for the end of a pipe or for a child: the program
\* ends, or the shell comes back to its prompt, with all output and without
\* leaving a process, also if a call finds no resource.
Completes == <>[](Over \/ (job.prog = "pingpong" /\ fails > 0))

\* The shell takes exactly the lines of its language, and finds the command
\* they stand for, its strings still whole after nulterminate has cut them off.
ParserRight == job.prog = "sh" => ParserAgrees

\* Under a shell: the matcher of grep finds what its expressions mean; a path
\* is taken apart into its elements, cut to DIRSIZ; memmove copies also between
\* two parts of memory that overlap.
StringsRight == job.prog = "sh" => MatcherAgrees /\ PathsAgree /\ MovesAgree
==============================================================================
