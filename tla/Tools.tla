-------------------------------- MODULE Tools --------------------------------
(* The programs the shell runs: echo, cat, wc, grep, xargs, zombie and       *)
(* forktest of user/.  A tool that copies or counts files keeps, between two *)
(* reads, a record: the descriptor it reads, the files still to open, and    *)
(* what the C program keeps in local variables.  Messages about errors are   *)
(* left out.                                                                 *)
EXTENDS Syscalls, Match, TLC

CONSTANTS
  BufSize,            \* the buffer of xargs, larger than what a read returns here
  ForkMax             \* N of forktest, more than there are processes

Quiet == <<>>

RECURSIVE echo(_)
echo(args) ==
  IF args = <<>> THEN <<exit(0)>>
  ELSE <<write("stdout", Head(args), Quiet),
         write("stdout", IF Len(args) > 1 THEN <<" ">> ELSE <<"\n">>, Quiet)>> \o echo(Tail(args))

\* The loop over argv of cat, wc and grep: tool is called with each file.
NextFile(tool, a) ==
  IF a.files = <<>> THEN <<exit(0)>>
  ELSE <<open("fd", "f", "r", <<exit(1)>>), at(tool, [a EXCEPT !.v = "fd", !.files = Tail(@)])>>

Start(tool, a) == IF a.files = <<>> THEN <<at(tool, a)>> ELSE NextFile(tool, a)

Done(tool, a) ==
  IF a.v = "stdin" THEN <<exit(0)>> ELSE <<close("fd", Quiet)>> \o NextFile(tool, a)

cat_main(files) == Start("cat", [v |-> "stdin", files |-> files])
cat(a) == <<read(a.v, "buf", 512, <<exit(1)>>), at("cat_read", a)>>
cat_read(v, a) ==
  IF v.buf = <<>> THEN Done("cat", a)
  ELSE <<write("stdout", v.buf, <<exit(1)>>), at("cat", a)>>

NoCount == [l |-> 0, w |-> 0, c |-> 0, inword |-> FALSE]
wc_main(files) == Start("wc", [v |-> "stdin", files |-> files, n |-> NoCount])
wc(a) == <<read(a.v, "buf", 512, <<exit(1)>>), at("wc_read", a)>>

Count(ch, n) ==
  LET space == ch \in {" ", "\n"}
  IN  [l |-> IF ch = "\n" THEN n.l + 1 ELSE n.l,
       w |-> IF ~space /\ ~n.inword THEN n.w + 1 ELSE n.w,
       c |-> n.c + 1,
       inword |-> ~space]

Counts(n) == <<ToString(n.l), " ", ToString(n.w), " ", ToString(n.c), "\n">>

wc_read(v, a) ==
  IF v.buf = <<>> THEN <<write("stdout", Counts(a.n), Quiet)>> \o Done("wc", [a EXCEPT !.n = NoCount])
  ELSE <<at("wc", [a EXCEPT !.n = FoldLeft(LAMBDA n, ch : Count(ch, n), @, v.buf)])>>

\* held is the line that has begun at the end of the buffer.
grep_main(args) ==
  IF args = <<>> THEN <<exit(1)>>
  ELSE Start("grep", [v |-> "stdin", files |-> Tail(args), pattern |-> Head(args), held |-> <<>>])

grep(a) == <<read(a.v, "buf", 1023 - Len(a.held), Quiet), at("grep_read", a)>>

Newlines(s) == SelectSeq([k \in DOMAIN s |-> k], LAMBDA k : s[k] = "\n")
WholeLines(s) ==
  LET ends == <<0>> \o Newlines(s)
  IN  [k \in 1..Len(ends) - 1 |-> SubSeq(s, ends[k] + 1, ends[k + 1])]

grep_read(v, a) ==
  LET s == a.held \o v.buf
      found == SelectSeq(WholeLines(s), LAMBDA line : match(a.pattern, Front(line)))
  IN  IF v.buf = <<>> THEN Done("grep", [a EXCEPT !.held = <<>>])
      ELSE [k \in DOMAIN found |-> write("stdout", found[k], Quiet)]
           \o <<at("grep", [a EXCEPT !.held = SubSeq(s, Last(<<0>> \o Newlines(s)) + 1, Len(s))])>>
------------------------------------------------------------------------------
(* xargs.  a.b is the whole buffer, of which a read fills only the front,    *)
(* a.prev what is left of the last read's text, a.args the arguments found.  *)
is_delimiter(c) == c \in {" ", "\n", "NUL"}

RECURSIVE Scan(_, _, _)
Scan(n, i, a) ==
  LET e == CHOOSE j \in i..n + 1 : (j = n + 1 \/ is_delimiter(a.b[j])) /\ \A k \in i..j - 1 : ~is_delimiter(a.b[k])
      arg == SubSeq(a.b, i, e - 1)
      ended == is_delimiter(a.b[e])
      long == IF a.prev = <<>> THEN Len(arg) >= 128 ELSE Len(arg) + Len(a.prev) < 128
  IN  IF i > n THEN a
      ELSE IF ended /\ long THEN [a EXCEPT !.error = 1]
      ELSE IF ended THEN Scan(n, e + 1, [a EXCEPT !.args = Append(@, a.prev \o arg), !.prev = <<>>])
      ELSE Scan(n, e + 1, [a EXCEPT !.prev = arg])

xargs_main(args) ==
  IF args = <<>> THEN <<exit(1)>>
  ELSE <<at("xargs", [cmd |-> args, b |-> [k \in 1..BufSize |-> "NUL"], prev |-> <<>>, error |-> 0, args |-> <<>>, children |-> 0])>>

xargs(a) == <<read("stdin", "buf", BufSize, <<at("xargs", a)>>), at("xargs_read", a)>>

\* A child whose exec fails goes on as its parent does.
RECURSIVE Spawn(_, _, _)
Spawn(cmd, args, rest) ==
  IF args = <<>> THEN rest
  ELSE LET more == Spawn(cmd, Tail(args), rest)
       IN  <<fork(<<exec(Append(cmd, Head(args)), Quiet)>> \o more, Quiet)>> \o more

xargs_read(v, a) ==
  LET n == Len(v.buf)
      s == Scan(n, 1, [a EXCEPT !.b = v.buf \o SubSeq(@, n + 1, BufSize), !.args = <<>>])
  IN  IF n = 0 \/ a.error # 0 THEN [k \in 1..a.children |-> wait(Quiet)] \o <<exit(a.error)>>
      ELSE Spawn(a.cmd, s.args, <<at("xargs", [s EXCEPT !.args = <<>>, !.children = @ + Len(s.args)])>>)
------------------------------------------------------------------------------
\* The parent sleeps, so that the child may end before it.
zombie == <<fork(<<exit(0)>>, Quiet), exit(0)>>

forktest == <<write("stdout", <<"fork test\n">>, Quiet), at("forks", 0)>>

forks(n) ==
  IF n = ForkMax THEN <<write("stdout", <<"fork claimed to work N times!\n">>, Quiet), exit(1)>>
  ELSE <<fork(<<exit(0)>>, <<at("waits", n)>>), at("forks", n + 1)>>

waits(n) ==
  IF n > 0 THEN <<wait(<<write("stdout", <<"wait stopped early\n">>, Quiet), exit(1)>>), at("waits", n - 1)>>
  ELSE <<wait(<<write("stdout", <<"fork test OK\n">>, Quiet), exit(0)>>),
         write("stdout", <<"wait got too many\n">>, Quiet), exit(1)>>
==============================================================================
