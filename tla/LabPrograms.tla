----------------------------- MODULE LabPrograms -----------------------------
(* The concurrent programs of the lab: the prime sieve of user/primes.c and  *)
(* the exchange of user/pingpong.c.  An int is one character of a pipe:      *)
(* PIPESIZE is a multiple of its size, so no int is ever read in parts.      *)
EXTENDS Syscalls

CONSTANT MAX          \* the last number main sends

Ignored == <<>>
GiveUp == <<wait(Ignored), exit(1)>>

PrimesVars == [left0 |-> -1, left1 |-> -1, right0 |-> -1, right1 |-> -1, num |-> <<>>, stdout |-> 1, pid |-> 0, wpid |-> 0, status |-> 0]

is_prime(n) == IF n < 3 THEN n = 2 ELSE \A i \in 2..n - 1 : n % i # 0

\* Mutant: main does not wait.
Finish_NoWait == <<close("right1", Ignored), at("primes_status", 0)>>

\* The end of main, reached by the first process and by every worker.
Finish == <<close("right1", Ignored), wait(Ignored), at("primes_status", 0)>>

primes_main ==
  LET child == <<set("left0", "right0"), set("left1", "right1"),
                 close("left1", Ignored), at("worker", FALSE)>>
      sends == [i \in 1..MAX - 2 |-> write("right1", <<i + 2>>, Ignored)]
  IN  <<write("stdout", <<2>>, Ignored), openpipe("right0", "right1", Ignored),
        fork(child, Ignored), close("right0", Ignored)>> \o sends \o Finish

\* The worker that has read its first prime: a new one to its right.
NewWorker(num) ==
  LET child == <<close("left0", Ignored), set("left0", "right0"), set("left1", "right1"),
                 close("left1", Ignored), at("worker", FALSE)>>
  IN  <<write("stdout", num, Ignored), openpipe("right0", "right1", GiveUp),
        fork(child, Ignored), close("right0", GiveUp), at("worker", TRUE)>>

worker(printed, v) ==
  IF v.left0 < 0 THEN <<exit(1)>>
  ELSE <<read("left0", "num", 1, <<exit(1)>>), at("worker_read", printed)>>

worker_read(printed, v) ==
  CASE v.num = <<>> -> Finish
    [] v.num # <<>> /\ ~printed /\ is_prime(v.num[1]) -> NewWorker(v.num)
    [] v.num # <<>> /\ ~printed /\ ~is_prime(v.num[1]) -> <<at("worker", FALSE)>>
    [] v.num # <<>> /\ printed -> <<write("right1", v.num, Ignored), at("worker", TRUE)>>

primes_status(v) == <<exit(IF v.status # 0 THEN 1 ELSE 0)>>
------------------------------------------------------------------------------
\* fd, and child_status, are not initialised: any value may be there.
PingPongVars(garbage) ==
  [fd0 |-> garbage, fd1 |-> garbage, buf |-> <<>>, stdout |-> 1, pid |-> 0, wpid |-> 0, status |-> garbage]

Byte == <<"0">>
Fail(closes) == [k \in DOMAIN closes |-> close(closes[k], Ignored)] \o <<exit(1)>>

\* Mutant: the parent reads without waiting for the child.
pingpong_main_NoWait ==
  <<openpipe("fd0", "fd1", Ignored),
    fork(<<read("fd0", "buf", 1, Fail(<<"fd0", "fd1">>)), at("ping", 0)>>, Ignored),
    write("fd1", Byte, Fail(<<"fd1", "fd0">>)), close("fd1", <<exit(1)>>),
    at("child_status", 0)>>

pingpong_main ==
  <<openpipe("fd0", "fd1", Ignored),
    fork(<<read("fd0", "buf", 1, Fail(<<"fd0", "fd1">>)), at("ping", 0)>>, Ignored),
    write("fd1", Byte, Fail(<<"fd1", "fd0">>)),
    close("fd1", <<exit(1)>>),
    wait(Ignored),
    at("child_status", 0)>>

ping(v) ==
  IF Len(v.buf) # 1 THEN Fail(<<"fd0", "fd1">>)
  ELSE <<close("fd0", <<exit(1)>>), write("stdout", <<"ping">>, Ignored),
         write("fd1", Byte, Fail(<<"fd1">>)), close("fd1", <<exit(1)>>), exit(0)>>

child_status(v) ==
  IF v.status # 0 THEN Fail(<<"fd0">>)
  ELSE <<read("fd0", "buf", 1, Fail(<<"fd0">>)), at("pong", 0)>>

pong(v) ==
  IF Len(v.buf) # 1 THEN Fail(<<"fd0">>)
  ELSE <<close("fd0", Ignored), write("stdout", <<"pong">>, Ignored), exit(0)>>
==============================================================================
