-------------------------------- MODULE Shell --------------------------------
(* init and the shell: user/init.c, the main loop and runcmd of user/sh.c.   *)
(* What they print to tell of errors is left out.  There is one file, and    *)
(* the names of programs are one character long.                             *)
EXTENDS Tools, Parse

CONSTANT Typed        \* the lines that may be typed at the console

Parsed == [line \in Typed |-> parsecmd(line)]

panic == <<exit(1)>>
Nothing == <<>>

init_main ==
  <<open("fd", "console", "rw", Nothing), dup("stdin", Nothing), dup("stdin", Nothing), at("start_sh", 0)>>

start_sh == <<fork(<<exec(<<(<<"s">>)>>, <<exit(1)>>), exit(1)>>, panic), at("init_wait", 0)>>

\* wait returns the shell, a process without parent, or an error.
init_wait == <<wait(panic), at("init_waited", 0)>>
init_waited(v) == IF v.wpid = v.pid THEN start_sh ELSE init_wait

sh_main == <<open("fd", "console", "rw", <<at("getcmd", 0)>>), at("sh_opened", 0)>>
sh_opened(v) == IF v.fd >= 3 THEN <<close("fd", Nothing), at("getcmd", 0)>> ELSE sh_main

getcmd == <<write("stderr", <<"$">>, Nothing), read("stdin", "buf", 100, Nothing), at("sh_line", 0)>>

IsCd(line) == IsPrefix(<<"c", "d", " ">>, line)

sh_line(v) ==
  CASE v.buf = <<>> -> <<exit(0)>>
    [] v.buf # <<>> /\ IsCd(v.buf) -> getcmd
    [] v.buf # <<>> /\ ~IsCd(v.buf) ->
       <<fork(<<at("runcmd", Parsed[v.buf])>>, panic), wait(Nothing), at("getcmd", 0)>>

RunLeft(cmd) ==
  <<close("stdout", Nothing), dup("p1", Nothing), close("p0", Nothing), close("p1", Nothing), at("runcmd", cmd)>>

\* Mutant: the reader keeps the end for writing.
RunRight_KeepsPipe(cmd) ==
  <<close("stdin", Nothing), dup("p0", Nothing), close("p0", Nothing), at("runcmd", cmd)>>

RunRight(cmd) ==
  <<close("stdin", Nothing), dup("p0", Nothing), close("p0", Nothing), close("p1", Nothing), at("runcmd", cmd)>>

runpipe(left, right) ==
  <<openpipe("p0", "p1", panic), fork(RunLeft(left), panic), fork(RunRight(right), panic),
    close("p0", Nothing), close("p1", Nothing), wait(Nothing), wait(Nothing), exit(0)>>

runlist(left, right) == <<fork(<<at("runcmd", left)>>, panic), wait(Nothing), at("runcmd", right)>>

runback(cmd) == <<fork(<<at("runcmd", cmd)>>, panic), exit(0)>>

runredir(cmd, file, mode) ==
  <<close(IF mode = "r" THEN "stdin" ELSE "stdout", Nothing),
    open("fd", file, mode, <<exit(1)>>), at("runcmd", cmd)>>

runexec(argv) == IF argv = <<>> THEN <<exit(1)>> ELSE <<exec(argv, <<exit(0)>>)>>

runcmd(cmd) ==
  CASE cmd[1] = "panic" -> panic
    [] cmd[1] = "exec" -> runexec(cmd[2])
    [] cmd[1] = "redir" -> runredir(cmd[2], "f", cmd[4])
    [] cmd[1] = "list" -> runlist(cmd[2], cmd[3])
    [] cmd[1] = "pipe" -> runpipe(cmd[2], cmd[3])
    [] cmd[1] = "back" -> runback(cmd[2])

\* The images exec finds, <<>> if there is none.
image(argv) ==
  CASE argv[1] = <<"s">> -> sh_main
    [] argv[1] = <<"e">> -> echo(Tail(argv))
    [] argv[1] = <<"c">> -> cat_main(Tail(argv))
    [] argv[1] = <<"w">> -> wc_main(Tail(argv))
    [] argv[1] = <<"g">> -> grep_main(Tail(argv))
    [] argv[1] = <<"x">> -> xargs_main(Tail(argv))
    [] argv[1] = <<"z">> -> zombie
    [] argv[1] = <<"k">> -> forktest
    [] OTHER -> <<>>
==============================================================================
