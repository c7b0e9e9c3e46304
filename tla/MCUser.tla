------------------------------- MODULE MCUser --------------------------------
(* Jobs for TLC. *)
EXTENDS Programs

Exec(argv) == <<"exec", [k \in DOMAIN argv |-> <<argv[k]>>]>>
E(w) == Exec(<<"e", w>>)
C == Exec(<<"c">>)
CF == Exec(<<"c", "f">>)
Missing == Exec(<<"q">>)
EOF == <<"eof">>
Bad == <<"panic">>
Pipe(l, r) == <<"pipe", l, r>>
List(l, r) == <<"list", l, r>>
Back(c) == <<"back", c>>
To(c) == <<"redir", c, <<"f">>, "t">>
Onto(c) == <<"redir", c, <<"f">>, "w">>
Of(c) == <<"redir", c, <<"f">>, "r">>

Sh(lines) == [prog |-> "sh", lines |-> lines]

MCJobs ==
  {[prog |-> "primes", lines |-> <<>>], [prog |-> "pingpong", lines |-> <<>>],
   Sh(<<Pipe(E("x"), C), E("y")>>),
   Sh(<<Pipe(List(E("x"), E("y")), C)>>),
   Sh(<<Pipe(E("x"), Pipe(C, C))>>),
   Sh(<<Pipe(List(E("x"), E("y")), E("z"))>>),
   Sh(<<Pipe(List(E("x"), E("y")), Exec(<<"g", "y">>))>>),
   Sh(<<Pipe(Exec(<<"e", "x", "y">>), Exec(<<"w">>)), Exec(<<"k">>)>>),
   Sh(<<To(E("x")), Of(Exec(<<"x", "e">>)), Exec(<<"g", "x", "f">>)>>),
   Sh(<<List(Back(E("b")), E("x")), EOF, Exec(<<"z">>)>>),
   Sh(<<To(List(E("x"), E("y"))), Onto(E("z")), Of(List(C, CF)), Missing, Bad, CF>>)}
==============================================================================
