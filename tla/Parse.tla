-------------------------------- MODULE Parse --------------------------------
(* The shell's parser, user/sh.c.  A line is a sequence of characters, a     *)
(* pointer into it an index; the index after the last character holds NUL.   *)
(* A command is a tuple <<type, parts>>.  While parsing, a string is the     *)
(* pair <<q, eq>> of the indices of its first character and of the one after *)
(* its last.  at = 0 stands for a panic, which ends the process.             *)
EXTENDS Integers, Sequences, SequencesExt

CONSTANT MAXARGS

NUL == "NUL"
whitespace == {" ", "\n"}
symbols == {"<", "|", ">", "&", ";", "(", ")"}

Char(b, i) == IF i <= Len(b) THEN b[i] ELSE NUL
es(b) == Len(b) + 1

\* The first index from i on, at most es, whose character is not in S.
Skip(b, i, S) ==
  CHOOSE j \in i..es(b) :
    /\ j = es(b) \/ b[j] \notin S
    /\ \A k \in i..j - 1 : b[k] \in S

WordEnd(b, i) ==
  CHOOSE j \in i..es(b) :
    /\ j = es(b) \/ b[j] \in whitespace \cup symbols
    /\ \A k \in i..j - 1 : b[k] \notin whitespace \cup symbols

gettoken(b, i) ==
  LET q == Skip(b, i, whitespace)
      c == Char(b, q)
      append == c = ">" /\ Char(b, q + 1) = ">"
      eq == CASE c = NUL -> q
              [] append -> q + 2
              [] c \in symbols /\ ~append -> q + 1
              [] OTHER -> WordEnd(b, q)
  IN  [tok |-> CASE append -> "+" [] c \in symbols \cup {NUL} /\ ~append -> c [] OTHER -> "a",
       str |-> <<q, eq>>,
       at |-> Skip(b, eq, whitespace)]

peek(b, i, toks) == Char(b, Skip(b, i, whitespace)) \in toks
After(b, i) == gettoken(b, i).at

Panic == [cmd |-> <<"panic">>, at |-> 0]

\* The redirections at i, each around the ones before.
RECURSIVE parseredirs(_, _, _)
redircmd(cmd, b, tok, file) ==
  IF file.tok # "a" THEN Panic
  ELSE parseredirs(<<"redir", cmd, file.str, CASE tok = "<" -> "r" [] tok = ">" -> "t" [] tok = "+" -> "w">>, b, file.at)

Redir(cmd, b, t) == redircmd(cmd, b, t.tok, gettoken(b, t.at))

parseredirs(cmd, b, i) ==
  IF peek(b, i, {"<", ">"}) THEN Redir(cmd, b, gettoken(b, i)) ELSE [cmd |-> cmd, at |-> i]

\* argv belongs to the execcmd inside the redirections parsed so far.
RECURSIVE AddArg(_, _)
AddArg(cmd, str) ==
  IF cmd[1] = "redir" THEN [cmd EXCEPT ![2] = AddArg(@, str)]
  ELSE <<"exec", Append(cmd[2], str)>>

\* The loop over the words, of which t is the next.
RECURSIVE Args(_, _, _, _)
NextArg(argc, b, r) ==
  IF argc >= MAXARGS \/ r.at = 0 THEN Panic ELSE Args(r.cmd, argc, b, r.at)

Word(cmd, argc, b, i, t) ==
  CASE t.tok = NUL -> [cmd |-> cmd, at |-> i]
    [] t.tok = "a" -> NextArg(argc + 1, b, parseredirs(AddArg(cmd, t.str), b, t.at))
    [] OTHER -> Panic

Args(cmd, argc, b, i) ==
  IF peek(b, i, {"|", ")", "&", ";"}) THEN [cmd |-> cmd, at |-> i]
  ELSE Word(cmd, argc, b, i, gettoken(b, i))

Words(b, r) == IF r.at = 0 THEN Panic ELSE Args(r.cmd, 0, b, r.at)

RECURSIVE parseline(_, _)

\* Mutant: no redirections after a block.
BlockEnd_NoRedirs(b, r) ==
  IF r.at = 0 \/ ~peek(b, r.at, {")"}) THEN Panic ELSE [cmd |-> r.cmd, at |-> After(b, r.at)]

BlockEnd(b, r) ==
  IF r.at = 0 \/ ~peek(b, r.at, {")"}) THEN Panic ELSE parseredirs(r.cmd, b, After(b, r.at))

parseblock(b, i) == BlockEnd(b, parseline(b, After(b, i)))

parseexec(b, i) ==
  IF peek(b, i, {"("}) THEN parseblock(b, i) ELSE Words(b, parseredirs(<<"exec", <<>>>>, b, i))

Joined(type, l, r) == IF r.at = 0 THEN Panic ELSE [cmd |-> <<type, l.cmd, r.cmd>>, at |-> r.at]

RECURSIVE parsepipe(_, _)
PipeTo(b, l) ==
  IF l.at = 0 \/ ~peek(b, l.at, {"|"}) THEN l ELSE Joined("pipe", l, parsepipe(b, After(b, l.at)))

parsepipe(b, i) == PipeTo(b, parseexec(b, i))

RECURSIVE Backs(_, _)
Backs(b, r) ==
  IF r.at = 0 \/ ~peek(b, r.at, {"&"}) THEN r
  ELSE Backs(b, [cmd |-> <<"back", r.cmd>>, at |-> After(b, r.at)])

ListOf(b, l) ==
  IF l.at = 0 \/ ~peek(b, l.at, {";"}) THEN l ELSE Joined("list", l, parseline(b, After(b, l.at)))

parseline(b, i) == ListOf(b, Backs(b, parsepipe(b, i)))

\* Where nulterminate writes NUL.
RECURSIVE nulterminate(_)
nulterminate(cmd) ==
  CASE cmd[1] = "exec" -> {cmd[2][k][2] : k \in DOMAIN cmd[2]}
    [] cmd[1] = "redir" -> nulterminate(cmd[2]) \cup {cmd[3][2]}
    [] cmd[1] \in {"pipe", "list"} -> nulterminate(cmd[2]) \cup nulterminate(cmd[3])
    [] cmd[1] = "back" -> nulterminate(cmd[2])

\* The command as runcmd sees it: every string runs to the first NUL.
RECURSIVE Strings(_, _)
Strings(b, cmd) ==
  LET Str(s) == SubSeq(b, s[1], Skip(b, s[1], {b[k] : k \in DOMAIN b} \ {NUL}) - 1)
  IN  CASE cmd[1] = "exec" -> <<"exec", [k \in DOMAIN cmd[2] |-> Str(cmd[2][k])]>>
        [] cmd[1] = "redir" -> <<"redir", Strings(b, cmd[2]), Str(cmd[3]), cmd[4]>>
        [] cmd[1] \in {"pipe", "list"} -> <<cmd[1], Strings(b, cmd[2]), Strings(b, cmd[3])>>
        [] cmd[1] = "back" -> <<"back", Strings(b, cmd[2])>>

CutOff(b, cmd, ends) == Strings([k \in DOMAIN b |-> IF k \in ends THEN NUL ELSE b[k]], cmd)

Whole(b, r) ==
  IF r.at = 0 \/ Skip(b, r.at, whitespace) # es(b) THEN Panic.cmd ELSE CutOff(b, r.cmd, nulterminate(r.cmd))

parsecmd(b) == Whole(b, parseline(b, 1))
------------------------------------------------------------------------------
(* The language of the shell, by the productions                             *)
(*   line  ::=  pipe &* | pipe &* ; line                                     *)
(*   pipe  ::=  exec | exec "|" pipe                                         *)
(*   exec  ::=  redir* (word redir* )* | "(" line ")" redir*                 *)
(* as the set of commands a sequence of tokens can be derived as.            *)
RECURSIVE Tokens(_)
Tokens(s) ==
  IF s = <<>> THEN <<>>
  ELSE IF Head(s) \in whitespace THEN Tokens(Tail(s))
  ELSE IF IsPrefix(<<">", ">">>, s) THEN << <<">", ">">> >> \o Tokens(SubSeq(s, 3, Len(s)))
  ELSE LET n == IF Head(s) \in symbols THEN 1 ELSE WordEnd(s, 1) - 1
       IN  <<SubSeq(s, 1, n)>> \o Tokens(SubSeq(s, n + 1, Len(s)))

IsWord(t) == \A k \in DOMAIN t : t[k] \notin symbols
Modes == [r |-> <<"<">>, t |-> <<">">>, w |-> <<">", ">">>]

RECURSIVE Redirected(_, _)
Redirected(cmd, t) ==
  IF t = <<>> THEN {cmd}
  ELSE UNION {Redirected(<<"redir", cmd, t[2], m>>, SubSeq(t, 3, Len(t))) :
              m \in {m \in DOMAIN Modes : Len(t) >= 2 /\ t[1] = Modes[m] /\ IsWord(t[2])}}

\* The words of a simple command, and its redirections, in any order.
IsFile(t, k) == k > 1 /\ \E m \in DOMAIN Modes : t[k - 1] = Modes[m]
Simple(t) ==
  LET words == SelectSeq([k \in DOMAIN t |-> k], LAMBDA k : IsWord(t[k]) /\ ~IsFile(t, k))
      others == SelectSeq([k \in DOMAIN t |-> k], LAMBDA k : ~(IsWord(t[k]) /\ ~IsFile(t, k)))
  IN  IF Len(words) >= MAXARGS THEN {}
      ELSE Redirected(<<"exec", [k \in DOMAIN words |-> t[words[k]]]>>,
                      [k \in DOMAIN others |-> t[others[k]]])

From(t, k) == SubSeq(t, k, Len(t))
At(t, c) == {k \in DOMAIN t : t[k] = <<c>>}

RECURSIVE Background(_, _)
Background(cmd, n) == IF n = 0 THEN cmd ELSE <<"back", Background(cmd, n - 1)>>

RECURSIVE Lines(_)
Execs(t) ==
  Simple(t) \cup
  IF t # <<>> /\ t[1] = <<"(">>
  THEN UNION {UNION {Redirected(c, From(t, k + 1)) : c \in Lines(SubSeq(t, 2, k - 1))} : k \in At(t, ")")}
  ELSE {}

RECURSIVE PipesOf(_)
PipesOf(t) ==
  Execs(t) \cup
  UNION {{<<"pipe", l, r>> : l \in Execs(SubSeq(t, 1, k - 1)), r \in PipesOf(From(t, k + 1))} : k \in At(t, "|")}

Backgrounds(t) ==
  UNION {{Background(c, Len(t) - n) : c \in PipesOf(SubSeq(t, 1, n))} :
         n \in {n \in 0..Len(t) : \A k \in n + 1..Len(t) : t[k] = <<"&">>}}

Lines(t) ==
  Backgrounds(t) \cup
  UNION {{<<"list", l, r>> : l \in Backgrounds(SubSeq(t, 1, k - 1)), r \in Lines(From(t, k + 1))} : k \in At(t, ";")}
==============================================================================
