-------------------------------- MODULE Texts --------------------------------
(* Algorithms on strings, each against what it must compute, on every short *)
(* string: the shell's parser (Parse), the matcher of grep (Match), the path *)
(* elements of kernel/fs.c, memmove of kernel/string.c and user/ulib.c.      *)
EXTENDS Parse, Match

CONSTANTS
  DIRSIZ,             \* characters in a name
  MaxLine,            \* characters in a line typed at the shell
  MaxPattern,         \* characters in a pattern of grep
  MaxText,            \* characters in the text it is matched with
  MaxPath,            \* characters in a path
  MaxMem              \* characters in memory

\* The path after its first element, and the element; <<>> if there is none.
skipelem(path) ==
  LET s == Skip(path, 1, {"/"})
      e == CHOOSE j \in s..es(path) : (j = es(path) \/ path[j] = "/") /\ \A k \in s..j - 1 : path[k] # "/"
      name == SubSeq(path, s, IF e - s >= DIRSIZ THEN s + DIRSIZ - 1 ELSE e - 1)
  IN  IF s = es(path) THEN <<>>
      ELSE <<[name |-> name, path |-> SubSeq(path, Skip(path, e, {"/"}), Len(path))]>>

\* The names namex looks up, one after the other.
RECURSIVE Elements(_)
Elements(path) ==
  LET r == skipelem(path) IN IF r = <<>> THEN <<>> ELSE <<r[1].name>> \o Elements(r[1].path)

Copy(m, d, s, ks) == FoldLeft(LAMBDA mem, k : [mem EXCEPT ![d + k] = mem[s + k]], m, ks)
Upward(n) == [k \in 1..n |-> k - 1]

\* memmove(d, s, n) in memory m, in the user's library and in the kernel.
umemmove(m, d, s, n) == Copy(m, d, s, IF s > d THEN Upward(n) ELSE Reverse(Upward(n)))
\* Mutant: no copy from the top downward.
kmemmove_Upward(m, d, s, n) == Copy(m, d, s, Upward(n))
kmemmove(m, d, s, n) == Copy(m, d, s, IF s < d /\ s + n > d THEN Reverse(Upward(n)) ELSE Upward(n))
------------------------------------------------------------------------------
ParserAgrees ==
  \A s \in BoundedSeq(symbols \cup {"a", " "}, MaxLine) :
    LET p == parsecmd(s) IN Lines(Tokens(s)) = IF p = Panic.cmd THEN {} ELSE {p}

RunsOf(path) ==
  LET starts == SelectSeq([k \in DOMAIN path |-> k], LAMBDA k : path[k] # "/" /\ (k = 1 \/ path[k - 1] = "/"))
      End(k) == CHOOSE j \in k..Len(path) : (\A i \in k..j : path[i] # "/") /\ (j = Len(path) \/ path[j + 1] = "/")
      Cut(k) == IF End(k) - k + 1 > DIRSIZ THEN k + DIRSIZ - 1 ELSE End(k)
  IN  [i \in DOMAIN starts |-> SubSeq(path, starts[i], Cut(starts[i]))]

MatcherAgrees ==
  \A re \in BoundedSeq({"a", ".", "*", "^", "$"}, MaxPattern), s \in BoundedSeq({"a", "b"}, MaxText) :
    match(re, s) = Matches(re, s)

PathsAgree == \A path \in BoundedSeq({"/", "a", "b"}, MaxPath) : Elements(path) = RunsOf(path)

MovesAgree ==
  LET m == [k \in 1..MaxMem |-> k]
  IN  \A d, s \in 1..MaxMem : \A n \in 0..MaxMem - (IF d > s THEN d ELSE s) + 1 :
        LET moved == [k \in 1..MaxMem |-> IF k \in d..d + n - 1 THEN m[s + k - d] ELSE m[k]]
        IN  umemmove(m, d, s, n) = moved /\ kmemmove(m, d, s, n) = moved
==============================================================================
