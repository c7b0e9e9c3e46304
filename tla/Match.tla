-------------------------------- MODULE Match --------------------------------
(* The regular expressions of user/grep.c.  Strings are sequences of         *)
(* characters; the end of a sequence is the NUL of the C string.             *)
EXTENDS Integers, Sequences

RECURSIVE matchhere(_, _)
RECURSIVE matchstar(_, _, _)

Fits(c, text) == text # <<>> /\ (c = "." \/ c = Head(text))

matchhere(re, text) ==
  IF re = <<>> THEN TRUE
  ELSE IF Len(re) > 1 /\ re[2] = "*" THEN matchstar(re[1], SubSeq(re, 3, Len(re)), text)
  ELSE IF re = <<"$">> THEN text = <<>>
  ELSE Fits(Head(re), text) /\ matchhere(Tail(re), Tail(text))

matchstar(c, re, text) ==
  matchhere(re, text) \/ (Fits(c, text) /\ matchstar(c, re, Tail(text)))

match(re, text) ==
  IF re # <<>> /\ re[1] = "^" THEN matchhere(Tail(re), text)
  ELSE \E k \in 0..Len(text) : matchhere(re, SubSeq(text, k + 1, Len(text)))
------------------------------------------------------------------------------
(* What an expression means: a sequence of parts, each taking a set of       *)
(* positions in the text to the positions after what it may stand for.       *)
RECURSIVE Parts(_)
Parts(re) ==
  IF re = <<>> THEN <<>>
  ELSE IF Len(re) > 1 /\ re[2] = "*" THEN << <<"many", re[1]>> >> \o Parts(SubSeq(re, 3, Len(re)))
  ELSE IF re = <<"$">> THEN << <<"end", "$">> >>
  ELSE << <<"one", re[1]>> >> \o Parts(Tail(re))

Stands(c, d) == c = "." \/ c = d

Through(part, text, S) ==
  CASE part[1] = "one" -> {k \in DOMAIN text : k - 1 \in S /\ Stands(part[2], text[k])}
    [] part[1] = "many" -> {k \in 0..Len(text) : \E j \in S : j <= k /\ \A i \in j + 1..k : Stands(part[2], text[i])}
    [] part[1] = "end" -> S \cap {Len(text)}

RECURSIVE Reached(_, _, _)
Reached(parts, text, S) ==
  IF parts = <<>> THEN S ELSE Reached(Tail(parts), text, Through(Head(parts), text, S))

Matches(re, text) ==
  IF re # <<>> /\ re[1] = "^" THEN Reached(Parts(Tail(re)), text, {0}) # {}
  ELSE Reached(Parts(re), text, 0..Len(text)) # {}
==============================================================================
