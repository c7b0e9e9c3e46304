------------------------------- MODULE Terminal ------------------------------
(***************************************************************************)
(* What the console promises: a line that is edited until it is complete,  *)
(* characters that are read in the order they were typed, each once, and   *)
(* characters that are sent in the order they were written, each once.     *)
(***************************************************************************)
EXTENDS Integers, Sequences

CONSTANTS Chars, Ends, InSize, OutSize

VARIABLES
  line,    \* typed and still edited
  ready,   \* complete, and not read yet
  out      \* written and not sent yet

vars == <<line, ready, out>>

Init == line = <<>> /\ ready = <<>> /\ out = <<>>

\* The line is complete at its end, or when there is no more room.
Type(c) ==
  LET n == Len(ready) + Len(line)
  IN /\ n < InSize
     /\ IF c \in Ends \/ n + 1 = InSize
          THEN ready' = ready \o Append(line, c) /\ line' = <<>>
          ELSE line' = Append(line, c) /\ ready' = ready
     /\ out' = out

Erase ==
  /\ line # <<>>
  /\ line' = SubSeq(line, 1, Len(line) - 1)
  /\ UNCHANGED <<ready, out>>

KillLine == line' = <<>> /\ UNCHANGED <<ready, out>>

Read ==
  /\ ready # <<>>
  /\ ready' = Tail(ready)
  /\ UNCHANGED <<line, out>>

Write(c) ==
  /\ Len(out) < OutSize
  /\ out' = Append(out, c)
  /\ UNCHANGED <<line, ready>>

Send == out # <<>> /\ out' = Tail(out) /\ UNCHANGED <<line, ready>>

Next ==
  \/ \E c \in Chars : Type(c) \/ Write(c)
  \/ Erase \/ KillLine \/ Read \/ Send

Spec == Init /\ [][Next]_vars
==============================================================================
