-------------------------------- MODULE Fifo ---------------------------------
(***************************************************************************)
(* What a pipe promises: a bounded queue of bytes, put at one end and      *)
(* taken, each once and in order, at the other.                            *)
(***************************************************************************)
EXTENDS Sequences, Naturals

CONSTANTS Bytes, Size

VARIABLES
  queue,   \* bytes written and not yet read
  taken    \* the byte read last

Init ==
  /\ queue = <<>>
  /\ taken \in Bytes

Put(b) ==
  /\ Len(queue) < Size
  /\ queue' = Append(queue, b)
  /\ UNCHANGED taken

Take ==
  /\ queue # <<>>
  /\ taken' = Head(queue)
  /\ queue' = Tail(queue)

Next == Take \/ \E b \in Bytes : Put(b)

Spec == Init /\ [][Next]_<<queue, taken>>
==============================================================================
