----------------------------- MODULE BlockStore ------------------------------
(***************************************************************************)
(* What the buffer cache promises: the contents of each block, which one   *)
(* process at a time holds, and only the holder changes.                   *)
(***************************************************************************)
CONSTANTS Procs, Blocks, Data, Nobody

VARIABLES content, holder

Init ==
  /\ content \in [Blocks -> Data]
  /\ holder = [b \in Blocks |-> Nobody]

Take(p, b) ==
  /\ holder[b] = Nobody
  /\ holder' = [holder EXCEPT ![b] = p]
  /\ UNCHANGED content

Change(b, v) ==
  /\ holder[b] # Nobody
  /\ content' = [content EXCEPT ![b] = v]
  /\ UNCHANGED holder

Give(b) ==
  /\ holder[b] # Nobody
  /\ holder' = [holder EXCEPT ![b] = Nobody]
  /\ UNCHANGED content

Next == \E b \in Blocks :
  \/ \E p \in Procs : Take(p, b)
  \/ \E v \in Data : Change(b, v)
  \/ Give(b)

Spec == Init /\ [][Next]_<<content, holder>>
==============================================================================
