--------------------------------- MODULE Txn ---------------------------------
(***************************************************************************)
(* What the log of kernel/log.c promises to the file system above it.      *)
(*                                                                         *)
(* Between begin_op() and end_op() a system call updates blocks of the     *)
(* current contents.  The durable contents only ever jump, in one step, to *)
(* the current contents, and only at a moment when no system call is       *)
(* inside an operation.  A crash takes the machine back to the durable     *)
(* contents.  So a crash never exposes a part of an operation.             *)
(***************************************************************************)
CONSTANTS Procs, Blocks, Data

VARIABLES
  durable,   \* what recovery would find on the disk
  current,   \* what system calls read and write
  open       \* processes between begin_op() and end_op()

vars == <<durable, current, open>>

Init ==
  /\ durable \in [Blocks -> Data]
  /\ current = durable
  /\ open = {}

Begin(p) ==
  /\ p \notin open
  /\ open' = open \cup {p}
  /\ UNCHANGED <<durable, current>>

Write(p, b, v) ==
  /\ p \in open
  /\ current' = [current EXCEPT ![b] = v]
  /\ UNCHANGED <<durable, open>>

End(p) ==
  /\ p \in open
  /\ open' = open \ {p}
  /\ UNCHANGED <<durable, current>>

Commit ==
  /\ open = {}
  /\ durable' = current
  /\ UNCHANGED <<current, open>>

Crash ==
  /\ current' = durable
  /\ open' = {}
  /\ UNCHANGED durable

Next ==
  \/ \E p \in Procs : Begin(p) \/ End(p)
  \/ \E p \in Procs, b \in Blocks, v \in Data : Write(p, b, v)
  \/ Commit
  \/ Crash

Spec == Init /\ [][Next]_vars
==============================================================================
