----------------------------- MODULE MCProcLive ------------------------------
(* Proc with a bound on how often processes other than init call wait();     *)
(* init calls it only when it has a child, as user/init.c does.              *)
EXTENDS Proc

CONSTANT MaxWaits

VARIABLE waits

Calls(p) == th[p].pc = "user" /\ th'[p].pc = "wait"

LiveInit == Init /\ waits = 0

LiveNext ==
  /\ Next
  /\ waits' = IF \E p \in Slots \ {initproc} : Calls(p) THEN waits + 1 ELSE waits
  /\ waits' <= MaxWaits
  /\ Calls(initproc) => \E q \in Slots : parent[q] = initproc

LiveSpec == LiveInit /\ [][LiveNext]_<<vars, waits>> /\ Fairness
==============================================================================
