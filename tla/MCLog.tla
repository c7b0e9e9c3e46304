-------------------------------- MODULE MCLog --------------------------------
(* Log with a bound on the number of operations each process starts.         *)
EXTENDS Log

CONSTANT MaxOps

VARIABLE left   \* operations a process may still start

LiveInit == Init /\ left = [p \in Procs |-> MaxOps]

LiveNext ==
  /\ Next
  /\ left' = [p \in Procs |->
                left[p] - (IF pc[p] = "idle" /\ pc'[p] # "idle" THEN 1 ELSE 0)]
  /\ \A p \in Procs : left'[p] >= 0

LiveSpec == LiveInit /\ [][LiveNext]_<<vars, left>> /\ Fairness
==============================================================================
