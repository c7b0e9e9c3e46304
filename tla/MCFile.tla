------------------------------- MODULE MCFile --------------------------------
(* An instance of File for TLC. *)
EXTENDS File

LiveSpec == Spec /\ Fairness
==============================================================================
