-------------------------------- MODULE MCBio --------------------------------
(* An instance of Bio for TLC. *)
EXTENDS Bio, TLC

Symmetry == Permutations(Procs) \cup Permutations(Blocks) \cup Permutations(Data)
==============================================================================
