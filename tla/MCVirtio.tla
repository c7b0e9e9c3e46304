------------------------------ MODULE MCVirtio -------------------------------
(* Instances of Virtio for TLC. *)
EXTENDS Virtio, TLC

Symmetry == Permutations(Procs) \cup Permutations(Data)
==============================================================================
