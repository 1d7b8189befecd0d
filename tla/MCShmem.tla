------------------------------- MODULE MCShmem -------------------------------
(* Small instances of Shmem. *)
EXTENDS Shmem, TLC

Symmetry == Permutations(Tasks)
=============================================================================
