----------------------------- MODULE MCVmalloc -----------------------------
(* Small instances of Vmalloc. *)
EXTENDS Vmalloc, TLC

Symmetry == Permutations(Tasks)
=============================================================================
