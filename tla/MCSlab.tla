-------------------------------- MODULE MCSlab --------------------------------
(* Small instances of Slab. *)
EXTENDS Slab, TLC

Symmetry == Permutations(Contexts) \cup Permutations(Cpus) \cup Permutations(Slabs)
================================================================================
