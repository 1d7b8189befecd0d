------------------------------- MODULE MCKmap -------------------------------
(* A small instance of Kmap. *)
EXTENDS Kmap
=============================================================================
