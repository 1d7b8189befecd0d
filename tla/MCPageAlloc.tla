---------------------------- MODULE MCPageAlloc ----------------------------
(* A small instance of PageAlloc. *)
EXTENDS PageAlloc, TLC

MCSize == [o \in 0..MaxOrder |-> 2 ^ o]
=============================================================================
