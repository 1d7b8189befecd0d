-------------------------------- MODULE Objects --------------------------------
(* Slabs, and the objects that they are divided into. *)
EXTENDS Integers, FiniteSets

CONSTANTS Slabs,      \* the blocks of pages a cache may come to have
          Num         \* cachep->num, the objects of a slab

ASSUME ObjectsAssumption == IsFiniteSet(Slabs) /\ Num \in Nat \ {0}

Of(s) == {s} \X (1..Num)
SlabOf(o) == o[1]

AllObjects == Slabs \X (1..Num)
================================================================================
