------------------------------- MODULE MCLru -------------------------------
(* A small instance of Lru: two pages, of one zone or of two. *)
EXTENDS Lru, TLC

CONSTANTS p1, p2, z1, z2

SmallMaps == {[p \in Pages |-> z1], [p \in Pages |-> IF p = p1 THEN z1 ELSE z2]}
=============================================================================
