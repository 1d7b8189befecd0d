----------------------------- MODULE MCKmapTlb -----------------------------
(* A small instance of KmapTlb. *)
EXTENDS KmapTlb
=============================================================================
