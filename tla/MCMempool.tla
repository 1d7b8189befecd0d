----------------------------- MODULE MCMempool -----------------------------
(* Small instances of Mempool. *)
EXTENDS Mempool
=============================================================================
