----------------------------- MODULE MCReclaim -----------------------------
(* Small instances of Reclaim: two zones of a few pages, orders 0 and 1. *)
EXTENDS Reclaim, TLC

Pow2 == [n \in Shifts |-> 2^n]

\* zone 1 keeps a page from the requests for zone 2.
Marks == <<4, 1>>
Reserve == <<(1 :> 0 @@ 2 :> 1), (1 :> 0 @@ 2 :> 0)>>
Scarce == <<(0 :> 3 @@ 1 :> 1), (0 :> 1 @@ 1 :> 0)>>
Ample == <<(0 :> 3 @@ 1 :> 2), (0 :> 1 @@ 1 :> 1)>>
Spent == <<(0 :> 3 @@ 1 :> 0), (0 :> 1 @@ 1 :> 0)>>
AnyBlocks == {Spent, Scarce, Ample}
FewBlocks == {Spent, Scarce}
EmptyLru == [z \in {1, 2} |-> [active |-> 0, inactive |-> 0]]

\* GFP_KERNEL, GFP_ATOMIC, a request for two pages that does not retry, and one of a
\* task that may use the reserves.
Kernel == [NoRequest EXCEPT !.fs = TRUE]
Atomic == [NoRequest EXCEPT !.wait = FALSE, !.high = TRUE, !.class = 2]
Pair == [NoRequest EXCEPT !.order = 1, !.noretry = TRUE, !.class = 2]
Killed == [NoRequest EXCEPT !.memalloc = TRUE, !.order = 1]
Some == {Kernel, Atomic, Pair, Killed}

Symmetry == Permutations(Tasks)
=============================================================================
