------------------------------ MODULE PageOwner ------------------------------
(****************************************************************************)
(* What the page allocator of one zone promises to its callers: a block of  *)
(* 2^order page frames handed out by __alloc_pages is aligned on its size,  *)
(* lies in the zone, keeps clear of the reserved frames and shares no frame *)
(* with any other block in use, until the last reference to it is dropped.  *)
(* Nothing is said of free lists, per-CPU lists, locks or counters.         *)
(****************************************************************************)
EXTENDS Zone

Extents == [page: Frames, order: Orders]

\* b starts on a multiple of its size, and all its frames are in the zone.
WellPlaced(b) ==
    /\ b.page % Size[b.order] = 0
    /\ End(b) <= ZoneEnd
    /\ \A r \in Reserved : r < b.page \/ End(b) <= r

VARIABLE owned         \* the blocks in the hands of callers

\* Boot hands the frames that are not reserved to the allocator in such blocks.
Init == /\ owned \in SUBSET Extents
        /\ \A b \in owned : WellPlaced(b)
        /\ \A b, c \in owned : b # c => Disjoint(b, c)

Grant(b) == /\ WellPlaced(b)
            /\ \A c \in owned : Disjoint(b, c)
            /\ owned' = owned \cup {b}

Release(b) == /\ b \in owned
              /\ owned' = owned \ {b}

Next == \E b \in Extents : Grant(b) \/ Release(b)

Spec == Init /\ [][Next]_owned
==============================================================================
