--------------------------------- MODULE Zone ---------------------------------
(* A zone: its page frames, and blocks of 2^order of them. *)
EXTENDS Integers

CONSTANTS ZoneStart,   \* zone->zone_start_pfn
          ZoneEnd,     \* zone->zone_start_pfn + zone->spanned_pages
          MaxOrder,    \* MAX_ORDER_BS
          Size,        \* Size[o] = 1 << o
          Reserved     \* the frames that keep PG_reserved after boot

ASSUME ZoneAssumption ==
    /\ ZoneStart \in Nat
    /\ ZoneEnd \in Nat
    /\ ZoneStart < ZoneEnd

ASSUME SizeAssumption ==
    /\ MaxOrder \in Nat \ {0}
    /\ Size \in [0..MaxOrder -> Nat \ {0}]
    /\ Size[0] = 1
    /\ \A o \in 0..(MaxOrder - 1) : Size[o + 1] = 2 * Size[o]

Frames == ZoneStart..(ZoneEnd - 1)
Orders == 0..(MaxOrder - 1)

ASSUME ReservedAssumption == Reserved \subseteq Frames

End(b) == b.page + Size[b.order]

\* The frames of b and c are disjoint.
Disjoint(b, c) == End(b) <= c.page \/ End(c) <= b.page
==============================================================================
