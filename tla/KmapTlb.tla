------------------------------ MODULE KmapTlb ------------------------------
(****************************************************************************)
(* Kmap on CPUs that cache translations.  The hardware may load what the    *)
(* kernel's page table holds, or drop what it has loaded, at any time; what *)
(* it has loaded stays valid for it until it is flushed.                    *)
(*                                                                          *)
(* The comments of mm/highmem.c count on flush_all_zero_pkmaps to flush.    *)
(* flush_tlb_kernel_range_bs is an empty macro here, and what pte_clear and *)
(* set_pte write back is a line of the data cache.                          *)
(****************************************************************************)
EXTENDS Kmap

VARIABLE tlb         \* the pages that some CPU has cached for a slot

TlbInit == Init /\ tlb = [s \in Slots |-> {}]

\* flush_tlb_kernel_range, at the end of flush_all_zero_pkmaps.
FlushTlb == UNCHANGED tlb

\* The steps that run flush_all_zero_pkmaps ...
Flushes(t) == \E p \in Pages : KmapSleep(t, p) \/ \E s \in Slots : KmapFlush(t, p, s)

\* ... and those that do not.
Others(t) ==
    \/ \E p \in Pages : KmapMapped(t, p) \/ \E s \in Slots : KmapNew(t, p, s)
    \/ Awake(t) \/ Kunmap(t) \/ WakeUp(t)

\* The hardware walks the page table.
Walk(s) ==
    /\ pte[s] # None
    /\ tlb' = [tlb EXCEPT ![s] = @ \cup {pte[s]}]
    /\ UNCHANGED vars

\* It forgets what it has found.
Evict(s) ==
    /\ \E p \in tlb[s] : tlb' = [tlb EXCEPT ![s] = @ \ {p}]
    /\ UNCHANGED vars

TlbNext ==
    \/ \E t \in Tasks : \/ Flushes(t) /\ FlushTlb
                        \/ Others(t) /\ UNCHANGED tlb
    \/ \E s \in Slots : Walk(s) \/ Evict(s)

TlbSpec == TlbInit /\ [][TlbNext]_<<vars, tlb>>

\* kunmap_high: "A count must never go down to zero without a TLB flush!", so that a
\* task that has mapped a page reads that page at the address it was given, on every
\* CPU, and not the page that had the slot before.
ReadsOwnPage ==
    \A t \in Tasks : pc[t] = "mapped" => tlb[vaddr[t]] \subseteq {page[t]}
=============================================================================
