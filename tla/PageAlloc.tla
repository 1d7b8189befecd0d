------------------------------ MODULE PageAlloc ------------------------------
(****************************************************************************)
(* The page allocator of one zone, mm/page_alloc.c: the buddy system under  *)
(* zone->lock, and in front of it the per-CPU lists of order-0 pages.       *)
(*                                                                          *)
(* A context is whatever runs the code: a task or an interrupt handler, on  *)
(* any CPU.  Each loop under zone->lock takes one step per iteration; every *)
(* stretch of code that no other context can observe is one step.           *)
(*                                                                          *)
(* `blocks' holds every block of page frames with the place it is in: a     *)
(* list_head chains it, a local variable of a context holds it, or a caller *)
(* uses it.  The order of a list is abstracted: an entry is any member.     *)
(****************************************************************************)
EXTENDS Zone, FiniteSets

CONSTANTS Contexts,    \* the tasks and interrupt handlers that call the allocator
          Cpus,
          BootOrder,   \* the order of a word of the boot bitmap, ffs(BITS_PER_LONG) - 1
          Batch,       \* pcp->batch
          MaxRefs,     \* bound on page_count
          Shared,      \* bound: the pages on which further references are taken
          None

ASSUME BoundsAssumption == BootOrder \in 0..(MaxOrder - 1) /\ Batch \in Nat \ {0} /\ MaxRefs \in Nat \ {0}

Lists == Cpus \X {"hot", "cold"}      \* zone->pageset[cpu].pcp[cold]

\* free_area_init_core: the marks of the hot and of the cold lists.
Low(l)  == IF l[2] = "hot" THEN 2 * Batch ELSE 0
High(l) == IF l[2] = "hot" THEN 6 * Batch ELSE 2 * Batch

(****************************************************************************)
(* Places and blocks.                                                       *)
(****************************************************************************)
FreeArea == <<"free", None>>          \* zone->free_area[order].free_list
InUse    == <<"used", None>>          \* returned to a caller
Pcp(l)   == <<"pcp", l>>              \* zone->pageset[cpu].pcp[cold].list
Hand(t)  == <<"hand", t>>             \* `page' of the innermost function t is in
Arg(t)   == <<"arg", t>>              \* the page t is freeing, before it is listed

Places == {FreeArea, InUse} \cup {Pcp(l) : l \in Lists}
            \cup {Hand(t) : t \in Contexts} \cup {Arg(t) : t \in Contexts}

Blocks == [page: Frames, order: Orders, place: Places]

ASSUME NoneAssumption ==
    /\ None \notin Contexts
    /\ None \notin Lists
    /\ None \notin Orders
    /\ None \notin Blocks

Block(p, o, pl) == [page |-> p, order |-> o, place |-> pl]
Moved(b, pl) == [b EXCEPT !.place = pl]

\* Slip: the buddy is always the next block.
BuddyAbove(p, o) == p + Size[o]

\* __page_find_buddy: page_idx ^ (1 << order).  The index is the frame number
\* modulo 1 << MAX_ORDER, which has the same bit `order'.
BuddyOf(p, o) == IF (p \div Size[o]) % 2 = 0 THEN p + Size[o] ELSE p - Size[o]

\* __find_combined_index: page_idx & ~(1 << order).
Combined(p, o) == IF (p \div Size[o]) % 2 = 0 THEN p ELSE p - Size[o]

VARIABLES
    blocks,      \* every block of frames, with its place
    pageOrder,   \* page->private where PG_private is set, None where it is clear
    pageCount,   \* page_count(page)
    nrFree,      \* zone->free_area[order].nr_free
    freePages,   \* zone->free_pages
    pcpCount,    \* zone->pageset[cpu].pcp[cold].count
    lock,        \* the holder of zone->lock
    pc,          \* where each context is
    want,        \* the order it asked for, 0 when it asked for none
    pcp,         \* the per-CPU list it works on: interrupts are off on that CPU
    found,       \* the free block it has found and not yet taken off its list
    todo,        \* iterations left of its batch
    ret          \* pages its batch moved so far

vars == <<blocks, pageOrder, pageCount, nrFree, freePages, pcpCount, lock,
          pc, want, pcp, found, todo, ret>>

At(pl) == {b \in blocks : b.place = pl}

\* No context has switched interrupts off on the CPU of list l.
CpuFree(l) == \A t \in Contexts : pcp[t] # None => pcp[t][1] # l[1]

\* The smallest order with a free block that is large enough.
Smallest(o, b) == /\ b \in At(FreeArea)
                  /\ b.order >= o
                  /\ \A c \in At(FreeArea) : c.order >= o => b.order <= c.order

\* Slip: an order that is not the one asked for is not searched.
NoneFreeExact(o) == \A b \in At(FreeArea) : b.order # o

NoneFree(o) == \A b \in At(FreeArea) : b.order < o

\* Slip: any page without references passes for a free buddy.
IsBuddyUnmarked(p, o) == p \in Frames /\ p \notin Reserved /\ pageCount[p] = 0

\* page_is_buddy, after the test that the buddy lies in the zone.
IsBuddy(p, o) == /\ p \in Frames
                 /\ pageOrder[p] = o
                 /\ p \notin Reserved
                 /\ pageCount[p] = 0

CanMerge(b) == b.order < MaxOrder - 1 /\ IsBuddy(BuddyOf(b.page, b.order), b.order)

------------------------------------------------------------------------------
\* free_all_bootmem frees a word of its bitmap without reserved frames as one
\* block, if the node is aligned, and the other frames one by one.
WholeWords == {p \in Frames : /\ p % Size[BootOrder] = 0
                              /\ p + Size[BootOrder] <= ZoneEnd
                              /\ \A r \in Reserved : r < p \/ p + Size[BootOrder] <= r}

Singles(words) == {p \in Frames \ Reserved :
                     \A q \in words : p < q \/ q + Size[BootOrder] <= p}

\* It has cleared PG_reserved and set the reference counts of what it now frees.
Init ==
    /\ \E words \in SUBSET WholeWords :
         /\ blocks = {Block(p, BootOrder, InUse) : p \in words}
                       \cup {Block(p, 0, InUse) : p \in Singles(words)}
         /\ pageCount = [p \in Frames |-> IF p \in words \cup Singles(words) THEN 1 ELSE 0]
    /\ pageOrder = [p \in Frames |-> None]
    /\ nrFree = [o \in Orders |-> 0]
    /\ freePages = 0
    /\ pcpCount = [l \in Lists |-> 0]
    /\ lock = None
    /\ pc = [t \in Contexts |-> "idle"]
    /\ want = [t \in Contexts |-> 0]
    /\ pcp = [t \in Contexts |-> None]
    /\ found = [t \in Contexts |-> None]
    /\ todo = [t \in Contexts |-> 0]
    /\ ret = [t \in Contexts |-> 0]

Goto(t, label) == pc' = [pc EXCEPT ![t] = label]

(****************************************************************************)
(* Slips that the properties are there to find; no action of Next is one.   *)
(****************************************************************************)
\* rmqueue_bulk goes round once too often.
FindFreeOnceMore(t, b) ==
    /\ \/ pc[t] = "refill"
       \/ pc[t] = "rmqueue" /\ lock = None
    /\ Smallest(want[t], b)
    /\ lock' = t
    /\ found' = [found EXCEPT ![t] = b]
    /\ Goto(t, "detach")
    /\ UNCHANGED <<blocks, pageOrder, pageCount, nrFree, freePages, pcpCount,
                   want, pcp, todo, ret>>

\* __rmqueue without rmv_page_order.
DetachMarked(t) ==
    LET b == found[t] IN
    /\ pc[t] = "detach"
    /\ blocks' = (blocks \ {b}) \cup {Moved(b, Hand(t))}
    /\ nrFree' = [nrFree EXCEPT ![b.order] = @ - 1]
    /\ freePages' = freePages - Size[want[t]]
    /\ found' = [found EXCEPT ![t] = None]
    /\ Goto(t, "expand")
    /\ UNCHANGED <<pageOrder, pageCount, pcpCount, lock, want, pcp, todo, ret>>

\* The count is set to the size of the batch, not raised by it.
RefillOverwrites(t) ==
    /\ pc[t] = "refill"
    /\ todo[t] = 0 \/ NoneFree(0)
    /\ lock' = None
    /\ pcpCount' = [pcpCount EXCEPT ![pcp[t]] = ret[t]]
    /\ todo' = [todo EXCEPT ![t] = 0]
    /\ ret' = [ret EXCEPT ![t] = 0]
    /\ Goto(t, "take")
    /\ UNCHANGED <<blocks, pageOrder, pageCount, nrFree, freePages, want, pcp, found>>

\* free_pages_bulk returns without spin_unlock.
PlaceLocked(t, b) ==
    /\ pc[t] = "place"
    /\ b \in At(Hand(t))
    /\ blocks' = (blocks \ {b}) \cup {Moved(b, FreeArea)}
    /\ pageOrder' = [pageOrder EXCEPT ![b.page] = b.order]
    /\ nrFree' = [nrFree EXCEPT ![b.order] = @ + 1]
    /\ Goto(t, IF pcp[t] # None THEN "drain" ELSE "idle")
    /\ ret' = IF pcp[t] # None THEN [ret EXCEPT ![t] = @ + 1] ELSE ret
    /\ UNCHANGED <<pageCount, freePages, pcpCount, lock, want, pcp, found, todo>>

(****************************************************************************)
(* Allocation: buffered_rmqueue.                                            *)
(****************************************************************************)
\* Order 0: interrupts off, and the per-CPU list is refilled when its count is
\* at or above the low mark.
AllocPage(t, l) ==
    /\ pc[t] = "idle"
    /\ CpuFree(l)
    /\ pcp' = [pcp EXCEPT ![t] = l]
    /\ Goto(t, IF pcpCount[l] >= Low(l) THEN "refill_lock" ELSE "take")
    /\ UNCHANGED <<blocks, pageOrder, pageCount, nrFree, freePages, pcpCount,
                   lock, want, found, todo, ret>>

AllocPages(t, o) ==
    /\ pc[t] = "idle"
    /\ o > 0
    /\ want' = [want EXCEPT ![t] = o]
    /\ Goto(t, "rmqueue")
    /\ UNCHANGED <<blocks, pageOrder, pageCount, nrFree, freePages, pcpCount,
                   lock, pcp, found, todo, ret>>

RefillLock(t) ==
    /\ pc[t] = "refill_lock"
    /\ lock = None
    /\ lock' = t
    /\ todo' = [todo EXCEPT ![t] = Batch]
    /\ Goto(t, "refill")
    /\ UNCHANGED <<blocks, pageOrder, pageCount, nrFree, freePages, pcpCount,
                   want, pcp, found, ret>>

\* __rmqueue finds the list to take from: `page' is its first entry ...
FindFree(t, b) ==
    /\ \/ pc[t] = "refill" /\ todo[t] > 0
       \/ pc[t] = "rmqueue" /\ lock = None
    /\ Smallest(want[t], b)
    /\ lock' = t
    /\ found' = [found EXCEPT ![t] = b]
    /\ Goto(t, "detach")
    /\ UNCHANGED <<blocks, pageOrder, pageCount, nrFree, freePages, pcpCount,
                   want, pcp, todo, ret>>

\* ... which it takes off, and hands to expand.
Detach(t) ==
    LET b == found[t] IN
    /\ pc[t] = "detach"
    /\ blocks' = (blocks \ {b}) \cup {Moved(b, Hand(t))}
    /\ pageOrder' = [pageOrder EXCEPT ![b.page] = None]
    /\ nrFree' = [nrFree EXCEPT ![b.order] = @ - 1]
    /\ freePages' = freePages - Size[want[t]]
    /\ found' = [found EXCEPT ![t] = None]
    /\ Goto(t, "expand")
    /\ UNCHANGED <<pageCount, pcpCount, lock, want, pcp, todo, ret>>

\* One turn of expand: the upper half goes back to the free list below.
Expand(t, b) ==
    LET high == b.order - 1
        upper == b.page + Size[high] IN
    /\ pc[t] = "expand"
    /\ b \in At(Hand(t))
    /\ b.order > want[t]
    /\ blocks' = (blocks \ {b}) \cup {Block(b.page, high, Hand(t)),
                                      Block(upper, high, FreeArea)}
    /\ pageOrder' = [pageOrder EXCEPT ![upper] = high]
    /\ nrFree' = [nrFree EXCEPT ![high] = @ + 1]
    /\ UNCHANGED <<pageCount, freePages, pcpCount, lock, pc, want, pcp, found, todo, ret>>

\* expand is done inside rmqueue_bulk: the page joins the per-CPU list.
RefillAdd(t, b) ==
    /\ pc[t] = "expand"
    /\ b \in At(Hand(t))
    /\ b.order = want[t]
    /\ pcp[t] # None
    /\ blocks' = (blocks \ {b}) \cup {Moved(b, Pcp(pcp[t]))}
    /\ todo' = [todo EXCEPT ![t] = @ - 1]
    /\ ret' = [ret EXCEPT ![t] = @ + 1]
    /\ Goto(t, "refill")
    /\ UNCHANGED <<pageOrder, pageCount, nrFree, freePages, pcpCount, lock, want, pcp, found>>

\* The batch is complete or the zone is empty: unlock, account.
RefillUnlock(t) ==
    /\ pc[t] = "refill"
    /\ todo[t] = 0 \/ NoneFree(0)
    /\ lock' = None
    /\ pcpCount' = [pcpCount EXCEPT ![pcp[t]] = @ + ret[t]]
    /\ todo' = [todo EXCEPT ![t] = 0]
    /\ ret' = [ret EXCEPT ![t] = 0]
    /\ Goto(t, "take")
    /\ UNCHANGED <<blocks, pageOrder, pageCount, nrFree, freePages, want, pcp, found>>

Take(t, b) ==
    /\ pc[t] = "take"
    /\ pcpCount[pcp[t]] > 0
    /\ b \in At(Pcp(pcp[t]))
    /\ blocks' = (blocks \ {b}) \cup {Moved(b, Hand(t))}
    /\ pcpCount' = [pcpCount EXCEPT ![pcp[t]] = @ - 1]
    /\ pcp' = [pcp EXCEPT ![t] = None]
    /\ Goto(t, "prep")
    /\ UNCHANGED <<pageOrder, pageCount, nrFree, freePages, lock, want, found, todo, ret>>

\* The list is empty: fall back on the free areas.
TakeNone(t) ==
    /\ pc[t] = "take"
    /\ pcpCount[pcp[t]] = 0
    /\ pcp' = [pcp EXCEPT ![t] = None]
    /\ Goto(t, "rmqueue")
    /\ UNCHANGED <<blocks, pageOrder, pageCount, nrFree, freePages, pcpCount,
                   lock, want, found, todo, ret>>

\* __rmqueue finds nothing: NULL to the caller.
RmqueueFail(t) ==
    /\ pc[t] = "rmqueue"
    /\ lock = None
    /\ NoneFree(want[t])
    /\ want' = [want EXCEPT ![t] = 0]
    /\ Goto(t, "idle")
    /\ UNCHANGED <<blocks, pageOrder, pageCount, nrFree, freePages, pcpCount,
                   lock, pcp, found, todo, ret>>

\* expand is done in a call of __rmqueue of its own.
RmqueueUnlock(t, b) ==
    /\ pc[t] = "expand"
    /\ b \in At(Hand(t))
    /\ b.order = want[t]
    /\ pcp[t] = None
    /\ lock' = None
    /\ Goto(t, "prep")
    /\ UNCHANGED <<blocks, pageOrder, pageCount, nrFree, freePages, pcpCount,
                   want, pcp, found, todo, ret>>

\* prep_new_page, and the page is returned.
PrepNewPage(t, b) ==
    /\ pc[t] = "prep"
    /\ b \in At(Hand(t))
    /\ blocks' = (blocks \ {b}) \cup {Moved(b, InUse)}
    /\ pageOrder' = [pageOrder EXCEPT ![b.page] = None]
    /\ pageCount' = [pageCount EXCEPT ![b.page] = 1]
    /\ want' = [want EXCEPT ![t] = 0]
    /\ Goto(t, "idle")
    /\ UNCHANGED <<nrFree, freePages, pcpCount, lock, pcp, found, todo, ret>>

(****************************************************************************)
(* Freeing: __free_pages.                                                   *)
(****************************************************************************)
\* The reclaim scanner takes a reference of its own (get_page_testone).
GetPage(t, b) ==
    /\ pc[t] = "idle"
    /\ b \in At(InUse)
    /\ b.page \in Shared /\ pageCount[b.page] < MaxRefs
    /\ pageCount' = [pageCount EXCEPT ![b.page] = @ + 1]
    /\ UNCHANGED <<blocks, pageOrder, nrFree, freePages, pcpCount, lock, pc,
                   want, pcp, found, todo, ret>>

\* put_page_testzero: the one that drops the last reference frees the block.
PutPage(t, b) ==
    /\ pc[t] = "idle"
    /\ b \in At(InUse)
    /\ pageCount' = [pageCount EXCEPT ![b.page] = @ - 1]
    /\ IF pageCount[b.page] = 1
       THEN /\ blocks' = (blocks \ {b}) \cup {Moved(b, Arg(t))}
            /\ Goto(t, IF b.order = 0 THEN "free_page" ELSE "free_lock")
       ELSE UNCHANGED <<blocks, pc>>
    /\ UNCHANGED <<pageOrder, nrFree, freePages, pcpCount, lock, want, pcp, found, todo, ret>>

\* free_hot_cold_page: interrupts off; a list at its high mark is drained first.
FreePage(t, l) ==
    /\ pc[t] = "free_page"
    /\ CpuFree(l)
    /\ pcp' = [pcp EXCEPT ![t] = l]
    /\ Goto(t, IF pcpCount[l] >= High(l) THEN "drain_lock" ELSE "list_add")
    /\ UNCHANGED <<blocks, pageOrder, pageCount, nrFree, freePages, pcpCount,
                   lock, want, found, todo, ret>>

DrainLock(t) ==
    /\ pc[t] = "drain_lock"
    /\ lock = None
    /\ lock' = t
    /\ todo' = [todo EXCEPT ![t] = Batch]
    /\ Goto(t, "drain")
    /\ UNCHANGED <<blocks, pageOrder, pageCount, nrFree, freePages, pcpCount,
                   want, pcp, found, ret>>

\* One turn of free_pages_bulk on the per-CPU list, up to the merge loop.
Drain(t, b) ==
    /\ pc[t] = "drain"
    /\ todo[t] > 0
    /\ b \in At(Pcp(pcp[t]))
    /\ blocks' = (blocks \ {b}) \cup {Moved(b, Hand(t))}
    /\ todo' = [todo EXCEPT ![t] = @ - 1]
    /\ freePages' = freePages + Size[b.order]
    /\ Goto(t, "merge")
    /\ UNCHANGED <<pageOrder, pageCount, nrFree, pcpCount, lock, want, pcp, found, ret>>

DrainUnlock(t) ==
    /\ pc[t] = "drain"
    /\ todo[t] = 0 \/ At(Pcp(pcp[t])) = {}
    /\ lock' = None
    /\ pcpCount' = [pcpCount EXCEPT ![pcp[t]] = @ - ret[t]]
    /\ todo' = [todo EXCEPT ![t] = 0]
    /\ ret' = [ret EXCEPT ![t] = 0]
    /\ Goto(t, "list_add")
    /\ UNCHANGED <<blocks, pageOrder, pageCount, nrFree, freePages, want, pcp, found>>

\* The freed page goes on the per-CPU list; interrupts are on again.
ListAdd(t, b) ==
    /\ pc[t] = "list_add"
    /\ b \in At(Arg(t))
    /\ blocks' = (blocks \ {b}) \cup {Moved(b, Pcp(pcp[t]))}
    /\ pcpCount' = [pcpCount EXCEPT ![pcp[t]] = @ + 1]
    /\ pcp' = [pcp EXCEPT ![t] = None]
    /\ Goto(t, "idle")
    /\ UNCHANGED <<pageOrder, pageCount, nrFree, freePages, lock, want, found, todo, ret>>

\* __free_pages_ok: free_pages_bulk on a list of one block.
FreeLock(t, b) ==
    /\ pc[t] = "free_lock"
    /\ lock = None
    /\ b \in At(Arg(t))
    /\ lock' = t
    /\ blocks' = (blocks \ {b}) \cup {Moved(b, Hand(t))}
    /\ freePages' = freePages + Size[b.order]
    /\ Goto(t, "merge")
    /\ UNCHANGED <<pageOrder, pageCount, nrFree, pcpCount, want, pcp, found, todo, ret>>

\* The test of the loop of __free_pages_bulk ...
TestBuddy(t, b) ==
    /\ pc[t] = "merge"
    /\ b \in At(Hand(t))
    /\ Goto(t, IF CanMerge(b) THEN "join" ELSE "place")
    /\ UNCHANGED <<blocks, pageOrder, pageCount, nrFree, freePages, pcpCount,
                   lock, want, pcp, found, todo, ret>>

\* ... and its body: the buddy leaves its list and the two become one block.
Join(t, b) ==
    LET buddy == BuddyOf(b.page, b.order) IN
    /\ pc[t] = "join"
    /\ b \in At(Hand(t))
    /\ blocks' = (blocks \ {b, Block(buddy, b.order, FreeArea)})
                   \cup {Block(Combined(b.page, b.order), b.order + 1, Hand(t))}
    /\ nrFree' = [nrFree EXCEPT ![b.order] = @ - 1]
    /\ pageOrder' = [pageOrder EXCEPT ![buddy] = None]
    /\ Goto(t, "merge")
    /\ UNCHANGED <<pageCount, freePages, pcpCount, lock, want, pcp, found, todo, ret>>

\* The end of __free_pages_bulk; back in free_pages_bulk, the drain goes on or
\* the list of one block is used up and the lock is released.
Place(t, b) ==
    /\ pc[t] = "place"
    /\ b \in At(Hand(t))
    /\ blocks' = (blocks \ {b}) \cup {Moved(b, FreeArea)}
    /\ pageOrder' = [pageOrder EXCEPT ![b.page] = b.order]
    /\ nrFree' = [nrFree EXCEPT ![b.order] = @ + 1]
    /\ IF pcp[t] # None
       THEN /\ ret' = [ret EXCEPT ![t] = @ + 1]
            /\ Goto(t, "drain")
            /\ UNCHANGED lock
       ELSE /\ lock' = None
            /\ Goto(t, "idle")
            /\ UNCHANGED ret
    /\ UNCHANGED <<pageCount, freePages, pcpCount, want, pcp, found, todo>>

------------------------------------------------------------------------------
\* A step of the operation that t has under way.
Continue(t) ==
    \/ RefillLock(t) \/ RefillUnlock(t) \/ TakeNone(t) \/ RmqueueFail(t)
    \/ DrainLock(t) \/ DrainUnlock(t) \/ Detach(t)
    \/ \E l \in Lists : FreePage(t, l)
    \/ \E b \in blocks :
         \/ FindFree(t, b) \/ Expand(t, b) \/ RefillAdd(t, b) \/ Take(t, b)
         \/ RmqueueUnlock(t, b) \/ PrepNewPage(t, b)
         \/ Drain(t, b) \/ ListAdd(t, b) \/ FreeLock(t, b)
         \/ TestBuddy(t, b) \/ Join(t, b) \/ Place(t, b)

\* A call of t.
Call(t) ==
    \/ \E l \in Lists : AllocPage(t, l)
    \/ \E o \in Orders : AllocPages(t, o)
    \/ \E b \in blocks : GetPage(t, b) \/ PutPage(t, b)

Next == \E t \in Contexts : Call(t) \/ Continue(t)

Spec == Init /\ [][Next]_vars

\* zone->lock and the CPUs are granted in turn (ticket spinlocks, the scheduler),
\* so an operation under way is not held up for ever; nobody has to call.
Fairness == \A t \in Contexts : SF_vars(Continue(t))

FairSpec == Spec /\ Fairness

------------------------------------------------------------------------------
(****************************************************************************)
(* Properties.                                                              *)
(****************************************************************************)
Labels == {"idle", "refill_lock", "refill", "take", "rmqueue", "detach", "expand",
           "prep", "free_page", "drain_lock", "drain", "list_add", "free_lock",
           "merge", "join", "place"}

\* Every variable has its type.
TypeOK ==
    /\ blocks \subseteq Blocks
    /\ pageOrder \in [Frames -> Orders \cup {None}]
    /\ pageCount \in [Frames -> Nat]
    /\ nrFree \in [Orders -> Int]
    /\ freePages \in Int
    /\ pcpCount \in [Lists -> Int]
    /\ lock \in Contexts \cup {None}
    /\ pc \in [Contexts -> Labels]
    /\ want \in [Contexts -> Orders]
    /\ pcp \in [Contexts -> Lists \cup {None}]
    /\ found \in [Contexts -> Blocks \cup {None}]
    /\ todo \in [Contexts -> Nat]
    /\ ret \in [Contexts -> Nat]

\* No frame is in two places: what is free is not in use, no caller shares a
\* block with another one, and nothing is on two lists, at any point of the
\* loops that split and merge blocks.
NoOverlap == \A b, c \in blocks : b # c => Disjoint(b, c)

\* The assertions BUG_ON(page_idx & (order_size - 1)) and BUG_ON(bad_range(..)):
\* splitting and merging keep every block aligned on its size, inside the zone
\* and clear of the reserved frames, wherever the zone starts and ends.
AllPlaced ==
    \A b \in blocks : /\ b.page % Size[b.order] = 0
                      /\ End(b) <= ZoneEnd
                      /\ \A r \in Reserved : r < b.page \/ End(b) <= r

\* Every frame that boot gave up is in some block: none leaks out of the lists.
NoFrameLost == \A p \in Frames \ Reserved : \E b \in blocks : b.page <= p /\ p < End(b)

\* The frames are partitioned: each that boot gave up is in exactly one block, and the
\* assertions about a block's place hold.
Partitioned == NoOverlap /\ AllPlaced /\ NoFrameLost

\* page_is_buddy looks at PG_private and page->private, never at the lists: they
\* must mark the heads of the blocks on the free lists, and nothing else.
OrderMarks == \A p \in Frames, o \in Orders :
                 pageOrder[p] = o <=> Block(p, o, FreeArea) \in blocks

\* A page has references exactly while a caller has the block it heads, so that
\* neither BUG_ON(page_count(p) == 0) nor the check of bad_page ever fires.
CountMarks == \A p \in Frames :
                 pageCount[p] > 0 <=> \E b \in At(InUse) : b.page = p

\* Two buddies are never both on the free list of one order.
Coalesced == \A b \in At(FreeArea) :
                b.order < MaxOrder - 1 =>
                  Block(BuddyOf(b.page, b.order), b.order, FreeArea) \notin blocks

\* zone->lock is held exactly in the loops that touch the free areas, so by one
\* context at a time, and interrupts are off wherever a per-CPU list is in use.
LockDiscipline ==
    \A t \in Contexts :
      /\ lock = t <=> pc[t] \in {"refill", "detach", "expand", "drain", "merge",
                                 "join", "place"}
      /\ pc[t] \in {"refill_lock", "refill", "take", "drain_lock", "drain",
                    "list_add"} => pcp[t] # None
      /\ pc[t] \in {"idle", "rmqueue", "prep", "free_page", "free_lock"} => pcp[t] = None
      /\ pc[t] \in {"detach", "expand"} /\ pcp[t] # None => todo[t] > 0

\* The block of which b is one half is free but for b.
Joinable(b) == /\ b.order < MaxOrder - 1
               /\ Block(BuddyOf(b.page, b.order), b.order, FreeArea) \in blocks

\* What a context has read of the free areas still holds when it acts on it: the
\* entry it found is on its list, the buddy it tested is free or is not, and it
\* has one block at a time in its hand.
Reads(t) ==
    /\ pc[t] = "detach" => found[t] \in At(FreeArea)
    /\ pc[t] = "join" => \A b \in At(Hand(t)) : Joinable(b)
    /\ pc[t] = "place" => \A b \in At(Hand(t)) : ~Joinable(b)
    /\ pc[t] \notin {"expand", "prep", "merge", "join", "place"} => At(Hand(t)) = {}
    /\ \A b, c \in At(Hand(t)) : b = c

ReadsHold == \A t \in Contexts : Reads(t)

\* nr_free is the length of its list, and outside the lock free_pages is the
\* number of frames on the free lists.
Accounting ==
    /\ \A o \in Orders : nrFree[o] = Cardinality({b \in At(FreeArea) : b.order = o})
    /\ lock = None =>
         freePages = Cardinality({p \in Frames :
                        \E b \in At(FreeArea) : b.page <= p /\ p < End(b)})

\* A per-CPU list that nobody is at work on is as long as its count says.
PcpAccounting ==
    \A l \in Lists : (\A t \in Contexts : pcp[t] # l) =>
                        pcpCount[l] = Cardinality(At(Pcp(l)))

\* What others read instead of the lists agrees with the lists: the marks in struct page,
\* by which free blocks are found merged whenever somebody looks ...
MarksAgree == OrderMarks /\ CountMarks /\ Coalesced

\* ... and the counters.
CountersAgree == Accounting /\ PcpAccounting

\* A request of order o fails only if no aligned run of 2^o frames is free.
FailsOnlyWhenFragmented ==
    [][\A t \in Contexts : RmqueueFail(t) =>
         ~ \E p \in Frames :
             /\ p % Size[want[t]] = 0
             /\ \A q \in p..(p + Size[want[t]] - 1) :
                  \E b \in At(FreeArea) : b.page <= q /\ q < End(b)]_vars

\* Every call returns: no context stays away from "idle" for ever.
CallsReturn == \A t \in Contexts : []<>(pc[t] = "idle")

\* A zone of callers: the blocks in use, without their places.
Owner == INSTANCE PageOwner
           WITH owned <- {[page |-> b.page, order |-> b.order] : b \in At(InUse)}
Owned == Owner!Spec
==============================================================================
