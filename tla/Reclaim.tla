------------------------------ MODULE Reclaim ------------------------------
(****************************************************************************)
(* What happens when zones run low: __alloc_pages with its watermarks and   *)
(* retries (mm/page_alloc.c), direct reclaim and kswapd (mm/vmscan.c).      *)
(*                                                                          *)
(* A zone is the number of its free blocks of each order; which frames they *)
(* are is the matter of PageAlloc. The watermarks are read without a lock,  *)
(* so every test and what it decides are different steps.                   *)
(****************************************************************************)
EXTENDS Integers, FiniteSets

CONSTANTS
    Tasks,            \* the contexts that allocate
    Kswapd,           \* the daemon of the node
    NZones,           \* the zones of the node, 1 the lowest
    MaxOrder,         \* the largest order
    Size,             \* Size[n] = 1 << n, of the orders and the priorities
    PagesMin,         \* pages_min of each zone
    LowmemReserve,    \* lowmem_reserve[class] of each zone
    Free0,            \* the free blocks that the zones may have at first
    Lru0,             \* and their pages on the LRU lists
    Requests,         \* the allocations that are made
    SwapClusterMax,   \* SWAP_CLUSTER_MAX
    DefPriority       \* DEF_PRIORITY

Zones == 1..NZones
Orders == 0..MaxOrder
Shifts == Orders \cup 0..DefPriority
Contexts == Tasks \cup {Kswapd}

\* gfp_mask and order of a request, the zone its zonelist begins with, and whether
\* the caller is a realtime task or one that may use the reserves (PF_MEMALLOC).
RequestType ==
    [order : Orders, class : Zones, wait : BOOLEAN, high : BOOLEAN, fs : BOOLEAN,
     noretry : BOOLEAN, repeat : BOOLEAN, nofail : BOOLEAN, nomemalloc : BOOLEAN,
     rt : BOOLEAN, memalloc : BOOLEAN]

ASSUME ReclaimAssumption ==
    /\ NZones \in Nat \ {0} /\ MaxOrder \in Nat
    /\ IsFiniteSet(Tasks) /\ Kswapd \notin Tasks
    /\ Size \in [Shifts -> Nat \ {0}] /\ Size[0] = 1
    /\ \A n \in Shifts \ {0} : Size[n] = 2 * Size[n - 1]
    /\ PagesMin \in [Zones -> Nat]
    /\ LowmemReserve \in [Zones -> [Zones -> Nat]]
    /\ Free0 \subseteq [Zones -> [Orders -> Nat]]
    /\ Lru0 \in [Zones -> [active : Nat, inactive : Nat]]
    /\ Requests \subseteq RequestType
    /\ SwapClusterMax \in Nat \ {0} /\ DefPriority \in Nat

VARIABLES
    nrFree,      \* free_area[order].nr_free of each zone
    lru,         \* nr_active and nr_inactive of each zone
    nrScan,      \* nr_scan_active and nr_scan_inactive of each zone
    maxOrder,    \* kswapd_max_order
    onQueue,     \* kswapd is on kswapd_wait; a wakeup takes it off
    newOrder,    \* kswapd's new_order
    pc,
    req,         \* a task's request; of kswapd, the order it balances for
    mark,        \* the pass over the zonelist: "low", "min", "any" or "high"
    zone,        \* the zone a loop is at
    priority,    \* the scanning priority
    todo,        \* nr_active and nr_inactive of shrink_zone
    held         \* the zone of the block that a task has been given, or 0

vars == <<nrFree, lru, nrScan, maxOrder, onQueue, newOrder, pc, req, mark, zone,
          priority, todo, held>>

kswapdVars == <<maxOrder, onQueue, newOrder>>
lruVars == <<lru, nrScan, todo>>

NoRequest ==
    [order |-> 0, class |-> 1, wait |-> TRUE, high |-> FALSE, fs |-> FALSE,
     noretry |-> FALSE, repeat |-> FALSE, nofail |-> FALSE, nomemalloc |-> FALSE,
     rt |-> FALSE, memalloc |-> FALSE]

Goto(c, label) == pc' = [pc EXCEPT ![c] = label]

\* The call is over; its locals are gone.
Return(c, label) ==
    /\ mark' = [mark EXCEPT ![c] = "low"]
    /\ zone' = [zone EXCEPT ![c] = 1]
    /\ Goto(c, label)

Init ==
    /\ nrFree \in Free0
    /\ lru = Lru0
    /\ nrScan = [z \in Zones |-> [active |-> 0, inactive |-> 0]]
    /\ maxOrder = 0 /\ onQueue = FALSE /\ newOrder = 0
    /\ pc = [c \in Contexts |-> IF c = Kswapd THEN "prepare" ELSE "idle"]
    /\ req = [c \in Contexts |-> NoRequest]
    /\ mark = [c \in Contexts |-> "low"]
    /\ zone = [c \in Contexts |-> 1]
    /\ priority = [c \in Contexts |-> 0]
    /\ todo = [c \in Contexts |-> [active |-> 0, inactive |-> 0]]
    /\ held = [t \in Tasks |-> 0]

(****************************************************************************)
(* Watermarks.                                                              *)
(****************************************************************************)
\* The sum of f over a finite set, as the number of things that f counts.
SumOver(f, S) == Cardinality(UNION {{x} \X (1..f[x]) : x \in S})

\* The pages of a zone's free blocks.
PagesIn(free, orders) == SumOver([o \in Orders |-> free[o] * Size[o]], orders)

FreePages(z) == PagesIn(nrFree[z], Orders)

PagesLow(z) == (PagesMin[z] * 5) \div 4
PagesHigh(z) == (PagesMin[z] * 6) \div 4

\* The mark less what a __GFP_HIGH and a harder trying request may take of it.
Lowered(m, harder, high) == LET n == IF high THEN m - m \div 2 ELSE m
                            IN IF harder THEN n - n \div 4 ELSE n

\* At each lower order half as much is left in blocks of higher orders.
OrdersOk(z, order, min) ==
    \A o \in 1..order :
        FreePages(z) - Size[order] + 1 - PagesIn(nrFree[z], 0..(o - 1)) > min \div Size[o]

\* (Slip: the reserve that is asked for is not that of the request's class.)
WatermarkClassless(z, order, m, class, harder, high) ==
    LET min == Lowered(m, harder, high)
    IN /\ FreePages(z) - Size[order] + 1 > min + LowmemReserve[z][1]
       /\ OrdersOk(z, order, min)

\* zone_watermark_ok: more than the mark and the reserve against the request's class
\* is left. (Of a negative count the code's mixed comparison says otherwise, but then
\* the orders say no.)
WatermarkOk(z, order, m, class, harder, high) ==
    LET min == Lowered(m, harder, high)
    IN /\ FreePages(z) - Size[order] + 1 > min + LowmemReserve[z][class]
       /\ OrdersOk(z, order, min)

Harder(r) == r.rt \/ ~r.wait

\* The test of the pass that t is in.
MarkOk(t, z) ==
    LET r == req[t] IN
    CASE mark[t] = "low"  -> WatermarkOk(z, r.order, PagesLow(z), r.class, FALSE, FALSE)
      [] mark[t] = "min"  -> WatermarkOk(z, r.order, PagesMin[z], r.class, Harder(r), r.high)
      [] mark[t] = "high" -> WatermarkOk(z, r.order, PagesHigh(z), r.class, FALSE, FALSE)
      [] mark[t] = "any"  -> TRUE

(****************************************************************************)
(* buffered_rmqueue and __free_pages, as PageAlloc has them in detail.      *)
(****************************************************************************)
Taken(free, order, o) ==
    [k \in Orders |-> IF k = o THEN free[k] - 1
                      ELSE IF k \in order..(o - 1) THEN free[k] + 1 ELSE free[k]]

\* The smallest order with a free block, which is split; 0 is an allocation failure.
FirstFit(free, order, o) ==
    /\ o >= order /\ free[o] > 0
    /\ \A k \in order..(o - 1) : free[k] = 0

\* A block freed at `order' may merge with free buddies up to order o.
Merged(free, order, o) ==
    [k \in Orders |-> IF k = o THEN free[k] + 1
                      ELSE IF k \in order..(o - 1) THEN free[k] - 1 ELSE free[k]]

(****************************************************************************)
(* __alloc_pages.                                                           *)
(****************************************************************************)
Alloc(t, r) ==
    /\ pc[t] = "idle" /\ held[t] = 0
    /\ req' = [req EXCEPT ![t] = r]
    /\ mark' = [mark EXCEPT ![t] = "low"]
    /\ zone' = [zone EXCEPT ![t] = r.class]
    /\ Goto(t, "test")
    /\ UNCHANGED <<nrFree, kswapdVars, lruVars, priority, held>>

NextZone(t) == zone' = [zone EXCEPT ![t] = @ - 1]

\* A zone of the list is taken or passed over.
Test(t) ==
    /\ pc[t] = "test" /\ zone[t] # 0
    /\ \/ MarkOk(t, zone[t]) /\ Goto(t, "take") /\ UNCHANGED zone
       \/ ~MarkOk(t, zone[t]) /\ NextZone(t) /\ UNCHANGED pc
    /\ UNCHANGED <<nrFree, kswapdVars, lruVars, req, mark, priority, held>>

Take(t, o) ==
    LET z == zone[t] IN
    /\ pc[t] = "take"
    /\ FirstFit(nrFree[z], req[t].order, o)
    /\ nrFree' = [nrFree EXCEPT ![z] = Taken(@, req[t].order, o)]
    /\ held' = [held EXCEPT ![t] = z]
    /\ Return(t, "idle")
    /\ UNCHANGED <<kswapdVars, lruVars, req, priority>>

TakeFails(t) ==
    /\ pc[t] = "take"
    /\ \A o \in req[t].order..MaxOrder : nrFree[zone[t]][o] = 0
    /\ NextZone(t)
    /\ Goto(t, "test")
    /\ UNCHANGED <<nrFree, kswapdVars, lruVars, req, mark, priority, held>>

\* A new pass over the zonelist begins with mark m.
Pass(t, m, label) ==
    /\ mark' = [mark EXCEPT ![t] = m]
    /\ zone' = [zone EXCEPT ![t] = req[t].class]
    /\ Goto(t, label)

\* The low pass has found nothing: wake kswapd for each zone, ...
LowPassEnds(t) ==
    /\ pc[t] = "test" /\ zone[t] = 0 /\ mark[t] = "low"
    /\ Pass(t, "low", "wake")
    /\ UNCHANGED <<nrFree, kswapdVars, lruVars, req, priority, held>>

WakesEnd(t) ==
    /\ pc[t] = "wake" /\ zone[t] = 0
    /\ Pass(t, "min", "test")
    /\ UNCHANGED <<nrFree, kswapdVars, lruVars, req, priority, held>>

\* ... try the reserves, fail if there is nothing to wait for, or reclaim.
MinPassEnds(t) ==
    LET r == req[t] IN
    /\ pc[t] = "test" /\ zone[t] = 0 /\ mark[t] = "min"
    /\ \/ r.memalloc /\ ~r.nomemalloc /\ Pass(t, "any", "test")
       \/ r.memalloc /\ r.nomemalloc /\ Return(t, "idle")
       \/ ~r.memalloc /\ ~r.wait /\ Return(t, "idle")
       \/ ~r.memalloc /\ r.wait /\ Pass(t, "min", "reclaim")
    /\ UNCHANGED <<nrFree, kswapdVars, lruVars, req, priority, held>>

AnyPassEnds(t) ==
    /\ pc[t] = "test" /\ zone[t] = 0 /\ mark[t] = "any"
    /\ Return(t, "idle")
    /\ UNCHANGED <<nrFree, kswapdVars, lruVars, req, priority, held>>

\* out_of_memory does nothing; the allocation restarts.
HighPassEnds(t) ==
    /\ pc[t] = "test" /\ zone[t] = 0 /\ mark[t] = "high"
    /\ Pass(t, "low", "test")
    /\ UNCHANGED <<nrFree, kswapdVars, lruVars, req, priority, held>>

\* try_to_free_pages returns 0 whatever it did.
ReclaimEnds(t) ==
    LET r == req[t]
        retry == ~r.noretry /\ (r.order <= 3 \/ r.repeat \/ r.nofail)
    IN
    /\ pc[t] = "reclaimed"
    /\ \/ r.fs /\ ~r.noretry /\ Pass(t, "high", "test")
       \/ (~r.fs \/ r.noretry) /\ retry /\ Pass(t, "min", "reclaim")
       \/ (~r.fs \/ r.noretry) /\ ~retry /\ Return(t, "idle")
    /\ UNCHANGED <<nrFree, kswapdVars, lruVars, req, priority, held>>

Free(t) ==
    LET z == held[t] IN
    /\ pc[t] = "idle" /\ z # 0
    /\ \E o \in req[t].order..MaxOrder :
         /\ \A k \in req[t].order..(o - 1) : nrFree[z][k] > 0
         /\ nrFree' = [nrFree EXCEPT ![z] = Merged(@, req[t].order, o)]
    /\ held' = [held EXCEPT ![t] = 0]
    /\ UNCHANGED <<kswapdVars, lruVars, pc, req, mark, zone, priority>>

(****************************************************************************)
(* wakeup_kswapd, for the zone a task is at.                                *)
(****************************************************************************)
WakeupKswapd(t) ==
    LET z == zone[t]
        ok == WatermarkOk(z, req[t].order, PagesLow(z), 1, FALSE, FALSE)
    IN
    /\ pc[t] = "wake" /\ z # 0
    /\ \/ ok /\ NextZone(t) /\ UNCHANGED pc
       \/ ~ok /\ UNCHANGED zone /\
          Goto(t, IF maxOrder < req[t].order THEN "raise" ELSE "rouse")
    /\ UNCHANGED <<nrFree, kswapdVars, lruVars, req, mark, priority, held>>

\* (Slip: a task that raises the order leaves it to others to wake kswapd.)
RaiseQuietly(t) ==
    /\ pc[t] = "raise"
    /\ maxOrder' = req[t].order
    /\ NextZone(t)
    /\ Goto(t, "wake")
    /\ UNCHANGED <<nrFree, onQueue, newOrder, lruVars, req, mark, priority, held>>

RaiseOrder(t) ==
    /\ pc[t] = "raise"
    /\ maxOrder' = req[t].order
    /\ Goto(t, "rouse")
    /\ UNCHANGED <<nrFree, onQueue, newOrder, lruVars, req, mark, zone, priority, held>>

\* If it is on the queue it is woken and taken off.
Rouse(t) ==
    /\ pc[t] = "rouse"
    /\ onQueue' = FALSE
    /\ NextZone(t)
    /\ Goto(t, "wake")
    /\ UNCHANGED <<nrFree, maxOrder, newOrder, lruVars, req, mark, priority, held>>

(****************************************************************************)
(* shrink_zone and the loops around it: try_to_free_pages goes down the     *)
(* zonelist, balance_pgdat up to the last zone that needs scanning.         *)
(****************************************************************************)
TryToFreePages(t) ==
    /\ pc[t] = "reclaim"
    /\ priority' = [priority EXCEPT ![t] = DefPriority]
    /\ Goto(t, "scan")
    /\ UNCHANGED <<nrFree, kswapdVars, lruVars, req, mark, zone, held>>

\* A list's nr_scan counter, its share of this scan added, is used up or kept.
Share(z, c, list) == nrScan[z][list] + lru[z][list] \div Size[priority[c]] + 1
UsedUpLate(z, c, list) == Share(z, c, list) > SwapClusterMax  \* (Slip: one too late.)
UsedUp(z, c, list) == Share(z, c, list) >= SwapClusterMax

ShrinkZone(c) ==
    LET z == zone[c] IN
    /\ pc[c] = "scan"
    /\ nrScan' = [nrScan EXCEPT ![z] =
         [l \in {"active", "inactive"} |-> IF UsedUp(z, c, l) THEN 0 ELSE Share(z, c, l)]]
    /\ todo' = [todo EXCEPT ![c] =
         [l \in {"active", "inactive"} |-> IF UsedUp(z, c, l) THEN Share(z, c, l) ELSE 0]]
    /\ Goto(c, "shrink")
    /\ UNCHANGED <<nrFree, kswapdVars, lru, req, mark, zone, priority, held>>

Least(m, n) == IF m < n THEN m ELSE n

\* refill_inactive_zone takes a batch off the active list.
ShrinkTurn(c) ==
    LET z == zone[c]
        n == Least(todo[c].active, SwapClusterMax)
    IN
    /\ pc[c] = "shrink" /\ todo[c].active > 0
    /\ todo' = [todo EXCEPT ![c].active = @ - n]
    /\ lru' = [lru EXCEPT ![z].active = @ - Least(n, @)]
    /\ UNCHANGED <<nrFree, kswapdVars, nrScan, pc, req, mark, zone, priority, held>>

\* The loop turns for the inactive list and does nothing.
ShrinkSpin(c) ==
    /\ pc[c] = "shrink" /\ todo[c].active = 0 /\ todo[c].inactive > 0
    /\ UNCHANGED vars

ShrinkEnds(c) == pc[c] = "shrink" /\ todo[c].active = 0 /\ todo[c].inactive = 0

\* Direct reclaim goes on to the next zone, the next priority, or returns.
ShrunkTask(t) ==
    /\ ShrinkEnds(t)
    /\ \/ zone[t] > 1 /\ NextZone(t) /\ Goto(t, "scan") /\ UNCHANGED priority
       \/ /\ zone[t] = 1 /\ priority[t] > 0
          /\ priority' = [priority EXCEPT ![t] = @ - 1]
          /\ zone' = [zone EXCEPT ![t] = req[t].class]
          /\ Goto(t, "scan")
       \/ zone[t] = 1 /\ priority[t] = 0 /\ Goto(t, "reclaimed") /\ UNCHANGED <<zone, priority>>
    /\ UNCHANGED <<nrFree, kswapdVars, lruVars, req, mark, held>>

(****************************************************************************)
(* kswapd.                                                                  *)
(****************************************************************************)
Prepare ==
    /\ pc[Kswapd] = "prepare"
    /\ onQueue' = TRUE
    /\ Goto(Kswapd, "read")
    /\ UNCHANGED <<nrFree, maxOrder, newOrder, lruVars, req, mark, zone, priority, held>>

ReadOrder ==
    /\ pc[Kswapd] = "read"
    /\ newOrder' = maxOrder
    /\ Goto(Kswapd, "clear")
    /\ UNCHANGED <<nrFree, maxOrder, onQueue, lruVars, req, mark, zone, priority, held>>

\* A larger order is served at once, else kswapd sleeps.
ClearOrder ==
    /\ pc[Kswapd] = "clear"
    /\ maxOrder' = 0
    /\ \/ /\ req[Kswapd].order < newOrder
          /\ req' = [req EXCEPT ![Kswapd].order = newOrder]
          /\ Goto(Kswapd, "finish")
       \/ /\ req[Kswapd].order >= newOrder
          /\ Goto(Kswapd, "asleep")
          /\ UNCHANGED req
    /\ newOrder' = 0
    /\ UNCHANGED <<nrFree, onQueue, lruVars, mark, zone, priority, held>>

Awake ==
    /\ pc[Kswapd] = "asleep" /\ ~onQueue
    /\ req' = [req EXCEPT ![Kswapd].order = maxOrder]
    /\ Goto(Kswapd, "finish")
    /\ UNCHANGED <<nrFree, kswapdVars, lruVars, mark, zone, priority, held>>

\* finish_wait; balance_pgdat looks from the highest zone down ...
FinishWait ==
    /\ pc[Kswapd] = "finish"
    /\ onQueue' = FALSE
    /\ priority' = [priority EXCEPT ![Kswapd] = DefPriority]
    /\ zone' = [zone EXCEPT ![Kswapd] = NZones]
    /\ Goto(Kswapd, "look")
    /\ UNCHANGED <<nrFree, maxOrder, newOrder, lruVars, req, mark, held>>

\* ... for one that is low, the end_zone, or goes back to sleep ...
Look ==
    LET z == zone[Kswapd]
        ok == WatermarkOk(z, req[Kswapd].order, PagesHigh(z), 1, FALSE, FALSE)
    IN
    /\ pc[Kswapd] = "look"
    /\ \/ z = 0 /\ Return(Kswapd, "prepare") /\ UNCHANGED req
       \/ z # 0 /\ ok /\ NextZone(Kswapd) /\ UNCHANGED <<pc, mark, req>>
       \/ /\ z # 0 /\ ~ok
          /\ req' = [req EXCEPT ![Kswapd].class = z]
          /\ zone' = [zone EXCEPT ![Kswapd] = 1]
          /\ Goto(Kswapd, "scan")
          /\ UNCHANGED mark
    /\ UNCHANGED <<nrFree, kswapdVars, lruVars, priority, held>>

\* ... and shrinks the zones up to it, at each priority.
ShrunkKswapd ==
    LET k == Kswapd IN
    /\ ShrinkEnds(k)
    /\ \/ /\ zone[k] < req[k].class
          /\ zone' = [zone EXCEPT ![k] = @ + 1]
          /\ Goto(k, "scan")
          /\ UNCHANGED priority
       \/ /\ zone[k] = req[k].class /\ priority[k] > 0
          /\ priority' = [priority EXCEPT ![k] = @ - 1]
          /\ zone' = [zone EXCEPT ![k] = NZones]
          /\ Goto(k, "look")
       \/ /\ zone[k] = req[k].class /\ priority[k] = 0
          /\ zone' = [zone EXCEPT ![k] = 1]
          /\ Goto(k, "prepare")
          /\ UNCHANGED priority
    /\ UNCHANGED <<nrFree, kswapdVars, lruVars, req, mark, held>>

------------------------------------------------------------------------------
Shrink(c) == ShrinkZone(c) \/ ShrinkTurn(c) \/ ShrinkSpin(c)

\* A call that has begun goes on.
Continue(t) ==
    \/ Test(t) \/ TakeFails(t) \/ \E o \in Orders : Take(t, o)
    \/ LowPassEnds(t) \/ WakesEnd(t) \/ MinPassEnds(t) \/ AnyPassEnds(t) \/ HighPassEnds(t)
    \/ WakeupKswapd(t) \/ RaiseOrder(t) \/ Rouse(t)
    \/ TryToFreePages(t) \/ Shrink(t) \/ ShrunkTask(t) \/ ReclaimEnds(t)

Daemon == Prepare \/ ReadOrder \/ ClearOrder \/ Awake \/ FinishWait \/ Look
          \/ Shrink(Kswapd) \/ ShrunkKswapd

Next == \/ \E t \in Tasks : (\E r \in Requests : Alloc(t, r)) \/ Free(t) \/ Continue(t)
        \/ Daemon

Spec == Init /\ [][Next]_vars

\* Every context runs.
Fairness == WF_vars(Daemon) /\ \A t \in Tasks : WF_vars(Continue(t))

FairSpec == Spec /\ Fairness

------------------------------------------------------------------------------
(****************************************************************************)
(* Properties.                                                              *)
(****************************************************************************)
\* Every variable has its type.
TypeOK ==
    /\ nrFree \in [Zones -> [Orders -> Nat]]
    /\ lru \in [Zones -> [active : Nat, inactive : Nat]]
    /\ nrScan \in [Zones -> [active : 0..(SwapClusterMax - 1), inactive : 0..(SwapClusterMax - 1)]]
    /\ maxOrder \in Orders /\ newOrder \in Orders /\ onQueue \in BOOLEAN
    /\ req \in [Contexts -> RequestType]
    /\ mark \in [Contexts -> {"low", "min", "any", "high"}]
    /\ zone \in [Contexts -> 0..NZones]
    /\ priority \in [Contexts -> 0..DefPriority]
    /\ todo \in [Contexts -> [active : Nat, inactive : Nat]]
    /\ held \in [Tasks -> 0..NZones]

\* The least that a request r leaves of zone z: its lowered pages_min and the
\* reserve that r's class owes the zone.
Floor(z, r) == Lowered(PagesMin[z], Harder(r), r.high) + LowmemReserve[z][r.class]

\* The pages of the blocks that tasks ts hold.
Taking(ts) == SumOver([t \in Tasks |-> Size[req[t].order]], ts)

\* PF_MEMALLOC, unless the request declines it.
Entitled(r) == r.memalloc /\ ~r.nomemalloc

\* A zone keeps its reserve: a task t that holds a block of it without being entitled
\* to the reserves left it the floor of its request, if what the other
\* holders have taken is put back. Two tasks can pass their tests on the same pages,
\* since nothing is held between zone_watermark_ok and buffered_rmqueue; what is short
\* by then is what the others hold.
FloorKept ==
    \A z \in Zones :
        LET holders == {t \in Tasks : held[t] = z}
        IN \A t \in holders :
             Entitled(req[t]) \/ FreePages(z) + Taking(holders \ {t}) >= Floor(z, req[t])

\* kswapd does not sleep on a request for a larger order: a task that raises
\* kswapd_max_order after kswapd has cleared it finds kswapd on the queue.
NoSleepOnOrder ==
    pc[Kswapd] = "asleep" /\ onQueue /\ maxOrder > 0 => \E t \in Tasks : pc[t] = "rouse"

\* shrink_zone ends its scan of a zone.
ScanEnds == \A c \in Contexts : pc[c] = "shrink" ~> pc[c] # "shrink"
=============================================================================
