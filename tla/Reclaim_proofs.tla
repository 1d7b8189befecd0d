--------------------------- MODULE Reclaim_proofs ---------------------------
(****************************************************************************)
(* That the zones keep their reserve, though a watermark is tested and the  *)
(* block taken in different steps, and that kswapd does not sleep on a      *)
(* request for a larger order, though wakeup_kswapd and kswapd meet in      *)
(* kswapd_max_order and kswapd_wait without a lock.                         *)
(****************************************************************************)
EXTENDS Reclaim, FiniteSetTheorems, WellFoundedInduction, TLAPS

Labels == {"idle", "test", "take", "wake", "raise", "rouse", "reclaim", "scan", "shrink",
           "reclaimed", "prepare", "read", "clear", "asleep", "finish", "look"}

\* kswapd is not one of the tasks.
LEMMA Apart == Kswapd \in Contexts /\ \A t \in Tasks : t \in Contexts /\ t # Kswapd
BY ReclaimAssumption DEF Contexts

(****************************************************************************)
(* Types.                                                                   *)
(****************************************************************************)
\* Where every context is: one that works on a zone is at one.
Working == {"take", "raise", "rouse", "reclaim", "scan", "shrink"}

Placed ==
    /\ pc \in [Contexts -> Labels]
    /\ mark \in [Contexts -> {"low", "min", "any", "high"}]
    /\ zone \in [Contexts -> 0..NZones]
    /\ \A c \in Contexts : pc[c] \in Working => zone[c] # 0

TypeInv == TypeOK /\ Placed

\* What the constants are, as the proofs use it.
LEMMA Constants ==
    /\ NZones \in Nat \ {0} /\ MaxOrder \in Nat /\ DefPriority \in Nat
    /\ SwapClusterMax \in Nat \ {0}
    /\ 1 \in Zones /\ NZones \in Zones /\ 0 \in Orders /\ 0 \in Shifts
    /\ \A o \in Orders : o \in Nat /\ o \in Shifts
    /\ \A z \in Zones : z \in 0..NZones /\ z # 0
    /\ \A z \in 0..NZones : z # 0 => z \in Zones
    /\ \A o \in Orders, k \in Int : o <= k /\ k <= MaxOrder => k \in Orders
    /\ \A n \in 0..DefPriority : n \in Shifts
    /\ \A n \in Shifts : n \in Nat /\ Size[n] \in Nat \ {0}
    /\ \A o \in Orders \ {0} : o - 1 \in Orders /\ Size[o] = 2 * Size[o - 1]
BY ReclaimAssumption DEF Zones, Orders, Shifts

\* What a request has.
LEMMA RequestTypes ==
    /\ NoRequest \in RequestType
    /\ \A r \in RequestType : r.order \in Orders /\ r.class \in Zones
BY Constants DEF RequestType, NoRequest

\* buffered_rmqueue and __free_pages leave counts.
LEMMA TakenType ==
    ASSUME NEW free \in [Orders -> Nat], NEW order \in Orders, NEW o \in Orders, free[o] > 0
    PROVE  Taken(free, order, o) \in [Orders -> Nat]
BY DEF Taken

\* A block that merges takes away only blocks that are there.
LEMMA MergedType ==
    ASSUME NEW free \in [Orders -> Nat], NEW order \in Orders, NEW o \in Orders,
           \A k \in order..(o - 1) : free[k] > 0
    PROVE  Merged(free, order, o) \in [Orders -> Nat]
BY Constants DEF Merged

\* At boot every variable has its type.
LEMMA TypeInit == Init => TypeInv
<1> SUFFICES ASSUME Init PROVE TypeInv
  OBVIOUS
<1>1. nrFree \in [Zones -> [Orders -> Nat]] /\ lru \in [Zones -> [active : Nat, inactive : Nat]]
  BY ReclaimAssumption DEF Init
<1>2. nrScan \in [Zones -> [active : 0..(SwapClusterMax - 1), inactive : 0..(SwapClusterMax - 1)]]
  BY Constants DEF Init
<1>3. /\ req \in [Contexts -> RequestType] /\ todo \in [Contexts -> [active : Nat, inactive : Nat]]
      /\ maxOrder \in Orders /\ newOrder \in Orders /\ onQueue \in BOOLEAN
  BY Constants, RequestTypes DEF Init
<1>4. /\ mark \in [Contexts -> {"low", "min", "any", "high"}] /\ zone \in [Contexts -> 0..NZones]
      /\ priority \in [Contexts -> 0..DefPriority] /\ held \in [Tasks -> 0..NZones]
      /\ pc \in [Contexts -> Labels]
      /\ \A c \in Contexts : pc[c] \in Working => zone[c] # 0
  BY Constants DEF Init, Working, Labels
<1> QED
  BY <1>1, <1>2, <1>3, <1>4 DEF TypeInv, TypeOK, Placed

\* One context goes to another label, zone and mark.
LEMMA PlacedMoves ==
    ASSUME NEW c \in Contexts, Placed, NEW l \in Labels, NEW z \in 0..NZones,
           NEW m \in {"low", "min", "any", "high"}, l \in Working => z # 0,
           pc' = [pc EXCEPT ![c] = l], zone' = [zone EXCEPT ![c] = z],
           mark' = mark \/ mark' = [mark EXCEPT ![c] = m]
    PROVE  Placed'
BY DEF Placed

\* One label more, the zone as it was.
LEMMA PlacedGoto ==
    ASSUME NEW c \in Contexts, Placed, NEW l \in Labels, l \in Working => zone[c] # 0,
           Goto(c, l), UNCHANGED <<zone, mark>>
    PROVE  Placed'
BY DEF Placed, Goto

\* One zone down the list.
LEMMA PlacedNext ==
    ASSUME NEW t \in Contexts, Placed, zone[t] # 0, NextZone(t), UNCHANGED mark,
           \/ UNCHANGED pc /\ pc[t] \notin Working
           \/ \E l \in Labels \ Working : Goto(t, l)
    PROVE  Placed'
<1>1. zone[t] \in 1..NZones /\ zone[t] - 1 \in 0..NZones /\ pc[t] \in Labels
  BY Constants DEF Placed
<1>2. \E l \in Labels \ Working : pc' = [pc EXCEPT ![t] = l]
  BY <1>1 DEF Placed, Goto
<1> QED
  BY <1>1, <1>2 DEF Placed, NextZone

\* A pass begins at the zone of the request's class.
LEMMA PlacedPass ==
    ASSUME NEW t \in Tasks, TypeInv, NEW m \in {"low", "min", "any", "high"}, NEW l \in Labels,
           Pass(t, m, l)
    PROVE  Placed'
<1>1. t \in Contexts /\ req[t].class \in 0..NZones /\ req[t].class # 0
  BY Apart, RequestTypes, Constants DEF TypeInv, TypeOK
<1> QED
  BY <1>1, PlacedMoves DEF TypeInv, Pass, Goto

\* A call returns.
LEMMA PlacedReturn ==
    ASSUME NEW c \in Contexts, Placed, NEW l \in Labels \ Working, Return(c, l)
    PROVE  Placed'
<1>1. 1 \in 0..NZones /\ 1 # 0
  BY Constants
<1> QED
  BY <1>1, PlacedMoves DEF Return, Goto

\* The steps of a task in __alloc_pages that take and free nothing.
LEMMA TypeCall ==
    ASSUME NEW t \in Tasks, TypeInv,
           \/ Test(t) \/ TakeFails(t) \/ LowPassEnds(t) \/ WakesEnd(t) \/ MinPassEnds(t)
           \/ AnyPassEnds(t) \/ HighPassEnds(t) \/ ReclaimEnds(t)
    PROVE  TypeInv'
<1>1. t \in Contexts
  BY Apart
<1>2. Placed'
  <2>1. CASE Test(t)
    <3>1. pc[t] = "test" /\ zone[t] # 0 /\ UNCHANGED mark
      BY <2>1 DEF Test
    <3>2. CASE Goto(t, "take") /\ UNCHANGED zone
      BY <1>1, <3>1, <3>2, PlacedGoto DEF TypeInv, Labels
    <3>3. CASE NextZone(t) /\ UNCHANGED pc
      BY <1>1, <3>1, <3>3, PlacedNext DEF TypeInv, Working
    <3> QED
      BY <2>1, <3>2, <3>3 DEF Test
  <2>2. CASE TakeFails(t)
    <3>1. zone[t] # 0 /\ NextZone(t) /\ Goto(t, "test") /\ UNCHANGED mark
      BY <1>1, <2>2 DEF TakeFails, TypeInv, Placed, Working
    <3> QED
      BY <1>1, <3>1, PlacedNext DEF TypeInv, Labels, Working
  <2>3. CASE LowPassEnds(t)
    BY <2>3, PlacedPass DEF LowPassEnds, Labels
  <2>4. CASE WakesEnd(t)
    BY <2>4, PlacedPass DEF WakesEnd, Labels
  <2>5. CASE MinPassEnds(t)
    <3>1. Pass(t, "any", "test") \/ Return(t, "idle") \/ Pass(t, "min", "reclaim")
      BY <2>5 DEF MinPassEnds
    <3> QED
      BY <1>1, <3>1, PlacedPass, PlacedReturn DEF TypeInv, Labels, Working
  <2>6. CASE AnyPassEnds(t)
    BY <1>1, <2>6, PlacedReturn DEF AnyPassEnds, TypeInv, Labels, Working
  <2>7. CASE HighPassEnds(t)
    BY <2>7, PlacedPass DEF HighPassEnds, Labels
  <2>8. CASE ReclaimEnds(t)
    <3>1. Pass(t, "high", "test") \/ Pass(t, "min", "reclaim") \/ Return(t, "idle")
      BY <2>8 DEF ReclaimEnds
    <3> QED
      BY <1>1, <3>1, PlacedPass, PlacedReturn DEF TypeInv, Labels, Working
  <2> QED
    BY <2>1, <2>2, <2>3, <2>4, <2>5, <2>6, <2>7, <2>8
<1>3. UNCHANGED <<nrFree, maxOrder, onQueue, newOrder, lru, nrScan, todo, req, priority, held>>
  BY DEF Test, TakeFails, LowPassEnds, WakesEnd, MinPassEnds, AnyPassEnds, HighPassEnds,
         ReclaimEnds, kswapdVars, lruVars
<1> QED
  BY <1>2, <1>3 DEF TypeInv, TypeOK, Placed

\* The steps of wakeup_kswapd.
LEMMA TypeWake ==
    ASSUME NEW t \in Tasks, TypeInv, WakeupKswapd(t) \/ RaiseOrder(t) \/ Rouse(t)
    PROVE  TypeInv'
<1>1. t \in Contexts
  BY Apart
<1>2. req[t].order \in Orders
  BY <1>1, RequestTypes DEF TypeInv, TypeOK
<1>3. CASE WakeupKswapd(t)
  <2>1. pc[t] = "wake" /\ zone[t] # 0 /\ UNCHANGED mark
    BY <1>3 DEF WakeupKswapd
  <2>2. \/ NextZone(t) /\ UNCHANGED pc
        \/ UNCHANGED zone /\ (Goto(t, "raise") \/ Goto(t, "rouse"))
    BY <1>3 DEF WakeupKswapd
  <2>3. Placed'
    BY <1>1, <2>1, <2>2, PlacedNext, PlacedGoto DEF TypeInv, Labels, Working
  <2> QED
    BY <1>3, <2>3 DEF WakeupKswapd, TypeInv, TypeOK, Placed, kswapdVars, lruVars
<1>4. CASE RaiseOrder(t)
  <2>1. zone[t] # 0
    BY <1>1, <1>4 DEF RaiseOrder, TypeInv, Placed, Working
  <2>2. Placed'
    BY <1>1, <1>4, <2>1, PlacedGoto DEF RaiseOrder, TypeInv, Labels
  <2> QED
    BY <1>2, <1>4, <2>2 DEF RaiseOrder, TypeInv, TypeOK, Placed, lruVars
<1>5. CASE Rouse(t)
  <2>1. zone[t] # 0
    BY <1>1, <1>5 DEF Rouse, TypeInv, Placed, Working
  <2>2. Placed'
    BY <1>1, <1>5, <2>1, PlacedNext DEF Rouse, TypeInv, Labels, Working
  <2> QED
    BY <1>5, <2>2 DEF Rouse, TypeInv, TypeOK, Placed, lruVars
<1> QED
  BY <1>3, <1>4, <1>5

\* A call of __alloc_pages.
LEMMA TypeAlloc ==
    ASSUME NEW t \in Tasks, TypeInv, NEW r \in Requests, Alloc(t, r)
    PROVE  TypeInv'
<1>1. t \in Contexts /\ r \in RequestType /\ r.class \in 0..NZones /\ r.class # 0
  BY Apart, RequestTypes, Constants, ReclaimAssumption
<1>2. Placed'
  BY <1>1, PlacedMoves DEF Alloc, Goto, TypeInv, Labels
<1> QED
  BY <1>1, <1>2 DEF Alloc, TypeInv, TypeOK, Placed, kswapdVars, lruVars

\* buffered_rmqueue leaves no count below zero.
LEMMA TypeTake ==
    ASSUME NEW t \in Tasks, TypeInv, NEW o \in Orders, Take(t, o)
    PROVE  TypeInv'
<1>1. t \in Contexts /\ req[t].order \in Orders /\ zone[t] \in Zones
  <2>1. t \in Contexts
    BY Apart
  <2>2. zone[t] \in 0..NZones /\ zone[t] # 0
    BY <2>1 DEF Take, TypeInv, Placed, Working
  <2> QED
    BY <2>1, <2>2, Constants, RequestTypes DEF TypeInv, TypeOK
<1>2. Placed'
  BY <1>1, PlacedReturn DEF Take, TypeInv, Labels, Working
<1>3. nrFree' \in [Zones -> [Orders -> Nat]]
  <2>1. Taken(nrFree[zone[t]], req[t].order, o) \in [Orders -> Nat]
    <3>1. nrFree[zone[t]] \in [Orders -> Nat] /\ nrFree[zone[t]][o] > 0
      BY <1>1 DEF Take, FirstFit, TypeInv, TypeOK
    <3> QED
      BY <1>1, <3>1, TakenType
  <2>2. nrFree' = [nrFree EXCEPT ![zone[t]] = Taken(nrFree[zone[t]], req[t].order, o)]
    BY DEF Take
  <2> QED
    BY <1>1, <2>1, <2>2 DEF TypeInv, TypeOK
<1>4. held' \in [Tasks -> 0..NZones]
  BY <1>1, Constants DEF Take, TypeInv, TypeOK, Zones
<1> QED
  BY <1>2, <1>3, <1>4 DEF Take, TypeInv, TypeOK, Placed, kswapdVars, lruVars

\* Nor does __free_pages.
LEMMA TypeFree ==
    ASSUME NEW t \in Tasks, TypeInv, Free(t)
    PROVE  TypeInv'
<1>1. t \in Contexts /\ req[t].order \in Orders /\ held[t] \in Zones
  BY Apart, Constants, RequestTypes DEF Free, TypeInv, TypeOK
<1>2. PICK o \in req[t].order..MaxOrder :
        /\ \A k \in req[t].order..(o - 1) : nrFree[held[t]][k] > 0
        /\ nrFree' = [nrFree EXCEPT ![held[t]] = Merged(nrFree[held[t]], req[t].order, o)]
  BY DEF Free
<1>3. Merged(nrFree[held[t]], req[t].order, o) \in [Orders -> Nat]
  <2>1. o \in Orders /\ nrFree[held[t]] \in [Orders -> Nat]
    BY <1>1, Constants DEF TypeInv, TypeOK
  <2> QED
    BY <1>1, <1>2, <2>1, MergedType
<1>4. nrFree' \in [Zones -> [Orders -> Nat]]
  BY <1>1, <1>2, <1>3 DEF TypeInv, TypeOK
<1>5. held' \in [Tasks -> 0..NZones]
  BY Constants DEF Free, TypeInv, TypeOK
<1> QED
  BY <1>4, <1>5 DEF Free, TypeInv, TypeOK, Placed, kswapdVars, lruVars

\* shrink_zone.
LEMMA ShareType ==
    ASSUME TypeInv, NEW c \in Contexts, zone[c] # 0, NEW l \in {"active", "inactive"}
    PROVE  Share(zone[c], c, l) \in Nat
<1>1. zone[c] \in Zones /\ priority[c] \in Shifts
  <2>1. zone[c] \in 0..NZones /\ priority[c] \in 0..DefPriority
    BY DEF TypeInv, TypeOK
  <2> QED
    BY <2>1, Constants
<1>2. nrScan[zone[c]][l] \in Nat /\ lru[zone[c]][l] \in Nat /\ Size[priority[c]] \in Nat \ {0}
  <2>1. nrScan[zone[c]][l] \in 0..(SwapClusterMax - 1)
    BY <1>1 DEF TypeInv, TypeOK
  <2>2. lru[zone[c]][l] \in Nat
    BY <1>1 DEF TypeInv, TypeOK
  <2> QED
    BY <1>1, <2>1, <2>2, Constants
<1> QED
  BY <1>2 DEF Share

LEMMA TypeShrink ==
    ASSUME NEW c \in Contexts, TypeInv, ShrinkZone(c) \/ ShrinkTurn(c)
    PROVE  TypeInv'
<1>1. zone[c] \in Zones /\ zone[c] # 0
  <2>1. zone[c] \in 0..NZones /\ zone[c] # 0
    BY DEF ShrinkZone, ShrinkTurn, TypeInv, Placed, Working
  <2> QED
    BY <2>1, Constants
<1>2. CASE ShrinkZone(c)
  <2>1. ASSUME NEW l \in {"active", "inactive"}
        PROVE  /\ (IF UsedUp(zone[c], c, l) THEN 0 ELSE Share(zone[c], c, l)) \in 0..(SwapClusterMax - 1)
               /\ (IF UsedUp(zone[c], c, l) THEN Share(zone[c], c, l) ELSE 0) \in Nat
    BY <1>1, ShareType, Constants DEF UsedUp
  <2>2. [l \in {"active", "inactive"} |-> IF UsedUp(zone[c], c, l) THEN 0 ELSE Share(zone[c], c, l)]
          \in [active : 0..(SwapClusterMax - 1), inactive : 0..(SwapClusterMax - 1)]
    BY <2>1
  <2>3. [l \in {"active", "inactive"} |-> IF UsedUp(zone[c], c, l) THEN Share(zone[c], c, l) ELSE 0]
          \in [active : Nat, inactive : Nat]
    BY <2>1
  <2>4. /\ nrScan' \in [Zones -> [active : 0..(SwapClusterMax - 1), inactive : 0..(SwapClusterMax - 1)]]
        /\ todo' \in [Contexts -> [active : Nat, inactive : Nat]]
    BY <1>1, <1>2, <2>2, <2>3 DEF ShrinkZone, TypeInv, TypeOK
  <2>5. Placed'
    BY <1>1, <1>2, PlacedGoto DEF ShrinkZone, TypeInv, Labels
  <2> QED
    BY <1>2, <2>4, <2>5 DEF ShrinkZone, TypeInv, TypeOK, Placed, kswapdVars
<1>3. CASE ShrinkTurn(c)
  <2> DEFINE n == Least(todo[c].active, SwapClusterMax)
  <2>1. todo[c] \in [active : Nat, inactive : Nat] /\ lru[zone[c]] \in [active : Nat, inactive : Nat]
    BY <1>1 DEF TypeInv, TypeOK
  <2>2. n \in Nat /\ n <= todo[c].active /\ Least(n, lru[zone[c]].active) \in Nat
        /\ Least(n, lru[zone[c]].active) <= lru[zone[c]].active
    BY <2>1, Constants DEF Least
  <2>3. todo' = [todo EXCEPT ![c].active = todo[c].active - n]
        /\ lru' = [lru EXCEPT ![zone[c]].active = lru[zone[c]].active - Least(n, lru[zone[c]].active)]
    BY <1>3 DEF ShrinkTurn
  <2>4. /\ todo' \in [Contexts -> [active : Nat, inactive : Nat]]
        /\ lru' \in [Zones -> [active : Nat, inactive : Nat]]
    <3> HIDE DEF n
    <3> QED
      BY <1>1, <2>1, <2>2, <2>3 DEF TypeInv, TypeOK
  <2> QED
    BY <1>3, <2>4 DEF ShrinkTurn, TypeInv, TypeOK, Placed, kswapdVars
<1> QED
  BY <1>2, <1>3

\* Direct reclaim between the zones it shrinks.
LEMMA TypeReclaim ==
    ASSUME NEW t \in Tasks, TypeInv, TryToFreePages(t) \/ ShrunkTask(t)
    PROVE  TypeInv'
<1>1. t \in Contexts /\ req[t].class \in 0..NZones /\ req[t].class # 0
  BY Apart, RequestTypes, Constants DEF TypeInv, TypeOK
<1>2. zone[t] \in 0..NZones /\ zone[t] # 0 /\ priority[t] \in 0..DefPriority
  BY <1>1 DEF TryToFreePages, ShrunkTask, ShrinkEnds, TypeInv, TypeOK, Placed, Working
<1>3. priority' \in [Contexts -> 0..DefPriority]
  <2>1. DefPriority \in 0..DefPriority /\ (priority[t] > 0 => priority[t] - 1 \in 0..DefPriority)
    BY <1>2, Constants
  <2>2. \/ priority' = priority \/ priority' = [priority EXCEPT ![t] = DefPriority]
        \/ priority[t] > 0 /\ priority' = [priority EXCEPT ![t] = priority[t] - 1]
    BY DEF TryToFreePages, ShrunkTask
  <2> QED
    BY <1>1, <2>1, <2>2 DEF TypeInv, TypeOK
<1>4. Placed'
  <2>1. CASE TryToFreePages(t)
    BY <1>1, <1>2, <2>1, PlacedGoto DEF TryToFreePages, TypeInv, Labels
  <2>2. CASE ShrunkTask(t)
    <3>1. \/ Goto(t, "reclaimed") /\ UNCHANGED zone
          \/ Goto(t, "scan") /\ zone' = [zone EXCEPT ![t] = req[t].class]
          \/ Goto(t, "scan") /\ zone' = [zone EXCEPT ![t] = zone[t] - 1] /\ zone[t] > 1
      BY <2>2 DEF ShrunkTask, NextZone
    <3>2. UNCHANGED mark
      BY <2>2 DEF ShrunkTask
    <3>3. zone[t] > 1 => zone[t] - 1 \in 0..NZones /\ zone[t] - 1 # 0
      BY <1>2, Constants
    <3> QED
      BY <1>1, <1>2, <3>1, <3>2, <3>3, PlacedMoves, PlacedGoto DEF Goto, TypeInv, Labels, Working
  <2> QED
    BY <2>1, <2>2
<1> QED
  BY <1>3, <1>4 DEF TryToFreePages, ShrunkTask, TypeInv, TypeOK, Placed, kswapdVars, lruVars

\* kswapd between the scans.
LEMMA TypeDaemon ==
    ASSUME TypeInv,
           Prepare \/ ReadOrder \/ ClearOrder \/ Awake \/ FinishWait \/ Look \/ ShrunkKswapd
    PROVE  TypeInv'
<1> DEFINE k == Kswapd
<1>1. /\ k \in Contexts /\ zone[k] \in 0..NZones /\ priority[k] \in 0..DefPriority
      /\ req[k] \in RequestType /\ req[k].class \in Zones
  BY Apart, RequestTypes DEF TypeInv, TypeOK
<1>2. \A o \in Orders : [req[k] EXCEPT !.order = o] \in RequestType
  BY <1>1 DEF RequestType
<1>3. \A z \in Zones : [req[k] EXCEPT !.class = z] \in RequestType
  BY <1>1 DEF RequestType
<1>4. \A o \in Orders : [req EXCEPT ![k].order = o] \in [Contexts -> RequestType]
  BY <1>1, <1>2 DEF TypeInv, TypeOK
<1>5. \A z \in Zones : [req EXCEPT ![k].class = z] \in [Contexts -> RequestType]
  BY <1>1, <1>3 DEF TypeInv, TypeOK
<1>6. CASE Prepare
  <2>1. Placed'
    BY <1>1, <1>6, PlacedGoto DEF Prepare, TypeInv, Labels, Working
  <2> QED
    BY <1>6, <2>1 DEF Prepare, TypeInv, TypeOK, Placed, lruVars
<1>7. CASE ReadOrder
  <2>1. Placed'
    BY <1>1, <1>7, PlacedGoto DEF ReadOrder, TypeInv, Labels, Working
  <2> QED
    BY <1>7, <2>1 DEF ReadOrder, TypeInv, TypeOK, Placed, lruVars
<1>8. CASE ClearOrder
  <2>1. Goto(k, "finish") \/ Goto(k, "asleep")
    BY <1>8 DEF ClearOrder
  <2>2. Placed'
    BY <1>1, <1>8, <2>1, PlacedGoto DEF ClearOrder, TypeInv, Labels, Working
  <2>3. req' \in [Contexts -> RequestType]
    BY <1>4, <1>8 DEF ClearOrder, TypeInv, TypeOK
  <2> QED
    BY <1>8, <2>2, <2>3, Constants DEF ClearOrder, TypeInv, TypeOK, Placed, lruVars
<1>9. CASE Awake
  <2>1. Placed'
    BY <1>1, <1>9, PlacedGoto DEF Awake, TypeInv, Labels, Working
  <2>2. req' \in [Contexts -> RequestType]
    BY <1>4, <1>9 DEF Awake, TypeInv, TypeOK
  <2> QED
    BY <1>9, <2>1, <2>2 DEF Awake, TypeInv, TypeOK, Placed, kswapdVars, lruVars
<1>10. CASE FinishWait
  <2>1. NZones \in 0..NZones
    BY Constants
  <2>2. Placed'
    BY <1>1, <1>10, <2>1, PlacedMoves DEF FinishWait, Goto, TypeInv, Labels, Working
  <2>3. priority' \in [Contexts -> 0..DefPriority]
    BY <1>1, <1>10, Constants DEF FinishWait, TypeInv, TypeOK
  <2> QED
    BY <1>10, <2>2, <2>3 DEF FinishWait, TypeInv, TypeOK, Placed, lruVars
<1>11. CASE Look
  <2>1. pc[k] = "look"
    BY <1>11 DEF Look
  <2>2. \/ Return(k, "prepare") /\ UNCHANGED req
        \/ zone[k] # 0 /\ NextZone(k) /\ UNCHANGED <<pc, mark, req>>
        \/ /\ zone[k] # 0 /\ req' = [req EXCEPT ![k].class = zone[k]]
           /\ zone' = [zone EXCEPT ![k] = 1] /\ Goto(k, "scan") /\ UNCHANGED mark
    BY <1>11 DEF Look
  <2>3. Placed'
    <3>1. 1 \in 0..NZones /\ 1 # 0
      BY Constants
    <3> QED
      BY <1>1, <2>1, <2>2, <3>1, PlacedReturn, PlacedNext, PlacedMoves DEF Goto, TypeInv, Labels, Working
  <2>4. req' \in [Contexts -> RequestType]
    BY <1>1, <1>5, <2>2, Constants DEF TypeInv, TypeOK
  <2> QED
    BY <1>11, <2>3, <2>4 DEF Look, TypeInv, TypeOK, Placed, kswapdVars, lruVars
<1>12. CASE ShrunkKswapd
  <2>1. \/ zone[k] < req[k].class /\ zone' = [zone EXCEPT ![k] = zone[k] + 1] /\ Goto(k, "scan")
        \/ zone' = [zone EXCEPT ![k] = NZones] /\ Goto(k, "look")
        \/ zone' = [zone EXCEPT ![k] = 1] /\ Goto(k, "prepare")
    BY <1>12 DEF ShrunkKswapd
  <2>2. /\ zone[k] < req[k].class => zone[k] + 1 \in 0..NZones /\ zone[k] + 1 # 0
        /\ NZones \in 0..NZones /\ 1 \in 0..NZones
    BY <1>1, Constants DEF Zones
  <2>3. UNCHANGED mark
    BY <1>12 DEF ShrunkKswapd
  <2>4. Placed'
    BY <1>1, <2>1, <2>2, <2>3, PlacedMoves DEF Goto, TypeInv, Labels, Working
  <2>5. priority' \in [Contexts -> 0..DefPriority]
    BY <1>1, <1>12, Constants DEF ShrunkKswapd, TypeInv, TypeOK
  <2> QED
    BY <1>12, <2>4, <2>5 DEF ShrunkKswapd, TypeInv, TypeOK, Placed, kswapdVars, lruVars
<1> QED
  BY <1>6, <1>7, <1>8, <1>9, <1>10, <1>11, <1>12

\* The types are inductive.
LEMMA TypeStep == TypeInv /\ [Next]_vars => TypeInv'
<1> SUFFICES ASSUME TypeInv, [Next]_vars PROVE TypeInv'
  OBVIOUS
<1>1. CASE UNCHANGED vars
  BY <1>1 DEF vars, TypeInv, TypeOK, Placed
<1>2. CASE Daemon
  BY <1>1, <1>2, Apart, TypeDaemon, TypeShrink DEF Daemon, Shrink, ShrinkSpin
<1>3. ASSUME NEW t \in Tasks, NEW r \in Requests, Alloc(t, r) PROVE TypeInv'
  BY <1>3, TypeAlloc
<1>4. ASSUME NEW t \in Tasks, Free(t) PROVE TypeInv'
  BY <1>4, TypeFree
<1>5. ASSUME NEW t \in Tasks, Continue(t) PROVE TypeInv'
  BY <1>1, <1>5, Apart, TypeCall, TypeTake, TypeWake, TypeReclaim, TypeShrink
     DEF Continue, Shrink, ShrinkSpin
<1> QED
  BY <1>1, <1>2, <1>3, <1>4, <1>5 DEF Next

\* Every variable keeps its type.
THEOREM TypeCorrect == Spec => []TypeOK
<1>1. Init => TypeInv
  BY TypeInit
<1>2. TypeInv /\ [Next]_vars => TypeInv'
  BY TypeStep
<1>3. TypeInv => TypeOK
  BY DEF TypeInv
<1> QED
  BY <1>1, <1>2, <1>3, PTL DEF Spec

\* Every set of numbers has a least element.
LEMMA LeastElement ==
    ASSUME NEW S, S \subseteq Nat, S # {}
    PROVE  \E m \in S : \A k \in S : m <= k
<1>1. PICK m \in S : \A k \in S : ~ (<<k, m>> \in OpToRel(<, Nat))
  BY NatLessThanWellFounded, WFMin
<1>2. \A k \in S : ~(k < m)
  BY <1>1, Zenon DEF OpToRel
<1> QED
  BY <1>2

(****************************************************************************)
(* Sums.                                                                    *)
(****************************************************************************)
\* What a sum counts.
Counted(f, S) == UNION {{x} \X (1..f[x]) : x \in S}

\* What is in a sum's count.
LEMMA CountedElement ==
    ASSUME NEW S, NEW f, NEW e
    PROVE  e \in Counted(f, S) <=> \E x \in S : e \in {x} \X (1..f[x])
BY DEF Counted

\* A sum is a number, and what it counts is finite.
LEMMA SumType ==
    ASSUME NEW S, IsFiniteSet(S), NEW f, \A x \in S : f[x] \in Nat
    PROVE  IsFiniteSet(Counted(f, S)) /\ SumOver(f, S) \in Nat
<1> DEFINE Col(x) == {x} \X (1..f[x])
           Cols == {Col(x) : x \in S}
<1>1. ASSUME NEW x \in S PROVE IsFiniteSet(Col(x))
  <2>1. 1 \in Int /\ f[x] \in Int
    OBVIOUS
  <2>2. IsFiniteSet(1..f[x])
    BY <2>1, FS_Interval
  <2>3. IsFiniteSet({x})
    BY FS_Singleton
  <2> QED
    BY <2>2, <2>3, FS_Product
<1>2. IsFiniteSet(Cols)
  <2> DEFINE col == [x \in S |-> Col(x)]
  <2>1. col \in Surjection(S, Cols)
    <3> HIDE DEF Col
    <3> QED
      BY DEF Surjection
  <2> HIDE DEF col, Cols
  <2> QED
    BY <2>1, FS_Surjection
<1>3. IsFiniteSet(UNION Cols)
  <2>1. \A T \in Cols : IsFiniteSet(T)
    <3> HIDE DEF Col
    <3> QED
      BY <1>1
  <2> HIDE DEF Cols
  <2> QED
    BY <1>2, <2>1, FS_UNION
<1> QED
  BY <1>3, FS_CardinalityType DEF Counted, SumOver

\* The sum with one element more.
LEMMA SumAdd ==
    ASSUME NEW S, IsFiniteSet(S), NEW y, y \notin S, NEW f, \A x \in S \cup {y} : f[x] \in Nat
    PROVE  SumOver(f, S \cup {y}) = SumOver(f, S) + f[y]
<1> DEFINE col == {y} \X (1..f[y])
<1>1. IsFiniteSet(col) /\ Cardinality(col) = f[y]
  <2>1. 1 \in Int /\ f[y] \in Int /\ f[y] \in Nat
    OBVIOUS
  <2>2. IsFiniteSet(1..f[y]) /\ Cardinality(1..f[y]) = f[y]
    BY <2>1, FS_Interval
  <2>3. IsFiniteSet({y}) /\ Cardinality({y}) = 1
    BY FS_Singleton
  <2>4. IsFiniteSet(col) /\ Cardinality(col) = Cardinality({y}) * Cardinality(1..f[y])
    BY <2>2, <2>3, FS_Product
  <2> QED
    BY <2>1, <2>2, <2>3, <2>4
<1>2. Counted(f, S \cup {y}) = Counted(f, S) \cup col
  BY CountedElement
<1>3. Counted(f, S) \cap col = {}
  BY CountedElement
<1>4. IsFiniteSet(Counted(f, S)) /\ SumOver(f, S) \in Nat
  BY SumType
<1>5. /\ SumOver(f, S) = Cardinality(Counted(f, S))
      /\ SumOver(f, S \cup {y}) = Cardinality(Counted(f, S) \cup col)
  BY <1>2 DEF SumOver, Counted
<1>6. Cardinality(Counted(f, S) \cup col)
        = Cardinality(Counted(f, S)) + Cardinality(col) - Cardinality(Counted(f, S) \cap col)
  <2> HIDE DEF col
  <2> QED
    BY <1>1, <1>4, FS_Union
<1>7. Cardinality({}) = 0
  BY FS_EmptySet
<1> HIDE DEF col
<1>8. f[y] \in Nat
  OBVIOUS
<1>9. Cardinality(Counted(f, S) \cup col) = SumOver(f, S) + f[y] - 0
  BY <1>1, <1>3, <1>5, <1>6, <1>7
<1> QED
  BY <1>4, <1>5, <1>8, <1>9

\* The sum depends on the terms.
LEMMA SumSame ==
    ASSUME NEW S, NEW f, NEW g, \A x \in S : f[x] = g[x]
    PROVE  SumOver(f, S) = SumOver(g, S)
<1>1. \A e : e \in Counted(f, S) <=> e \in Counted(g, S)
  BY CountedElement
<1> QED
  BY <1>1 DEF SumOver, Counted

\* The sum when one term is another.
LEMMA SumExcept ==
    ASSUME NEW S, IsFiniteSet(S), NEW y \in S, NEW f, NEW g,
           \A x \in S : f[x] \in Nat /\ g[x] \in Nat, \A x \in S \ {y} : f[x] = g[x]
    PROVE  SumOver(g, S) = SumOver(f, S) + g[y] - f[y]
<1> DEFINE R == S \ {y}
<1>1. IsFiniteSet(R) /\ S = R \cup {y} /\ y \notin R
  BY FS_RemoveElement
<1>2. SumOver(f, R) = SumOver(g, R)
  BY SumSame
<1>3. SumOver(f, R) \in Nat
  <2> HIDE DEF R
  <2>1. \A x \in R : f[x] \in Nat
    BY DEF R
  <2> QED
    BY <1>1, <2>1, SumType
<1>4. SumOver(f, S) = SumOver(f, R) + f[y] /\ SumOver(g, S) = SumOver(g, R) + g[y]
  <2>1. \A x \in R \cup {y} : f[x] \in Nat /\ g[x] \in Nat
    OBVIOUS
  <2> HIDE DEF R
  <2> QED
    BY <1>1, <2>1, SumAdd
<1> QED
  BY <1>2, <1>3, <1>4

(****************************************************************************)
(* The pages of a zone.                                                     *)
(****************************************************************************)
\* The pages that a zone has free in each order.
Frames(free) == [o \in Orders |-> free[o] * Size[o]]

\* The pages of a zone are a sum over the orders.
LEMMA PagesSum ==
    ASSUME NEW free \in [Orders -> Nat]
    PROVE  /\ PagesIn(free, Orders) = SumOver(Frames(free), Orders)
           /\ \A o \in Orders : Frames(free)[o] = free[o] * Size[o] /\ Frames(free)[o] \in Nat
           /\ PagesIn(free, Orders) \in Nat
           /\ IsFiniteSet(Orders)
<1>1. \A o \in Orders : Frames(free)[o] = free[o] * Size[o] /\ Frames(free)[o] \in Nat
  BY Constants DEF Frames
<1>2. IsFiniteSet(Orders)
  <2>1. 0 \in Int /\ MaxOrder \in Int
    BY Constants
  <2> QED
    BY <2>1, FS_Interval DEF Orders
<1>3. PagesIn(free, Orders) = SumOver(Frames(free), Orders)
  BY DEF PagesIn, Frames
<1> QED
  BY <1>1, <1>2, <1>3, SumType

\* A block more or less of one order.
LEMMA OneOrder ==
    ASSUME NEW free \in [Orders -> Nat], NEW more \in [Orders -> Nat], NEW o \in Orders,
           more[o] = free[o] + 1, \A k \in Orders \ {o} : more[k] = free[k]
    PROVE  PagesIn(more, Orders) = PagesIn(free, Orders) + Size[o]
<1>1. Size[o] \in Nat
  BY Constants
<1>2. Frames(more)[o] = Frames(free)[o] + Size[o] /\ \A k \in Orders \ {o} : Frames(free)[k] = Frames(more)[k]
  <2>1. free[o] \in Nat /\ (free[o] + 1) * Size[o] = free[o] * Size[o] + Size[o]
    BY <1>1
  <2> QED
    BY <2>1, PagesSum
<1>3. SumOver(Frames(more), Orders)
        = SumOver(Frames(free), Orders) + Frames(more)[o] - Frames(free)[o]
  BY PagesSum, SumExcept
<1> QED
  BY <1>1, <1>2, <1>3, PagesSum

\* A block that is split leaves the zone all its pages but those of the block it gives.
LEMMA TakenPages ==
    ASSUME NEW free \in [Orders -> Nat], NEW order \in Orders, NEW o \in Orders,
           order <= o, free[o] > 0
    PROVE  PagesIn(free, Orders) = PagesIn(Taken(free, order, o), Orders) + Size[order]
<1> DEFINE Off(k) == PagesIn(free, Orders) = PagesIn(Taken(free, k, o), Orders) + Size[k]
           Bad == {n \in 0..(o - order) : ~Off(o - n)}
<1>1. order \in Nat /\ o \in Nat /\ o <= MaxOrder /\ \A k \in order..o : k \in Orders /\ k \in Nat
  BY Constants DEF Orders
<1>2. ASSUME NEW k \in order..o PROVE Taken(free, k, o) \in [Orders -> Nat]
  BY <1>1, TakenType
<1>3. Off(o)
  <2>1. Taken(free, o, o) \in [Orders -> Nat]
    BY <1>1, <1>2
  <2>2. free[o] = Taken(free, o, o)[o] + 1 /\ \A k \in Orders \ {o} : free[k] = Taken(free, o, o)[k]
    BY <1>1, Constants DEF Taken
  <2> QED
    BY <2>1, <2>2, OneOrder
<1>4. ASSUME NEW k \in order..o, k > order, Off(k) PROVE Off(k - 1)
  <2>1. PICK j : j = k - 1
    OBVIOUS
  <2>2. j \in order..o /\ j \in Orders /\ k = j + 1 /\ k \in Orders /\ j < o
    BY <1>1, <1>4, <2>1
  <2>3. Taken(free, j, o) \in [Orders -> Nat] /\ Taken(free, k, o) \in [Orders -> Nat]
    BY <1>2, <2>2
  <2>4. /\ Taken(free, j, o)[j] = Taken(free, k, o)[j] + 1
        /\ \A i \in Orders \ {j} : Taken(free, j, o)[i] = Taken(free, k, o)[i]
    BY <1>1, <2>2, Constants DEF Taken
  <2>5. PagesIn(Taken(free, j, o), Orders) = PagesIn(Taken(free, k, o), Orders) + Size[j]
    BY <2>2, <2>3, <2>4, OneOrder
  <2>6. Size[k] = 2 * Size[j] /\ Size[j] \in Nat /\ Size[k] \in Nat
    BY <1>4, <2>1, <2>2, Constants
  <2>7. PagesIn(Taken(free, j, o), Orders) \in Nat /\ PagesIn(Taken(free, k, o), Orders) \in Nat
    BY <2>3, PagesSum
  <2>8. PagesIn(free, Orders) = PagesIn(Taken(free, k, o), Orders) + Size[k]
    BY <1>4
  <2>9. PagesIn(free, Orders) = PagesIn(Taken(free, j, o), Orders) + Size[j]
    BY <2>5, <2>6, <2>7, <2>8
  <2> QED
    BY <2>1, <2>9
<1>5. Bad = {}
  <2>1. SUFFICES ASSUME Bad # {} PROVE FALSE
    OBVIOUS
  <2>2. Bad \subseteq Nat
    BY <1>1
  <2>3. PICK n \in Bad : \A i \in Bad : n <= i
    <3> HIDE DEF Bad
    <3> QED
      BY <2>1, <2>2, LeastElement
  <2>4. n \in 0..(o - order) /\ ~Off(o - n)
    OBVIOUS
  <2>5. n # 0
    BY <1>1, <1>3, <2>4
  <2>6. n - 1 \in 0..(o - order) /\ ~(n <= n - 1)
    BY <1>1, <2>4, <2>5
  <2>7. n - 1 \notin Bad
    <3> HIDE DEF Bad
    <3> QED
      BY <2>3, <2>6
  <2>8. Off(o - (n - 1))
    <3> HIDE DEF Off
    <3> QED
      BY <2>6, <2>7
  <2>9. o - (n - 1) \in order..o /\ o - (n - 1) > order /\ (o - (n - 1)) - 1 = o - n
    BY <1>1, <2>4, <2>5
  <2>10. PICK k : k = o - (n - 1)
    OBVIOUS
  <2> HIDE DEF Off, Bad
  <2>11. Off(k) /\ k \in order..o /\ k > order /\ k - 1 = o - n
    BY <2>8, <2>9, <2>10
  <2>12. Off(k - 1)
    BY <1>4, <2>11
  <2> QED
    BY <2>4, <2>11, <2>12
<1>6. Off(order)
  <2>1. o - order \in 0..(o - order) /\ o - (o - order) = order
    BY <1>1
  <2> HIDE DEF Off
  <2> QED
    BY <1>5, <2>1
<1> QED
  BY <1>6

\* A block that is freed brings its pages, whatever it merges with.
LEMMA MergedPages ==
    ASSUME NEW free \in [Orders -> Nat], NEW order \in Orders, NEW o \in Orders,
           order <= o, \A k \in order..(o - 1) : free[k] > 0
    PROVE  PagesIn(Merged(free, order, o), Orders) = PagesIn(free, Orders) + Size[order]
<1> DEFINE more == Merged(free, order, o)
<1>1. more \in [Orders -> Nat]
  BY MergedType
<1>2. more[o] > 0 /\ Taken(more, order, o) = free
  <2>1. \A k \in Orders : /\ k = o => more[k] = free[k] + 1
                          /\ k # o /\ k \in order..(o - 1) => more[k] = free[k] - 1
                          /\ k # o /\ k \notin order..(o - 1) => more[k] = free[k]
    BY DEF Merged
  <2>2. \A k \in Orders : Taken(more, order, o)[k] = free[k]
    <3> HIDE DEF more
    <3> QED
      BY <1>1, <2>1, Constants DEF Taken
  <2>3. Taken(more, order, o) = [k \in Orders |-> Taken(more, order, o)[k]]
    <3> HIDE DEF more
    <3> QED
      BY DEF Taken
  <2> HIDE DEF more
  <2> QED
    BY <2>1, <2>2, <2>3
<1> HIDE DEF more
<1>3. PagesIn(more, Orders) = PagesIn(free, Orders) + Size[order]
  BY <1>1, <1>2, TakenPages
<1> QED
  BY <1>3 DEF more

(****************************************************************************)
(* The reserve.                                                             *)
(****************************************************************************)
\* What is free in a zone and what tasks hold of it.
Holders(z) == {t \in Tasks : held[t] = z}
Total(z) == FreePages(z) + Taking(Holders(z))

\* Zone z has the floor of t's request beyond the block of that request.
Spares(z, t) == Total(z) - Size[req[t].order] >= Floor(z, req[t])

\* A task that is about to take a block, or that holds one, leaves the zone the floor of its
\* request, all pages of the zone counted: no step changes their number.
FloorInv ==
    \A t \in Tasks :
        /\ held[t] # 0 => pc[t] = "idle"
        /\ mark[t] = "any" => Entitled(req[t])
        /\ held[t] # 0 => Entitled(req[t]) \/ Spares(held[t], t)
        /\ pc[t] = "take" => Entitled(req[t]) \/ Spares(zone[t], t)

\* What tasks hold is a number of pages.
LEMMA TakingType ==
    ASSUME TypeInv, NEW ts, ts \subseteq Tasks
    PROVE  /\ IsFiniteSet(ts) /\ Taking(ts) \in Nat
           /\ \A t \in Tasks : Size[req[t].order] \in Nat
<1>1. \A t \in Tasks : Size[req[t].order] \in Nat
  BY Apart, Constants, RequestTypes DEF TypeInv, TypeOK
<1>2. IsFiniteSet(ts)
  BY ReclaimAssumption, FS_Subset
<1> DEFINE blocks == [t \in Tasks |-> Size[req[t].order]]
<1>3. \A t \in ts : blocks[t] \in Nat
  BY <1>1
<1>4. SumOver(blocks, ts) \in Nat
  <2> HIDE DEF blocks
  <2> QED
    BY <1>2, <1>3, SumType
<1> QED
  BY <1>1, <1>2, <1>4 DEF Taking

\* One holder more.
LEMMA TakingAdd ==
    ASSUME TypeInv, NEW ts, ts \subseteq Tasks, NEW t \in Tasks \ ts
    PROVE  Taking(ts \cup {t}) = Taking(ts) + Size[req[t].order]
<1> DEFINE blocks == [u \in Tasks |-> Size[req[u].order]]
<1>1. \A u \in ts \cup {t} : blocks[u] \in Nat
  BY TakingType
<1>2. blocks[t] = Size[req[t].order]
  OBVIOUS
<1>3. Taking(ts) = SumOver(blocks, ts) /\ Taking(ts \cup {t}) = SumOver(blocks, ts \cup {t})
  BY DEF Taking
<1> HIDE DEF blocks
<1> QED
  BY <1>1, <1>2, <1>3, TakingType, SumAdd

\* What a zone has free is a number of pages.
LEMMA FreeType ==
    ASSUME TypeInv, NEW z \in Zones
    PROVE  FreePages(z) \in Nat /\ nrFree[z] \in [Orders -> Nat]
BY PagesSum DEF FreePages, TypeInv, TypeOK

\* A lowered mark is not above the mark, and pages_min not above pages_low and pages_high.
LEMMA LoweredBounds ==
    ASSUME NEW m \in Nat, NEW harder \in BOOLEAN, NEW high \in BOOLEAN
    PROVE  /\ Lowered(m, harder, high) \in Nat /\ Lowered(m, harder, high) <= m
           /\ Lowered(m, FALSE, FALSE) = m
           /\ (m * 5) \div 4 \in Nat /\ m <= (m * 5) \div 4
           /\ (m * 6) \div 4 \in Nat /\ m <= (m * 6) \div 4
<1>1. /\ m - m \div 2 \in Nat /\ m - m \div 2 <= m
      /\ m - m \div 4 \in Nat /\ m - m \div 4 <= m
      /\ (m - m \div 2) - (m - m \div 2) \div 4 \in Nat /\ (m - m \div 2) - (m - m \div 2) \div 4 <= m
  OBVIOUS
<1> QED
  BY <1>1 DEF Lowered

\* The test that a task passes shows the floor of its request.
LEMMA TestShows ==
    ASSUME TypeInv, FloorInv, NEW t \in Tasks, zone[t] # 0, MarkOk(t, zone[t])
    PROVE  Entitled(req[t]) \/ Spares(zone[t], t)
<1> DEFINE z == zone[t]
           r == req[t]
           low == Lowered(PagesMin[z], Harder(r), r.high)
           reserve == LowmemReserve[z][r.class]
<1>1. z \in Zones /\ r \in RequestType /\ r.class \in Zones /\ Size[r.order] \in Nat
  <2>1. zone[t] \in 0..NZones
    BY Apart DEF TypeInv, TypeOK
  <2> QED
    BY <2>1, Apart, Constants, RequestTypes, TakingType DEF TypeInv, TypeOK
<1>2. r.high \in BOOLEAN /\ Harder(r) \in BOOLEAN
  BY <1>1 DEF RequestType, Harder
<1>3. PagesMin[z] \in Nat /\ reserve \in Nat
  BY <1>1, ReclaimAssumption
<1>4. low \in Nat /\ low <= PagesMin[z] /\ PagesMin[z] <= PagesLow(z) /\ PagesMin[z] <= PagesHigh(z)
      /\ PagesLow(z) \in Nat /\ PagesHigh(z) \in Nat
  BY <1>2, <1>3, LoweredBounds DEF PagesLow, PagesHigh
<1>5. /\ Lowered(PagesLow(z), FALSE, FALSE) = PagesLow(z)
      /\ Lowered(PagesHigh(z), FALSE, FALSE) = PagesHigh(z)
  BY <1>4, LoweredBounds
<1>6. FreePages(z) \in Nat /\ Taking(Holders(z)) \in Nat
  BY <1>1, FreeType, TakingType DEF Holders
<1>7. CASE mark[t] = "any"
  BY <1>7 DEF FloorInv
<1>8. CASE mark[t] # "any"
  <2>1. mark[t] \in {"low", "min", "high"}
    BY <1>8, Apart DEF TypeInv, TypeOK
  <2>2. \/ mark[t] = "low" /\ WatermarkOk(z, r.order, PagesLow(z), r.class, FALSE, FALSE)
        \/ mark[t] = "min" /\ WatermarkOk(z, r.order, PagesMin[z], r.class, Harder(r), r.high)
        \/ mark[t] = "high" /\ WatermarkOk(z, r.order, PagesHigh(z), r.class, FALSE, FALSE)
    BY <2>1 DEF MarkOk
  <2>3. \/ FreePages(z) - Size[r.order] + 1 > PagesLow(z) + reserve
        \/ FreePages(z) - Size[r.order] + 1 > low + reserve
        \/ FreePages(z) - Size[r.order] + 1 > PagesHigh(z) + reserve
    BY <1>5, <2>2 DEF WatermarkOk
  <2> HIDE DEF low, reserve
  <2>4. FreePages(z) - Size[r.order] >= low + reserve
    BY <1>1, <1>3, <1>4, <1>6, <2>3
  <2>5. Total(z) - Size[r.order] >= low + reserve
    BY <1>1, <1>3, <1>4, <1>6, <2>4 DEF Total
  <2> QED
    BY <2>5 DEF Spares, Floor, low, reserve
<1> QED
  BY <1>7, <1>8

\* Nothing is taken or freed.
LEMMA TotalSame ==
    ASSUME NEW z \in Zones, UNCHANGED <<nrFree, held>>,
           \A t \in Tasks : held[t] # 0 => req'[t] = req[t]
    PROVE  Total(z)' = Total(z)
<1> DEFINE blocks == [t \in Tasks |-> Size[req[t].order]]
<1>1. PICK f : f = blocks
  OBVIOUS
<1>2. PICK g : g = blocks'
  OBVIOUS
<1>3. \A t \in Holders(z) : f[t] = g[t]
  BY <1>1, <1>2, Constants DEF Holders
<1>4. Taking(Holders(z)) = SumOver(f, Holders(z)) /\ Taking(Holders(z))' = SumOver(g, Holders(z))
  BY <1>1, <1>2 DEF Taking, Holders, SumOver
<1>5. SumOver(f, Holders(z)) = SumOver(g, Holders(z))
  BY <1>3, SumSame
<1>6. FreePages(z)' = FreePages(z)
  BY DEF FreePages
<1> QED
  BY <1>4, <1>5, <1>6 DEF Total

\* What a task takes or frees moves between the zone and its holders.
LEMMA TotalTake ==
    ASSUME NEW z \in Zones, TypeInv, FloorInv, TypeInv', NEW t \in Tasks, NEW o \in Orders, Take(t, o)
    PROVE  Total(z)' = Total(z)
<1>1. zone[t] \in Zones /\ held[t] = 0 /\ req[t].order \in Orders /\ Size[req[t].order] \in Nat
  <2>1. zone[t] \in 0..NZones /\ zone[t] # 0 /\ held[t] = 0
    BY Apart DEF Take, TypeInv, Placed, Working, FloorInv
  <2> QED
    BY <2>1, Apart, Constants, RequestTypes, TakingType DEF TypeInv, TypeOK
<1>2. req' = req
  BY DEF Take
<1>3. \A ts : Taking(ts)' = Taking(ts)
  BY <1>2 DEF Taking
<1>4. CASE z # zone[t]
  <2>1. Holders(z)' = Holders(z) /\ nrFree'[z] = nrFree[z]
    BY <1>1, <1>4, Constants DEF Holders, Take, TypeInv, TypeOK
  <2> QED
    BY <1>2, <2>1 DEF Total, FreePages, Taking
<1>5. CASE z = zone[t]
  <2>1. Holders(z)' = Holders(z) \cup {t} /\ t \notin Holders(z) /\ Holders(z) \subseteq Tasks
    BY <1>1, <1>5, Constants DEF Holders, Take, TypeInv, TypeOK
  <2>2. PICK h : h = Holders(z)
    OBVIOUS
  <2>3. Taking(Holders(z))' = Taking(h \cup {t})
    BY <1>2, <2>1, <2>2 DEF Taking
  <2>4. Taking(h \cup {t}) = Taking(h) + Size[req[t].order] /\ Taking(h) \in Nat
    BY <2>1, <2>2, TakingAdd, TakingType
  <2>5. nrFree'[z] = Taken(nrFree[z], req[t].order, o)
    BY <1>5 DEF Take, TypeInv, TypeOK
  <2>6. FreePages(z) = FreePages(z)' + Size[req[t].order]
    <3>1. nrFree[z] \in [Orders -> Nat] /\ req[t].order <= o /\ nrFree[z][o] > 0
      BY <1>1, <1>5, Constants, FreeType DEF Take, FirstFit
    <3> QED
      BY <1>1, <2>5, <3>1, TakenPages DEF FreePages
  <2>7. FreePages(z) \in Nat /\ FreePages(z)' \in Nat
    <3>1. nrFree[z] \in [Orders -> Nat] /\ nrFree'[z] \in [Orders -> Nat]
      BY DEF TypeInv, TypeOK
    <3> QED
      BY <3>1, PagesSum DEF FreePages
  <2> QED
    BY <1>1, <2>2, <2>3, <2>4, <2>6, <2>7 DEF Total
<1> QED
  BY <1>4, <1>5

\* And back.
LEMMA TotalFree ==
    ASSUME NEW z \in Zones, TypeInv, TypeInv', NEW t \in Tasks, Free(t)
    PROVE  Total(z)' = Total(z)
<1>1. held[t] \in Zones /\ req[t].order \in Orders /\ Size[req[t].order] \in Nat
  BY Apart, Constants, RequestTypes, TakingType DEF Free, TypeInv, TypeOK
<1>2. req' = req
  BY DEF Free
<1>3. PICK o \in req[t].order..MaxOrder :
        /\ \A k \in req[t].order..(o - 1) : nrFree[held[t]][k] > 0
        /\ nrFree' = [nrFree EXCEPT ![held[t]] = Merged(nrFree[held[t]], req[t].order, o)]
  BY DEF Free
<1>4. CASE z # held[t]
  <2>1. Holders(z)' = Holders(z) /\ nrFree'[z] = nrFree[z]
    BY <1>1, <1>3, <1>4, Constants DEF Holders, Free, TypeInv, TypeOK
  <2> QED
    BY <1>2, <2>1 DEF Total, FreePages, Taking
<1>5. CASE z = held[t]
  <2>1. Holders(z) = Holders(z)' \cup {t} /\ t \notin Holders(z)' /\ Holders(z)' \subseteq Tasks
    BY <1>1, <1>5, Constants DEF Holders, Free, TypeInv, TypeOK
  <2>2. PICK h : h = Holders(z)'
    OBVIOUS
  <2>3. Taking(Holders(z)) = Taking(h \cup {t}) /\ Taking(Holders(z))' = Taking(h)
    BY <1>2, <2>1, <2>2 DEF Taking
  <2>4. Taking(h \cup {t}) = Taking(h) + Size[req[t].order] /\ Taking(h) \in Nat
    BY <2>1, <2>2, TakingAdd, TakingType
  <2>5. nrFree'[z] = Merged(nrFree[z], req[t].order, o) /\ o \in Orders /\ req[t].order <= o
    BY <1>1, <1>3, <1>5, Constants DEF TypeInv, TypeOK
  <2>6. FreePages(z)' = FreePages(z) + Size[req[t].order]
    <3>1. nrFree[z] \in [Orders -> Nat] /\ \A k \in req[t].order..(o - 1) : nrFree[z][k] > 0
      BY <1>1, <1>3, <1>5, FreeType
    <3> QED
      BY <1>1, <2>5, <3>1, MergedPages DEF FreePages
  <2>7. FreePages(z) \in Nat /\ FreePages(z)' \in Nat
    <3>1. nrFree[z] \in [Orders -> Nat] /\ nrFree'[z] \in [Orders -> Nat]
      BY DEF TypeInv, TypeOK
    <3> QED
      BY <3>1, PagesSum DEF FreePages
  <2> QED
    BY <1>1, <2>2, <2>3, <2>4, <2>6, <2>7 DEF Total
<1> QED
  BY <1>4, <1>5

\* One task does something that neither takes nor frees, the others nothing.
LEMMA FloorElsewhere ==
    ASSUME TypeInv, FloorInv, NEW t \in Tasks, UNCHANGED <<nrFree, held>>,
           \A u \in Tasks \ {t} : /\ req'[u] = req[u] /\ mark'[u] = mark[u]
                                  /\ pc'[u] = pc[u] /\ zone'[u] = zone[u],
           held[t] # 0 => req'[t] = req[t] /\ pc'[t] = pc[t],
           mark'[t] = "any" => Entitled(req'[t]),
           pc'[t] = "take" => /\ req'[t] = req[t] /\ zone'[t] = zone[t] /\ zone[t] # 0
                              /\ Entitled(req[t]) \/ Spares(zone[t], t)
    PROVE  FloorInv'
<1>1. \A z \in Zones : Total(z)' = Total(z)
  BY TotalSame
<1>2. \A u \in Tasks, z \in Zones : req'[u] = req[u] /\ Spares(z, u) => Spares(z, u)'
  BY <1>1 DEF Spares, Floor
<1>3. ASSUME NEW u \in Tasks \ {t}
      PROVE  /\ held'[u] # 0 => pc'[u] = "idle"
             /\ mark'[u] = "any" => Entitled(req'[u])
             /\ held'[u] # 0 => Entitled(req'[u]) \/ Spares(held[u], u)'
             /\ pc'[u] = "take" => Entitled(req'[u]) \/ Spares(zone[u], u)'
  <2>1. /\ held[u] # 0 => held[u] \in Zones
        /\ pc[u] = "take" => zone[u] \in Zones
    BY Apart, Constants DEF TypeInv, TypeOK, Placed, Working
  <2> QED
    BY <1>2, <2>1 DEF FloorInv
<1>4. /\ held'[t] # 0 => pc'[t] = "idle"
      /\ held'[t] # 0 => Entitled(req'[t]) \/ Spares(held[t], t)'
      /\ pc'[t] = "take" => Entitled(req'[t]) \/ Spares(zone[t], t)'
  <2>1. /\ held[t] # 0 => held[t] \in Zones
        /\ zone[t] # 0 => zone[t] \in Zones
    BY Apart, Constants DEF TypeInv, TypeOK
  <2> QED
    BY <1>2, <2>1 DEF FloorInv
<1> QED
  BY <1>3, <1>4 DEF FloorInv

\* The step of a task that takes or frees a block: the totals stay.
LEMMA FloorMoves ==
    ASSUME TypeInv, FloorInv, NEW t \in Tasks, req' = req,
           \A z \in Zones : Total(z)' = Total(z),
           \A u \in Tasks \ {t} : /\ held'[u] = held[u] /\ mark'[u] = mark[u]
                                  /\ pc'[u] = pc[u] /\ zone'[u] = zone[u],
           pc'[t] = "idle", mark'[t] = "low" \/ mark'[t] = mark[t],
           held'[t] # 0 => /\ held'[t] \in Zones
                           /\ Entitled(req[t]) \/ Spares(held'[t], t)
    PROVE  FloorInv'
<1>1. \A u \in Tasks, z \in Zones : Spares(z, u) => Spares(z, u)'
  BY DEF Spares, Floor
<1>2. ASSUME NEW u \in Tasks \ {t}
      PROVE  /\ held'[u] # 0 => pc'[u] = "idle"
             /\ mark'[u] = "any" => Entitled(req'[u])
             /\ held'[u] # 0 => Entitled(req'[u]) \/ Spares(held[u], u)'
             /\ pc'[u] = "take" => Entitled(req'[u]) \/ Spares(zone[u], u)'
  <2>1. /\ held[u] # 0 => held[u] \in Zones
        /\ pc[u] = "take" => zone[u] \in Zones
    BY Apart, Constants DEF TypeInv, TypeOK, Placed, Working
  <2> QED
    BY <1>1, <2>1 DEF FloorInv
<1>3. /\ held'[t] # 0 => Entitled(req'[t]) \/ Spares(held[t], t)'
      /\ mark'[t] = "any" => Entitled(req'[t])
  BY <1>1 DEF FloorInv
<1> QED
  BY <1>2, <1>3 DEF FloorInv

\* A task that takes a block has passed the test for it.
LEMMA FloorTake ==
    ASSUME TypeInv, FloorInv, TypeInv', NEW t \in Tasks, NEW o \in Orders, Take(t, o)
    PROVE  FloorInv'
<1>1. \A z \in Zones : Total(z)' = Total(z)
  BY TotalTake
<1>2. /\ pc[t] = "take" /\ zone[t] \in Zones
      /\ held' = [held EXCEPT ![t] = zone[t]] /\ pc' = [pc EXCEPT ![t] = "idle"]
      /\ mark' = [mark EXCEPT ![t] = "low"] /\ zone' = [zone EXCEPT ![t] = 1] /\ req' = req
  BY Apart, Constants DEF Take, Return, Goto, TypeInv, TypeOK, Placed, Working
<1>3. Entitled(req[t]) \/ Spares(zone[t], t)
  BY <1>2 DEF FloorInv
<1> QED
  BY <1>1, <1>2, <1>3, Apart, FloorMoves DEF TypeInv, TypeOK, Placed

\* A block given back is owed nothing.
LEMMA FloorFree ==
    ASSUME TypeInv, FloorInv, TypeInv', NEW t \in Tasks, Free(t)
    PROVE  FloorInv'
<1>1. \A z \in Zones : Total(z)' = Total(z)
  BY TotalFree
<1>2. pc[t] = "idle" /\ held' = [held EXCEPT ![t] = 0] /\ UNCHANGED <<pc, mark, zone, req>>
  BY DEF Free
<1> QED
  BY <1>1, <1>2, FloorMoves DEF TypeInv, TypeOK

\* The reserve is inductive.
LEMMA FloorStep ==
    ASSUME TypeInv, FloorInv, [Next]_vars
    PROVE  FloorInv'
<1>1. TypeInv'
  BY TypeStep
<1>2. CASE UNCHANGED vars
  BY <1>2, TotalSame DEF vars, FloorInv, Spares, Total, Holders, FreePages, Taking, Floor
<1>3. CASE Daemon
  <2>1. UNCHANGED <<nrFree, held>>
    BY <1>3 DEF Daemon, Prepare, ReadOrder, ClearOrder, Awake, FinishWait, Look, ShrunkKswapd, Shrink,
                ShrinkZone, ShrinkTurn, ShrinkSpin, vars
  <2>2. /\ \A c \in Contexts \ {Kswapd} : req'[c] = req[c] /\ mark'[c] = mark[c]
        /\ \A c \in Contexts \ {Kswapd} : pc'[c] = pc[c] /\ zone'[c] = zone[c]
    BY <1>3 DEF Daemon, Prepare, ReadOrder, ClearOrder, Awake, FinishWait, Look, ShrunkKswapd, Shrink,
                ShrinkZone, ShrinkTurn, ShrinkSpin, vars, Goto, Return, NextZone, TypeInv, TypeOK, Placed
  <2>3. \A t \in Tasks : /\ req'[t] = req[t] /\ mark'[t] = mark[t]
                         /\ pc'[t] = pc[t] /\ zone'[t] = zone[t]
    BY <2>2, Apart
  <2>4. CASE Tasks = {}
    BY <2>4 DEF FloorInv
  <2>5. CASE Tasks # {}
    <3>1. PICK t \in Tasks : TRUE
      BY <2>5
    <3>2. pc[t] = "take" => zone[t] # 0
      BY Apart DEF TypeInv, Placed, Working
    <3> QED
      BY <2>1, <2>3, <3>1, <3>2, FloorElsewhere DEF FloorInv
  <2> QED
    BY <2>4, <2>5
<1>4. ASSUME NEW t \in Tasks, \E r \in Requests : Alloc(t, r) PROVE FloorInv'
  <2>1. PICK r \in Requests : Alloc(t, r)
    BY <1>4
  <2>2. /\ held[t] = 0 /\ UNCHANGED <<nrFree, held>>
        /\ req' = [req EXCEPT ![t] = r] /\ mark' = [mark EXCEPT ![t] = "low"]
        /\ zone' = [zone EXCEPT ![t] = r.class] /\ pc' = [pc EXCEPT ![t] = "test"]
    BY <2>1 DEF Alloc, Goto
  <2> QED
    BY <2>2, Apart, FloorElsewhere DEF TypeInv, TypeOK, Placed
<1>5. ASSUME NEW t \in Tasks, Free(t) PROVE FloorInv'
  BY <1>1, <1>5, FloorFree
<1>6. ASSUME NEW t \in Tasks, NEW o \in Orders, Take(t, o) PROVE FloorInv'
  BY <1>1, <1>6, FloorTake
<1>7. ASSUME NEW t \in Tasks, Test(t) PROVE FloorInv'
  <2>1. /\ pc[t] = "test" /\ zone[t] # 0 /\ held[t] = 0
        /\ UNCHANGED <<nrFree, held, req, mark>>
    BY <1>7 DEF Test, FloorInv
  <2>2. CASE MarkOk(t, zone[t]) /\ Goto(t, "take") /\ UNCHANGED zone
    <3>1. Entitled(req[t]) \/ Spares(zone[t], t)
      BY <2>1, <2>2, TestShows
    <3>2. mark[t] = "any" => Entitled(req[t])
      BY DEF FloorInv
    <3>3. \A u \in Tasks \ {t} : pc'[u] = pc[u]
      BY <2>2, Apart DEF Goto, TypeInv, Placed
    <3> QED
      BY <2>1, <2>2, <3>1, <3>2, <3>3, FloorElsewhere
  <2>3. CASE NextZone(t) /\ UNCHANGED pc
    <3>1. mark[t] = "any" => Entitled(req[t])
      BY DEF FloorInv
    <3>2. \A u \in Tasks \ {t} : zone'[u] = zone[u]
      BY <2>3, Apart DEF NextZone, TypeInv, TypeOK
    <3> QED
      BY <2>1, <2>3, <3>1, <3>2, FloorElsewhere
  <2> QED
    BY <1>7, <2>2, <2>3 DEF Test
<1>8. ASSUME NEW t \in Tasks, Continue(t), ~Test(t), ~ \E o \in Orders : Take(t, o)
      PROVE  FloorInv'
  <2>1. CASE ShrinkSpin(t)
    BY <1>2, <2>1 DEF ShrinkSpin
  <2>2. CASE ~ShrinkSpin(t)
    <3>1. /\ UNCHANGED <<nrFree, held, req>> /\ pc[t] # "idle"
          /\ \A u \in Tasks \ {t} : mark'[u] = mark[u] /\ pc'[u] = pc[u] /\ zone'[u] = zone[u]
      BY <1>8, <2>2, Apart
         DEF Continue, TakeFails, LowPassEnds, WakesEnd, MinPassEnds, AnyPassEnds, HighPassEnds, ReclaimEnds,
             WakeupKswapd, RaiseOrder, Rouse, TryToFreePages, Shrink, ShrinkZone, ShrinkTurn, ShrunkTask,
             ShrinkEnds, Pass, Goto, Return, NextZone, TypeInv, TypeOK, Placed
    <3>2. pc'[t] # "take"
      BY <1>8, <2>2, Apart
         DEF Continue, TakeFails, LowPassEnds, WakesEnd, MinPassEnds, AnyPassEnds, HighPassEnds, ReclaimEnds,
             WakeupKswapd, RaiseOrder, Rouse, TryToFreePages, Shrink, ShrinkZone, ShrinkTurn, ShrunkTask,
             ShrinkEnds, Pass, Goto, Return, NextZone, TypeInv, TypeOK, Placed
    <3>3. mark'[t] = "any" => Entitled(req[t])
      BY <1>8, <2>2, Apart
         DEF Continue, TakeFails, LowPassEnds, WakesEnd, MinPassEnds, AnyPassEnds, HighPassEnds, ReclaimEnds,
             WakeupKswapd, RaiseOrder, Rouse, TryToFreePages, Shrink, ShrinkZone, ShrinkTurn, ShrunkTask,
             ShrinkEnds, Pass, Goto, Return, NextZone, TypeInv, TypeOK, Placed, FloorInv, Entitled
    <3>4. held[t] = 0
      BY <3>1 DEF FloorInv
    <3> QED
      BY <3>1, <3>2, <3>3, <3>4, FloorElsewhere
  <2> QED
    BY <2>1, <2>2
<1> QED
  BY <1>2, <1>3, <1>4, <1>5, <1>6, <1>7, <1>8 DEF Next, Continue

\* The inductive invariant says more than the reserve.
LEMMA FloorHolds ==
    ASSUME TypeInv, FloorInv
    PROVE  FloorKept
<1> SUFFICES ASSUME NEW z \in Zones, NEW t \in Tasks, held[t] = z, ~Entitled(req[t])
             PROVE  FreePages(z) + Taking(Holders(z) \ {t}) >= Floor(z, req[t])
  BY DEF FloorKept, Holders
<1>1. Spares(z, t)
  BY Constants DEF FloorInv
<1>2. PICK rest : rest = Holders(z) \ {t}
  OBVIOUS
<1>3. rest \subseteq Tasks /\ t \in Tasks \ rest /\ Holders(z) = rest \cup {t}
  BY <1>2 DEF Holders
<1>4. Taking(Holders(z)) = Taking(rest) + Size[req[t].order] /\ Taking(rest) \in Nat
      /\ Size[req[t].order] \in Nat
  BY <1>3, TakingAdd, TakingType
<1>5. FreePages(z) \in Nat
  BY FreeType
<1> QED
  BY <1>1, <1>2, <1>4, <1>5 DEF Spares, Total

\* A zone keeps its reserve: a task that holds a block of it without being entitled to the
\* reserves left it the floor of its request, if what the other holders have taken is put back
\* (zone_watermark_ok and buffered_rmqueue, in __alloc_pages).
THEOREM ReserveIsKept == Spec => []FloorKept
<1>1. Init => TypeInv /\ FloorInv
  BY TypeInit, Apart DEF Init, FloorInv
<1>2. TypeInv /\ FloorInv /\ [Next]_vars => TypeInv' /\ FloorInv'
  BY TypeStep, FloorStep
<1>3. TypeInv /\ FloorInv => FloorKept
  BY FloorHolds
<1> QED
  BY <1>1, <1>2, <1>3, PTL DEF Spec
(****************************************************************************)
(* kswapd.                                                                  *)
(****************************************************************************)
IInv == pc \in [Contexts -> Labels] /\ NoSleepOnOrder

\* A task's step that neither raises the order nor wakes kswapd, wherever it goes.
Elsewhere(t) ==
    /\ pc[t] # "rouse" /\ UNCHANGED <<maxOrder, onQueue>>
    /\ pc' = pc \/ \E l \in Labels : pc' = [pc EXCEPT ![t] = l]

LEMMA ElsewhereInv ==
    ASSUME NEW t \in Tasks, IInv, Elsewhere(t)
    PROVE  IInv'
<1>1. pc' \in [Contexts -> Labels] /\ \A c \in Contexts \ {t} : pc'[c] = pc[c]
  BY Apart DEF IInv, Elsewhere
<1>2. pc'[Kswapd] = pc[Kswapd] /\ \A u \in Tasks : pc[u] = "rouse" => pc'[u] = "rouse"
  BY <1>1, Apart DEF Elsewhere
<1> QED
  BY <1>1, <1>2 DEF IInv, NoSleepOnOrder, Elsewhere

\* kswapd's own steps, but for the one that lets it sleep: it is not asleep after them.
LEMMA KswapdInv ==
    ASSUME IInv, NEW l \in Labels, pc' = [pc EXCEPT ![Kswapd] = l],
           l # "asleep" \/ maxOrder' = 0
    PROVE  IInv'
BY Apart DEF IInv, NoSleepOnOrder

\* kswapd stays where it is, on the queue as before, and the order is as before.
LEMMA StaysInv ==
    ASSUME IInv, UNCHANGED <<pc, maxOrder, onQueue>>
    PROVE  IInv'
BY DEF IInv, NoSleepOnOrder

\* kswapd_max_order is raised: the task is on its way to wake kswapd.
LEMMA RaiseInv ==
    ASSUME NEW t \in Tasks, IInv, RaiseOrder(t)
    PROVE  IInv'
<1>1. pc' = [pc EXCEPT ![t] = "rouse"]
  BY DEF RaiseOrder, Goto
<1> QED
  BY <1>1, Apart DEF IInv, NoSleepOnOrder, Labels

\* kswapd is taken off the queue: it will not sleep on.
LEMMA RouseInv ==
    ASSUME NEW t \in Tasks, IInv, Rouse(t)
    PROVE  IInv'
<1>1. pc' = [pc EXCEPT ![t] = "wake"] /\ onQueue' = FALSE
  BY DEF Rouse, Goto
<1> QED
  BY <1>1, Apart DEF IInv, NoSleepOnOrder, Labels

\* The other steps of __alloc_pages, wakeup_kswapd and try_to_free_pages.
LEMMA AllocSteps ==
    ASSUME NEW t \in Tasks,
           \/ \E r \in Requests : Alloc(t, r)
           \/ Free(t) \/ Test(t) \/ TakeFails(t) \/ \E o \in Orders : Take(t, o)
           \/ LowPassEnds(t) \/ WakesEnd(t) \/ MinPassEnds(t) \/ AnyPassEnds(t) \/ HighPassEnds(t)
    PROVE  Elsewhere(t)
<1>1. CASE \E r \in Requests : Alloc(t, r)
  BY <1>1 DEF Alloc, Goto, kswapdVars, Elsewhere, Labels
<1>2. CASE Free(t)
  BY <1>2 DEF Free, kswapdVars, Elsewhere, Labels
<1>3. CASE Test(t)
  BY <1>3 DEF Test, Goto, kswapdVars, Elsewhere, Labels
<1>4. CASE TakeFails(t)
  BY <1>4 DEF TakeFails, Goto, kswapdVars, Elsewhere, Labels
<1>5. CASE \E o \in Orders : Take(t, o)
  BY <1>5 DEF Take, Return, Goto, kswapdVars, Elsewhere, Labels
<1>6. CASE LowPassEnds(t)
  BY <1>6 DEF LowPassEnds, Pass, Goto, kswapdVars, Elsewhere, Labels
<1>7. CASE WakesEnd(t)
  BY <1>7 DEF WakesEnd, Pass, Goto, kswapdVars, Elsewhere, Labels
<1>8. CASE MinPassEnds(t)
  BY <1>8 DEF MinPassEnds, Pass, Return, Goto, kswapdVars, Elsewhere, Labels
<1>9. CASE AnyPassEnds(t)
  BY <1>9 DEF AnyPassEnds, Return, Goto, kswapdVars, Elsewhere, Labels
<1>10. CASE HighPassEnds(t)
  BY <1>10 DEF HighPassEnds, Pass, Goto, kswapdVars, Elsewhere, Labels
<1> QED
  BY <1>1, <1>2, <1>3, <1>4, <1>5, <1>6, <1>7, <1>8, <1>9, <1>10

\* The steps of direct reclaim.
LEMMA ReclaimSteps ==
    ASSUME NEW t \in Tasks,
           \/ WakeupKswapd(t) \/ TryToFreePages(t) \/ ShrinkZone(t) \/ ShrinkTurn(t)
           \/ ShrunkTask(t) \/ ReclaimEnds(t)
    PROVE  Elsewhere(t)
<1>1. CASE WakeupKswapd(t)
  <2>1. pc' = pc \/ pc' = [pc EXCEPT ![t] = "raise"] \/ pc' = [pc EXCEPT ![t] = "rouse"]
    BY <1>1 DEF WakeupKswapd, Goto
  <2> QED
    BY <1>1, <2>1 DEF WakeupKswapd, kswapdVars, Elsewhere, Labels
<1>2. CASE TryToFreePages(t)
  BY <1>2 DEF TryToFreePages, Goto, kswapdVars, Elsewhere, Labels
<1>3. CASE ShrinkZone(t)
  BY <1>3 DEF ShrinkZone, Goto, kswapdVars, Elsewhere, Labels
<1>4. CASE ShrinkTurn(t)
  BY <1>4 DEF ShrinkTurn, kswapdVars, Elsewhere, Labels
<1>5. CASE ShrunkTask(t)
  BY <1>5 DEF ShrunkTask, ShrinkEnds, Goto, kswapdVars, Elsewhere, Labels
<1>6. CASE ReclaimEnds(t)
  BY <1>6 DEF ReclaimEnds, Pass, Return, Goto, kswapdVars, Elsewhere, Labels
<1> QED
  BY <1>1, <1>2, <1>3, <1>4, <1>5, <1>6

\* kswapd, balance_pgdat.
LEMMA DaemonInv ==
    ASSUME IInv, Daemon
    PROVE  IInv'
<1>1. CASE Prepare
  BY <1>1, KswapdInv DEF Prepare, Goto, Labels
<1>2. CASE ReadOrder
  BY <1>2, KswapdInv DEF ReadOrder, Goto, Labels
<1>3. CASE ClearOrder
  <2>1. maxOrder' = 0 /\ (pc' = [pc EXCEPT ![Kswapd] = "finish"] \/ pc' = [pc EXCEPT ![Kswapd] = "asleep"])
    BY <1>3 DEF ClearOrder, Goto
  <2> QED
    BY <2>1, KswapdInv DEF Labels
<1>4. CASE Awake
  BY <1>4, KswapdInv DEF Awake, Goto, Labels
<1>5. CASE FinishWait
  BY <1>5, KswapdInv DEF FinishWait, Goto, Labels
<1>6. CASE Look
  <2>1. \/ pc' = [pc EXCEPT ![Kswapd] = "prepare"] \/ pc' = [pc EXCEPT ![Kswapd] = "scan"]
        \/ UNCHANGED <<pc, maxOrder, onQueue>>
    BY <1>6 DEF Look, Return, Goto, kswapdVars
  <2> QED
    BY <2>1, KswapdInv, StaysInv DEF Labels
<1>7. CASE Shrink(Kswapd)
  <2>1. pc' = [pc EXCEPT ![Kswapd] = "shrink"] \/ UNCHANGED <<pc, maxOrder, onQueue>>
    BY <1>7 DEF Shrink, ShrinkZone, ShrinkTurn, ShrinkSpin, Goto, kswapdVars, vars
  <2> QED
    BY <2>1, KswapdInv, StaysInv DEF Labels
<1>8. CASE ShrunkKswapd
  <2>1. \/ pc' = [pc EXCEPT ![Kswapd] = "scan"] \/ pc' = [pc EXCEPT ![Kswapd] = "look"]
        \/ pc' = [pc EXCEPT ![Kswapd] = "prepare"]
    BY <1>8 DEF ShrunkKswapd, Goto
  <2> QED
    BY <2>1, KswapdInv DEF Labels
<1> QED
  BY <1>1, <1>2, <1>3, <1>4, <1>5, <1>6, <1>7, <1>8 DEF Daemon

\* NoSleepOnOrder is inductive.
LEMMA NextInv == IInv /\ [Next]_vars => IInv'
<1> SUFFICES ASSUME IInv, [Next]_vars PROVE IInv'
  OBVIOUS
<1>1. CASE UNCHANGED vars
  BY <1>1, StaysInv DEF vars
<1>2. CASE Daemon
  BY <1>2, DaemonInv
<1>3. ASSUME NEW t \in Tasks, (\E r \in Requests : Alloc(t, r)) \/ Free(t) \/ Continue(t)
      PROVE  IInv'
  <2>1. CASE RaiseOrder(t)
    BY <2>1, RaiseInv
  <2>2. CASE Rouse(t)
    BY <2>2, RouseInv
  <2>3. CASE ShrinkSpin(t)
    BY <2>3, StaysInv DEF ShrinkSpin, vars
  <2>4. CASE ~ (RaiseOrder(t) \/ Rouse(t) \/ ShrinkSpin(t))
    <3>1. Elsewhere(t)
      BY <1>3, <2>4, AllocSteps, ReclaimSteps DEF Continue, Shrink
    <3> QED
      BY <3>1, ElsewhereInv
  <2> QED
    BY <2>1, <2>2, <2>3, <2>4
<1> QED
  BY <1>1, <1>2, <1>3 DEF Next

\* kswapd does not sleep on a request for a larger order: a task that raises kswapd_max_order
\* after kswapd has cleared it finds kswapd on the queue (wakeup_kswapd, kswapd).
THEOREM KswapdServes == Spec => []NoSleepOnOrder
<1>1. Init => IInv
  BY Apart DEF Init, IInv, NoSleepOnOrder, Labels
<1>2. IInv /\ [Next]_vars => IInv'
  BY NextInv
<1>3. IInv => NoSleepOnOrder
  BY DEF IInv
<1> QED
  BY <1>1, <1>2, <1>3, PTL DEF Spec
=============================================================================
