-------------------------------- MODULE Lru --------------------------------
(****************************************************************************)
(* The LRU lists of the zones (mm/swap.c, mm/vmscan.c): contexts add pages  *)
(* in batches, drop their references in batches and free what nobody holds, *)
(* while a scan takes pages off the active list.                            *)
(*                                                                          *)
(* A reference is dropped before the zone's lru_lock is taken, so the scan  *)
(* can meet a page that is being freed. Who owes a reference is kept in     *)
(* refs, which the code does not have: it keeps the count alone.            *)
(****************************************************************************)
EXTENDS Integers, FiniteSets, Sequences, SequencesExt

CONSTANTS
    Tasks,      \* the contexts that add and release pages
    Scanner,    \* the context that runs refill_inactive_zone
    Pages,
    Zones,
    ZoneMaps,   \* how the pages may lie in the zones
    VecSize,    \* PAGEVEC_SIZE
    NrToScan,   \* sc->nr_to_scan
    MaxRefs,    \* bound: references that a task holds on one page
    None

Contexts == Tasks \cup {Scanner}

ASSUME LruAssumption ==
    /\ IsFiniteSet(Tasks) /\ Scanner \notin Tasks
    /\ None \notin Contexts \cup Zones \cup Pages
    /\ ZoneMaps \subseteq [Pages -> Zones]
    /\ VecSize \in Nat \ {0} /\ NrToScan \in Nat \ {0} /\ MaxRefs \in Nat \ {0}

VARIABLES
    zoneOf,       \* page_zone
    count,        \* page_count
    lruFlag,      \* the pages with PG_lru
    activeFlag,   \* the pages with PG_active
    activeList,   \* active_list of each zone, its head first
    inactiveList, \* inactive_list of each zone
    nrActive,     \* nr_active of each zone
    nrInactive,   \* nr_inactive of each zone
    lock,         \* who has the zone's lru_lock, or None
    free,         \* the pages that the page allocator has
    pc,
    vec,          \* a task's pagevec, from the page it is at to the last
    todo,         \* the pages that it releases when they have been added
    kind,         \* the list that it adds to
    held,         \* `zone' of a batch: the zone whose lock it has, or None
    toFree,       \* pages_to_free
    hold,         \* l_hold of the scan
    scan,         \* the scan's zone, how often it looked and nr_taken
    refs,         \* refs[t][p]: the references that t may drop
    fresh,        \* the pages that a task got and has not put on a list
    lost          \* the pages that a scan has put on a list on its stack

pageVars == <<count, lruFlag, activeFlag>>
listVars == <<activeList, inactiveList, nrActive, nrInactive>>
batchVars == <<vec, todo, kind, held, toFree>>
scanVars == <<hold, scan, lost>>
userVars == <<refs, fresh>>
vars == <<zoneOf, count, lruFlag, activeFlag, activeList, inactiveList, nrActive, nrInactive, lock,
          free, pc, vec, todo, kind, held, toFree, hold, scan, refs, fresh, lost>>

Goto(c, label) == pc' = [pc EXCEPT ![c] = label]
NoScan == [zone |-> None, seen |-> 0, taken |-> 0]

Init ==
    /\ zoneOf \in ZoneMaps
    /\ count = [p \in Pages |-> 0]
    /\ lruFlag = {} /\ activeFlag = {}
    /\ activeList = [z \in Zones |-> <<>>] /\ inactiveList = [z \in Zones |-> <<>>]
    /\ nrActive = [z \in Zones |-> 0] /\ nrInactive = [z \in Zones |-> 0]
    /\ lock = [z \in Zones |-> None]
    /\ free = Pages
    /\ pc = [c \in Contexts |-> "idle"]
    /\ vec = [t \in Tasks |-> <<>>] /\ todo = [t \in Tasks |-> <<>>]
    /\ kind = [t \in Tasks |-> "inactive"]
    /\ held = [t \in Tasks |-> None]
    /\ toFree = [t \in Tasks |-> <<>>]
    /\ hold = <<>> /\ scan = NoScan /\ lost = {}
    /\ refs = [t \in Tasks |-> [p \in Pages |-> 0]]
    /\ fresh = [t \in Tasks |-> {}]

(****************************************************************************)
(* The users: a page from the allocator, a further reference, a batch.      *)
(****************************************************************************)
GetFree(t, p) ==
    /\ pc[t] = "idle" /\ p \in free
    /\ free' = free \ {p}
    /\ count' = [count EXCEPT ![p] = 1]
    /\ refs' = [refs EXCEPT ![t][p] = 1]
    /\ fresh' = [fresh EXCEPT ![t] = @ \cup {p}]
    /\ UNCHANGED <<lruFlag, activeFlag, listVars, lock, pc, batchVars, scanVars, zoneOf>>

\* A page is handed on: it is in use, and t takes a reference of its own.
GetRef(t, p) ==
    /\ pc[t] = "idle" /\ refs[t][p] < MaxRefs
    /\ \E u \in Tasks : refs[u][p] > 0
    /\ count' = [count EXCEPT ![p] = @ + 1]
    /\ refs' = [refs EXCEPT ![t][p] = @ + 1]
    /\ UNCHANGED <<lruFlag, activeFlag, listVars, lock, free, pc, batchVars, scanVars, fresh, zoneOf>>

Batches(t) ==
    {v \in BoundedSeq(Pages, VecSize) : v # <<>> /\ IsInjective(v) /\ \A p \in ToSet(v) : refs[t][p] > 0}

\* The references go over to the pagevec.
Owed(t, v) == [refs EXCEPT ![t] = [p \in Pages |-> IF p \in ToSet(v) THEN @[p] - 1 ELSE @[p]]]

\* __pagevec_lru_add and __pagevec_lru_add_active: of pages that are on no list.
LruAdd(t, v, k) ==
    /\ pc[t] = "idle" /\ v \in Batches(t) /\ ToSet(v) \subseteq fresh[t]
    /\ vec' = [vec EXCEPT ![t] = v] /\ todo' = [todo EXCEPT ![t] = v]
    /\ kind' = [kind EXCEPT ![t] = k]
    /\ refs' = Owed(t, v)
    /\ fresh' = [fresh EXCEPT ![t] = @ \ ToSet(v)]
    /\ Goto(t, "add")
    /\ UNCHANGED <<pageVars, listVars, lock, free, held, toFree, scanVars, zoneOf>>

ReleasePages(t, v) ==
    /\ pc[t] = "idle" /\ v \in Batches(t)
    /\ vec' = [vec EXCEPT ![t] = v]
    /\ refs' = Owed(t, v)
    /\ fresh' = [fresh EXCEPT ![t] = @ \ ToSet(v)]
    /\ Goto(t, "put")
    /\ UNCHANGED <<pageVars, listVars, lock, free, todo, kind, held, toFree, scanVars, zoneOf>>

(****************************************************************************)
(* The lock of the batch's pages: kept from page to page of one zone.       *)
(****************************************************************************)
Here(t) == Head(vec[t])
HoldsZone(t) == held[t] = zoneOf[Here(t)]

\* The lock that the batch still has is given back.
Unlocked(t) ==
    /\ lock' = [z \in Zones |-> IF z = held[t] THEN None ELSE lock[z]]
    /\ held' = [held EXCEPT ![t] = None]

LeaveZone(t) ==
    /\ pc[t] \in {"add", "unlist"} /\ vec[t] # <<>>
    /\ held[t] # None /\ ~HoldsZone(t)
    /\ Unlocked(t)
    /\ UNCHANGED <<pageVars, listVars, free, pc, vec, todo, kind, toFree, scanVars, userVars, zoneOf>>

EnterZone(t) ==
    /\ pc[t] \in {"add", "unlist"} /\ vec[t] # <<>>
    /\ held[t] = None /\ lock[zoneOf[Here(t)]] = None
    /\ lock' = [lock EXCEPT ![zoneOf[Here(t)]] = t]
    /\ held' = [held EXCEPT ![t] = zoneOf[Here(t)]]
    /\ UNCHANGED <<pageVars, listVars, free, pc, vec, todo, kind, toFree, scanVars, userVars, zoneOf>>

(****************************************************************************)
(* __pagevec_lru_add, __pagevec_lru_add_active.                             *)
(****************************************************************************)
AddPage(t) ==
    /\ pc[t] = "add" /\ vec[t] # <<>> /\ HoldsZone(t)
    /\ LET p == Here(t)
           z == zoneOf[p]
       IN /\ lruFlag' = lruFlag \cup {p}
          /\ IF kind[t] = "active"
             THEN /\ activeFlag' = activeFlag \cup {p}
                  /\ activeList' = [activeList EXCEPT ![z] = <<p>> \o @]
                  /\ nrActive' = [nrActive EXCEPT ![z] = @ + 1]
                  /\ UNCHANGED <<inactiveList, nrInactive>>
             ELSE /\ inactiveList' = [inactiveList EXCEPT ![z] = <<p>> \o @]
                  /\ nrInactive' = [nrInactive EXCEPT ![z] = @ + 1]
                  /\ UNCHANGED <<activeFlag, activeList, nrActive>>
    /\ vec' = [vec EXCEPT ![t] = Tail(@)]
    /\ UNCHANGED <<count, lock, free, pc, todo, kind, held, toFree, scanVars, userVars, zoneOf>>

\* Then release_pages of the same vector.
AddEnds(t) ==
    /\ pc[t] = "add" /\ vec[t] = <<>>
    /\ Unlocked(t)
    /\ vec' = [vec EXCEPT ![t] = todo[t]] /\ todo' = [todo EXCEPT ![t] = <<>>]
    /\ Goto(t, "put")
    /\ UNCHANGED <<pageVars, listVars, free, kind, toFree, scanVars, userVars, zoneOf>>

(****************************************************************************)
(* release_pages.                                                           *)
(****************************************************************************)
\* put_page_testzero, with whatever lock there is from the page before.
Put(t) ==
    /\ pc[t] = "put" /\ vec[t] # <<>>
    /\ count' = [count EXCEPT ![Here(t)] = @ - 1]
    /\ IF count[Here(t)] = 1
       THEN Goto(t, "unlist") /\ UNCHANGED vec
       ELSE vec' = [vec EXCEPT ![t] = Tail(@)] /\ UNCHANGED pc
    /\ UNCHANGED <<lruFlag, activeFlag, listVars, lock, free, todo, kind, held, toFree,
                   scanVars, userVars, zoneOf>>

\* list_del.
Without(list, p) ==
    IF p \in ToSet(list) THEN RemoveAt(list, CHOOSE i \in DOMAIN list : list[i] = p) ELSE list

\* (Slip: del_page_from_lru does not clear PG_active.)
TakenOffActive(p) ==
    LET z == zoneOf[p] IN
    /\ lruFlag' = lruFlag \ {p}
    /\ activeFlag' = activeFlag
    /\ activeList' = [activeList EXCEPT ![z] = Without(@, p)]
    /\ inactiveList' = [inactiveList EXCEPT ![z] = Without(@, p)]
    /\ IF p \in activeFlag
       THEN nrActive' = [nrActive EXCEPT ![z] = @ - 1] /\ UNCHANGED nrInactive
       ELSE nrInactive' = [nrInactive EXCEPT ![z] = @ - 1] /\ UNCHANGED nrActive

\* del_page_from_lru: which list the page is on is told by PG_active.
TakenOff(p) ==
    LET z == zoneOf[p] IN
    /\ lruFlag' = lruFlag \ {p}
    /\ activeFlag' = activeFlag \ {p}
    /\ activeList' = [activeList EXCEPT ![z] = Without(@, p)]
    /\ inactiveList' = [inactiveList EXCEPT ![z] = Without(@, p)]
    /\ IF p \in activeFlag
       THEN nrActive' = [nrActive EXCEPT ![z] = @ - 1] /\ UNCHANGED nrInactive
       ELSE nrInactive' = [nrInactive EXCEPT ![z] = @ - 1] /\ UNCHANGED nrActive

\* (Slip: the page stays on its list.)
UnlistKept(t) ==
    /\ pc[t] = "unlist" /\ HoldsZone(t)
    /\ toFree' = [toFree EXCEPT ![t] = Append(@, Here(t))]
    /\ IF Len(toFree'[t]) = VecSize THEN Unlocked(t) /\ Goto(t, "free")
                                    ELSE Goto(t, "put") /\ UNCHANGED <<lock, held>>
    /\ vec' = [vec EXCEPT ![t] = Tail(@)]
    /\ UNCHANGED <<pageVars, listVars, free, todo, kind, scanVars, userVars, zoneOf>>

\* Under the lock: off the list, and freed if nobody has taken a reference from there.
Unlist(t) ==
    /\ pc[t] = "unlist" /\ HoldsZone(t)
    /\ IF Here(t) \in lruFlag THEN TakenOff(Here(t))
                              ELSE UNCHANGED <<lruFlag, activeFlag, listVars>>
    /\ toFree' = IF count[Here(t)] = 0 THEN [toFree EXCEPT ![t] = Append(@, Here(t))] ELSE toFree
    /\ IF Len(toFree'[t]) = VecSize THEN Unlocked(t) /\ Goto(t, "free")
                                    ELSE Goto(t, "put") /\ UNCHANGED <<lock, held>>
    /\ vec' = [vec EXCEPT ![t] = Tail(@)]
    /\ UNCHANGED <<count, free, todo, kind, scanVars, userVars, zoneOf>>

\* __pagevec_free, the last page first.
FreeVec(t) ==
    /\ pc[t] = "free"
    /\ free' = free \cup {Last(toFree[t])}
    /\ toFree' = [toFree EXCEPT ![t] = Front(@)]
    /\ IF Len(toFree[t]) = 1 THEN Goto(t, "put") ELSE UNCHANGED pc
    /\ UNCHANGED <<pageVars, listVars, lock, vec, todo, kind, held, scanVars, userVars, zoneOf>>

\* (Slip: the last pages are not freed.)
ReleaseEndsEarly(t) ==
    /\ pc[t] = "put" /\ vec[t] = <<>>
    /\ Unlocked(t)
    /\ Goto(t, "idle")
    /\ UNCHANGED <<pageVars, listVars, free, vec, todo, kind, toFree, scanVars, userVars, zoneOf>>

ReleaseEnds(t) ==
    /\ pc[t] = "put" /\ vec[t] = <<>>
    /\ Unlocked(t)
    /\ Goto(t, IF toFree[t] = <<>> THEN "idle" ELSE "free")
    /\ UNCHANGED <<pageVars, listVars, free, vec, todo, kind, toFree, scanVars, userVars, zoneOf>>

(****************************************************************************)
(* refill_inactive_zone and isolate_lru_pages.                              *)
(****************************************************************************)
ScanLock(z) ==
    /\ pc[Scanner] = "idle" /\ lock[z] = None
    /\ lock' = [lock EXCEPT ![z] = Scanner]
    /\ scan' = [zone |-> z, seen |-> 0, taken |-> 0]
    /\ Goto(Scanner, "isolate")
    /\ UNCHANGED <<pageVars, listVars, free, batchVars, hold, lost, userVars, zoneOf>>

ScanAgain == scan.seen < NrToScan /\ activeList[scan.zone] # <<>>
Oldest == Last(activeList[scan.zone])

\* Off the list first, and then the reference that tells whether the page is in use.
Isolate ==
    /\ pc[Scanner] = "isolate" /\ ScanAgain
    /\ lruFlag' = lruFlag \ {Oldest}
    /\ activeList' = [activeList EXCEPT ![scan.zone] = Front(@)]
    /\ count' = [count EXCEPT ![Oldest] = @ + 1]
    /\ hold' = <<Oldest>> \o hold
    /\ IF count[Oldest] = 0
       THEN Goto(Scanner, "give_back") /\ scan' = [scan EXCEPT !.seen = @ + 1]
       ELSE UNCHANGED pc /\ scan' = [scan EXCEPT !.seen = @ + 1, !.taken = @ + 1]
    /\ UNCHANGED <<activeFlag, inactiveList, nrActive, nrInactive, lock, free, batchVars,
                   lost, userVars, zoneOf>>

\* (Slip: the reference is kept.)
GiveBackHeld ==
    /\ pc[Scanner] = "give_back"
    /\ lruFlag' = lruFlag \cup {Head(hold)}
    /\ activeList' = [activeList EXCEPT ![scan.zone] = <<Head(hold)>> \o @]
    /\ hold' = Tail(hold)
    /\ Goto(Scanner, "isolate")
    /\ UNCHANGED <<count, activeFlag, inactiveList, nrActive, nrInactive, lock, free, batchVars,
                   scan, lost, userVars, zoneOf>>

\* The page is being freed elsewhere.
GiveBack ==
    /\ pc[Scanner] = "give_back"
    /\ count' = [count EXCEPT ![Head(hold)] = @ - 1]
    /\ lruFlag' = lruFlag \cup {Head(hold)}
    /\ activeList' = [activeList EXCEPT ![scan.zone] = <<Head(hold)>> \o @]
    /\ hold' = Tail(hold)
    /\ Goto(Scanner, "isolate")
    /\ UNCHANGED <<activeFlag, inactiveList, nrActive, nrInactive, lock, free, batchVars,
                   scan, lost, userVars, zoneOf>>

\* (Slip: nr_active is reduced by what was looked at.)
IsolateEndsSeen ==
    /\ pc[Scanner] = "isolate" /\ ~ScanAgain
    /\ nrActive' = [nrActive EXCEPT ![scan.zone] = @ - scan.seen]
    /\ lock' = [lock EXCEPT ![scan.zone] = None]
    /\ lost' = lost \cup ToSet(hold)
    /\ hold' = <<>> /\ scan' = NoScan
    /\ Goto(Scanner, "idle")
    /\ UNCHANGED <<pageVars, activeList, inactiveList, nrInactive, free, batchVars, userVars, zoneOf>>

\* The lock is given up. Then each page of l_hold goes to l_active or to no list at all,
\* and with the function's return the lists and the scan's references are gone.
IsolateEnds ==
    /\ pc[Scanner] = "isolate" /\ ~ScanAgain
    /\ nrActive' = [nrActive EXCEPT ![scan.zone] = @ - scan.taken]
    /\ lock' = [lock EXCEPT ![scan.zone] = None]
    /\ lost' = lost \cup ToSet(hold)
    /\ hold' = <<>> /\ scan' = NoScan
    /\ Goto(Scanner, "idle")
    /\ UNCHANGED <<pageVars, activeList, inactiveList, nrInactive, free, batchVars, userVars, zoneOf>>

------------------------------------------------------------------------------
Continue(t) ==
    \/ LeaveZone(t) \/ EnterZone(t) \/ AddPage(t) \/ AddEnds(t) \/ Put(t) \/ Unlist(t)
    \/ FreeVec(t) \/ ReleaseEnds(t)

Call(t) ==
    \/ \E p \in Pages : GetFree(t, p) \/ GetRef(t, p)
    \/ \E v \in Batches(t) : ReleasePages(t, v) \/ \E k \in {"active", "inactive"} : LruAdd(t, v, k)

ScanGoesOn == Isolate \/ GiveBack \/ IsolateEnds

Next ==
    \/ \E t \in Tasks : Call(t) \/ Continue(t)
    \/ \E z \in Zones : ScanLock(z)
    \/ ScanGoesOn

Spec == Init /\ [][Next]_vars

\* lru_lock is granted in turn (ticket spinlocks) and whoever is at work goes on.
Fairness == WF_vars(ScanGoesOn) /\ \A t \in Tasks : SF_vars(Continue(t))

FairSpec == Spec /\ Fairness

------------------------------------------------------------------------------
(****************************************************************************)
(* Properties.                                                              *)
(****************************************************************************)
\* Every variable has its type.
TypeOK ==
    /\ zoneOf \in ZoneMaps
    /\ count \in [Pages -> Nat]
    /\ lruFlag \subseteq Pages /\ activeFlag \subseteq Pages
    /\ activeList \in [Zones -> Seq(Pages)] /\ inactiveList \in [Zones -> Seq(Pages)]
    /\ nrActive \in [Zones -> Nat] /\ nrInactive \in [Zones -> Nat]
    /\ lock \in [Zones -> Contexts \cup {None}]
    /\ free \subseteq Pages
    /\ pc \in [Contexts -> {"idle", "add", "put", "unlist", "free", "isolate", "give_back"}]
    /\ vec \in [Tasks -> Seq(Pages)] /\ todo \in [Tasks -> Seq(Pages)]
    /\ kind \in [Tasks -> {"active", "inactive"}]
    /\ held \in [Tasks -> Zones \cup {None}]
    /\ toFree \in [Tasks -> Seq(Pages)]
    /\ hold \in Seq(Pages) /\ lost \subseteq Pages
    /\ scan \in [zone : Zones \cup {None}, seen : Nat, taken : Nat]
    /\ refs \in [Tasks -> [Pages -> 0..MaxRefs]]
    /\ fresh \in [Tasks -> SUBSET Pages]

\* The pages of t's pagevec that have still to be put, each a reference that t owes (a vector
\* that is being added is put as a whole afterwards).
Owing(t) == CASE pc[t] = "add"    -> ToSet(todo[t])
              [] pc[t] = "unlist" -> ToSet(Tail(vec[t]))
              [] OTHER            -> ToSet(vec[t])

\* The references to p that tasks are to drop: one for a pagevec (0) and those they have (1, 2...).
Claims(p) == {c \in Tasks \X (0..MaxRefs) :
                 IF c[2] = 0 THEN p \in Owing(c[1]) ELSE c[2] <= refs[c[1]][p]}

ScanOwes(p) == IF p \in lost \/ p \in ToSet(hold) THEN 1 ELSE 0

\* The count of a page is exactly what its users, the pagevecs under way and the scan
\* owe, a scan's momentary reference on a dying page included: no count is dropped
\* twice or forgotten, but for the references that refill_inactive_zone never drops.
RefsExact == \A p \in Pages : count[p] = ScanOwes(p) + Cardinality(Claims(p))

\* While a zone's lru_lock is free its lists, their counts and the page flags agree: a
\* page is on one list at most, PG_lru says that it is on one, PG_active which, and
\* nr_active and nr_inactive are the lengths. Only a page that a scan has taken off
\* keeps PG_active without PG_lru.
ListsAgree ==
    \A z \in Zones : lock[z] = None =>
        LET ours == {p \in Pages : zoneOf[p] = z}
            act == ToSet(activeList[z])
            inact == ToSet(inactiveList[z])
        IN /\ IsInjective(activeList[z]) /\ IsInjective(inactiveList[z])
           /\ act \cap inact = {} /\ act \cup inact = lruFlag \cap ours
           /\ activeFlag \cap lruFlag \cap ours = act
           /\ (activeFlag \cap ours) \ lruFlag \subseteq lost \cup ToSet(hold)
           /\ nrActive[z] = Len(activeList[z]) /\ nrInactive[z] = Len(inactiveList[z])

\* No BUG() is reached: a page that is added has neither flag, a page whose reference is
\* dropped has one, and the pages of the active list have PG_lru.
NoBug ==
    /\ \A t \in Tasks : vec[t] # <<>> =>
         /\ pc[t] = "add" => Here(t) \notin lruFlag
         /\ (pc[t] = "add" /\ kind[t] = "active") => Here(t) \notin activeFlag
         /\ pc[t] = "put" => count[Here(t)] > 0
    /\ (pc[Scanner] = "isolate" /\ ScanAgain) => Oldest \in lruFlag

\* A page that is given back to the allocator, or about to be, has no reference and is on
\* no list, only one vector will free it, and no BUG() is reached on the way.
FreedClean ==
    LET dying == UNION {ToSet(toFree[t]) : t \in Tasks}
    IN /\ \A p \in free \cup dying : count[p] = 0 /\ p \notin lruFlag /\ p \notin activeFlag
       /\ free \cap dying = {}
       /\ \A t \in Tasks : IsInjective(toFree[t])
       /\ \A t, u \in Tasks : t # u => ToSet(toFree[t]) \cap ToSet(toFree[u]) = {}
       /\ NoBug

\* A page whose last reference is gone comes back to the allocator, whatever a scan does
\* with it in between.
Freed == \A p \in Pages : (count[p] = 0) ~> (p \in free)
=============================================================================
