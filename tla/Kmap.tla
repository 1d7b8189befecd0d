-------------------------------- MODULE Kmap --------------------------------
(****************************************************************************)
(* Permanent mappings of high memory, mm/highmem.c: kmap_high gives a page  *)
(* one of LAST_PKMAP slots of kernel address space, kunmap_high gives it    *)
(* back, and unused slots are torn down together when the search wraps.     *)
(*                                                                          *)
(* A section under kmap_lock is one step; the lock is dropped to sleep for  *)
(* a slot and before the wakeup of the sleepers.                            *)
(****************************************************************************)
EXTENDS Integers, FiniteSets

CONSTANTS Tasks,       \* the contexts that map pages, one page each at a time
          Pages,       \* the pages of ZONE_HIGHMEM
          LastPkmap,   \* LAST_PKMAP
          None

Slots == 0..(LastPkmap - 1)

ASSUME KmapAssumption ==
    /\ IsFiniteSet(Tasks)
    /\ LastPkmap \in Nat \ {0}
    /\ None \notin Pages
    /\ None \notin Slots

VARIABLES
    cnt,         \* pkmap_count: 0 free, 1 mapped and unused, n + 1 used n times
    pte,         \* the page that pkmap_page_table[slot] maps
    addr,        \* page_address(page): the slot in the hash table
    last,        \* last_pkmap_nr
    queue,       \* the tasks on pkmap_map_wait
    woken,       \* those that wake_up has made runnable again
    pc,
    page,        \* the page a task maps or wants to map
    vaddr        \* what kmap_high returned to it

vars == <<cnt, pte, addr, last, queue, woken, pc, page, vaddr>>

Goto(t, label) == pc' = [pc EXCEPT ![t] = label]

Init ==
    /\ cnt = [s \in Slots |-> 0]
    /\ pte = [s \in Slots |-> None]
    /\ addr = [p \in Pages |-> None]
    /\ last = 0
    /\ queue = {} /\ woken = {}
    /\ pc = [t \in Tasks |-> "idle"]
    /\ page = [t \in Tasks |-> None]
    /\ vaddr = [t \in Tasks |-> None]

(****************************************************************************)
(* kmap_high.                                                               *)
(****************************************************************************)
\* t takes kmap_lock for p: in a new call, or after it has slept for a slot.
Wants(t, p) == pc[t] = "idle" \/ (pc[t] = "again" /\ page[t] = p)

Given(t, p, s) ==
    /\ page' = [page EXCEPT ![t] = p]
    /\ vaddr' = [vaddr EXCEPT ![t] = s]
    /\ Goto(t, "mapped")

\* (Slip: the count goes up for a new mapping alone.)
KmapShared(t, p) ==
    /\ Wants(t, p)
    /\ addr[p] # None
    /\ Given(t, p, addr[p])
    /\ UNCHANGED <<cnt, pte, addr, last, queue, woken>>

\* The page has a slot, in use or not yet torn down.
KmapMapped(t, p) ==
    /\ Wants(t, p)
    /\ addr[p] # None
    /\ cnt' = [cnt EXCEPT ![addr[p]] = @ + 1]
    /\ Given(t, p, addr[p])
    /\ UNCHANGED <<pte, addr, last, queue, woken>>

\* s is the first slot from `from' on that counts f show as free.
FirstFree(f, from, s) == /\ s >= from /\ f[s] = 0
                         /\ \A u \in from..(s - 1) : f[u] # 0

\* map_new_virtual finds a free slot before it wraps.
KmapNew(t, p, s) ==
    /\ Wants(t, p)
    /\ addr[p] = None
    /\ FirstFree(cnt, last + 1, s)
    /\ cnt' = [cnt EXCEPT ![s] = 2]
    /\ pte' = [pte EXCEPT ![s] = p]
    /\ addr' = [addr EXCEPT ![p] = s]
    /\ last' = s
    /\ Given(t, p, s)
    /\ UNCHANGED <<queue, woken>>

Wraps == \A u \in (last + 1)..(LastPkmap - 1) : cnt[u] # 0

\* (Slip: set_page_address(page, NULL) is forgotten.)
AddrKept == addr

\* flush_all_zero_pkmaps tears down the slots with a count of 1.  The TLB flush that
\* ends it, flush_tlb_kernel_range, is an empty macro: see KmapTlb.
FlushedCnt  == [s \in Slots |-> IF cnt[s] = 1 THEN 0 ELSE cnt[s]]
FlushedPte  == [s \in Slots |-> IF cnt[s] = 1 THEN None ELSE pte[s]]
FlushedAddr == [p \in Pages |-> IF addr[p] # None /\ cnt[addr[p]] = 1 THEN None ELSE addr[p]]

\* It wraps, tears down what is unused, and takes the first free slot ...
KmapFlush(t, p, s) ==
    /\ Wants(t, p)
    /\ addr[p] = None
    /\ Wraps
    /\ FirstFree(FlushedCnt, 0, s)
    /\ cnt' = [FlushedCnt EXCEPT ![s] = 2]
    /\ pte' = [FlushedPte EXCEPT ![s] = p]
    /\ addr' = [FlushedAddr EXCEPT ![p] = s]
    /\ last' = s
    /\ Given(t, p, s)
    /\ UNCHANGED <<queue, woken>>

\* ... or finds them all in use, drops the lock and sleeps.
KmapSleep(t, p) ==
    /\ Wants(t, p)
    /\ addr[p] = None
    /\ Wraps
    /\ \A s \in Slots : FlushedCnt[s] # 0
    /\ last' = LastPkmap - 1
    /\ queue' = queue \cup {t}
    /\ page' = [page EXCEPT ![t] = p]
    /\ Goto(t, "sleep")
    /\ UNCHANGED <<cnt, pte, addr, woken, vaddr>>

\* schedule returns, remove_wait_queue; the lock is still to be taken.
Awake(t) ==
    /\ pc[t] = "sleep"
    /\ t \in woken
    /\ queue' = queue \ {t}
    /\ woken' = woken \ {t}
    /\ Goto(t, "again")
    /\ UNCHANGED <<cnt, pte, addr, last, page, vaddr>>

(****************************************************************************)
(* kunmap_high.                                                             *)
(****************************************************************************)
\* (Slip: the queue is looked at when the count is 0, which it never is.)
KunmapQuietly(t) ==
    LET s == addr[page[t]] IN
    /\ pc[t] = "mapped"
    /\ cnt' = [cnt EXCEPT ![s] = @ - 1]
    /\ page' = [page EXCEPT ![t] = None]
    /\ vaddr' = [vaddr EXCEPT ![t] = None]
    /\ Goto(t, IF cnt[s] = 1 /\ queue # {} THEN "wake" ELSE "idle")
    /\ UNCHANGED <<pte, addr, last, queue, woken>>

\* A slot that falls to a count of 1 is reason to wake the sleepers, if any.
Kunmap(t) ==
    LET s == addr[page[t]] IN
    /\ pc[t] = "mapped"
    /\ cnt' = [cnt EXCEPT ![s] = @ - 1]
    /\ page' = [page EXCEPT ![t] = None]
    /\ vaddr' = [vaddr EXCEPT ![t] = None]
    /\ Goto(t, IF cnt[s] = 2 /\ queue # {} THEN "wake" ELSE "idle")
    /\ UNCHANGED <<pte, addr, last, queue, woken>>

\* (Slip: one sleeper is woken, as if they waited exclusively.)
WakeOne(t) ==
    /\ pc[t] = "wake"
    /\ \E u \in queue : woken' = woken \cup {u}
    /\ Goto(t, "idle")
    /\ UNCHANGED <<cnt, pte, addr, last, queue, page, vaddr>>

WakeUp(t) ==
    /\ pc[t] = "wake"
    /\ woken' = woken \cup queue
    /\ Goto(t, "idle")
    /\ UNCHANGED <<cnt, pte, addr, last, queue, page, vaddr>>

------------------------------------------------------------------------------
Kmap(t) == \E p \in Pages : \/ KmapMapped(t, p) \/ KmapSleep(t, p)
                            \/ \E s \in Slots : KmapNew(t, p, s) \/ KmapFlush(t, p, s)

Next == \E t \in Tasks : Kmap(t) \/ Awake(t) \/ Kunmap(t) \/ WakeUp(t)

Spec == Init /\ [][Next]_vars

\* Tasks run, and unmap what they have mapped.
Fairness == \A t \in Tasks : WF_vars(Awake(t) \/ Kunmap(t) \/ WakeUp(t))

FairSpec == Spec /\ Fairness

------------------------------------------------------------------------------
(****************************************************************************)
(* Properties.                                                              *)
(****************************************************************************)
\* Every variable has its type.
TypeOK ==
    /\ cnt \in [Slots -> Nat]
    /\ pte \in [Slots -> Pages \cup {None}]
    /\ addr \in [Pages -> Slots \cup {None}]
    /\ last \in Slots
    /\ queue \subseteq Tasks /\ woken \subseteq queue
    /\ pc \in [Tasks -> {"idle", "mapped", "sleep", "again", "wake"}]
    /\ page \in [Tasks -> Pages \cup {None}]
    /\ vaddr \in [Tasks -> Slots \cup {None}]

\* The tasks that use p's mapping.
Mappers(p) == {t \in Tasks : pc[t] = "mapped" /\ page[t] = p}

\* The address that kmap_high has returned stays the page's own until kunmap_high,
\* in the hash table and in the page table: no flush of unused slots tears it down.
\* (What a CPU's TLB holds for the address is KmapTlb's subject.)
MappingHolds ==
    \A t \in Tasks : pc[t] = "mapped" =>
        /\ vaddr[t] = addr[page[t]]
        /\ pte[vaddr[t]] = page[t]

\* A page has at most one slot and the hash table agrees with the page table; a
\* slot's count is one more than its users, so that no BUG() of kmap_high,
\* kunmap_high or flush_all_zero_pkmaps can fire.
CountsMatch ==
    /\ \A s \in Slots, p \in Pages : pte[s] = p <=> addr[p] = s
    /\ \A s \in Slots :
         cnt[s] = IF pte[s] = None THEN 0
                  ELSE 1 + Cardinality(Mappers(pte[s]))

\* A task sleeps for a slot only while all slots are in use, unless it is already
\* woken or its wakeup is on the way: kunmap_high looks at the queue under the lock
\* and wakes after it.
NoLostWakeup ==
    queue # woken => \/ \A s \in Slots : cnt[s] >= 2
                     \/ \E u \in Tasks : pc[u] = "wake"

\* A task that sleeps for a slot is woken once a slot is given back. (While all
\* slots stay in use, shared by tasks that come and go, it may sleep for ever.)
SleepersWake ==
    \A t \in Tasks : (pc[t] = "sleep" /\ \E s \in Slots : cnt[s] < 2) ~> pc[t] # "sleep"
=============================================================================
