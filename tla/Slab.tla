--------------------------------- MODULE Slab ---------------------------------
(****************************************************************************)
(* One cache of the slab allocator, mm/slab.c: the arrays of the CPUs, the  *)
(* array they share, and the three lists of slabs behind them.              *)
(*                                                                          *)
(* Interrupts are off on a CPU while its array is in use, and a section     *)
(* under cachep->spinlock is one step together with what the same context   *)
(* does to that array.  cache_grow may switch interrupts on, and a shrink   *)
(* drops the lock to destroy a slab.                                        *)
(*                                                                          *)
(* An array is the set of its objects: which of them a call takes is open.  *)
(****************************************************************************)
EXTENDS Objects

CONSTANTS Contexts,    \* the tasks and interrupt handlers that use the cache
          Cpus,        \* the CPUs that are online
          Limit,       \* ac->limit
          Batch,       \* ac->batchcount
          RefillLimit, \* BATCHREFILL_LIMIT
          SharedLimit, \* shared->limit, 0 where there is no shared array
          FreeLimit,   \* cachep->free_limit
          None

ASSUME SlabAssumption ==
    /\ IsFiniteSet(Cpus)
    /\ Limit \in Nat \ {0} /\ Batch \in 1..Limit /\ RefillLimit \in Nat \ {0}
    /\ SharedLimit \in Nat /\ FreeLimit \in Nat
    /\ None \notin Cpus \cup Slabs

VARIABLES
    cache,       \* "absent", "live", or "dying": kmem_cache_destroy is at work
    general,     \* it is one of kmem_cache_init's, which are never destroyed
    homes,       \* the CPUs that have an array, cachep->array[cpu] # NULL
    list,        \* the list a slab is on; "hand" on its way out; "none" if it has no pages
    free,        \* the objects on the bufctl chains of their slabs
    freeObjs,    \* lists.free_objects
    array,       \* the objects in the array of each CPU
    shared,      \* and in the shared array
    used,        \* the objects in the hands of callers
    pc,
    cpu,         \* the CPU on which a context has interrupts off
    victim       \* the slab it is destroying

vars == <<cache, general, homes, list, free, freeObjs, array, shared, used, pc, cpu, victim>>

lists == <<list, free, freeObjs>>
head == <<cache, general, homes>>

\* kmem_cache_init tunes the general caches on the CPU that it runs on, which need not
\* be the one it gave them their first array on (that array's own, smaller limit is not
\* told apart); others are yet to be created.
Init ==
    /\ general \in BOOLEAN
    /\ cache = IF general THEN "live" ELSE "absent"
    /\ IF general THEN \E c, d \in Cpus : homes = {c, d} ELSE homes = {}
    /\ list = [s \in Slabs |-> "none"]
    /\ free = {} /\ freeObjs = 0
    /\ array = [c \in Cpus |-> {}]
    /\ shared = {} /\ used = {}
    /\ pc = [t \in Contexts |-> "idle"]
    /\ cpu = [t \in Contexts |-> None]
    /\ victim = [t \in Contexts |-> None]

Goto(t, label) == pc' = [pc EXCEPT ![t] = label]

CpuFree(c) == \A t \in Contexts : cpu[t] # c

\* t has, or gets, interrupts off on c, at its call or after cache_grow.
Runs(t, c) == \/ pc[t] = "idle" /\ CpuFree(c)
              \/ pc[t] = "retry" /\ cpu[t] = c

\* It returns with interrupts as they were, or goes on with interrupts off.
Leave(t) == Goto(t, "idle") /\ cpu' = [cpu EXCEPT ![t] = None]
Stay(t, c, label) == Goto(t, label) /\ cpu' = [cpu EXCEPT ![t] = c]

Least(m, n) == IF m <= n THEN m ELSE n

(****************************************************************************)
(* kmem_cache_create.                                                       *)
(****************************************************************************)
\* do_tune_cpucache on c gives no other CPU an array, for smp_call_function_all_cpus
\* calls none; nor c itself, if the arrays cannot be allocated.
Tuned(c) == {{c}, {}}

Create(t, c) ==
    /\ cache = "absent" /\ pc[t] = "idle" /\ CpuFree(c)
    /\ cache' = "live"
    /\ homes' \in Tuned(c)
    /\ UNCHANGED <<general, lists, array, shared, used, pc, cpu, victim>>

\* A call on a CPU without an array dereferences NULL.
Oops(t, c) ==
    /\ cache # "absent" /\ c \notin homes
    /\ Runs(t, c)
    /\ Stay(t, c, "oops")
    /\ UNCHANGED <<head, lists, array, shared, used, victim>>

(****************************************************************************)
(* kmem_cache_alloc.                                                        *)
(****************************************************************************)
Allocates(t, c) == cache = "live" /\ c \in homes /\ Runs(t, c)

Take(t, c, o) ==
    /\ Allocates(t, c)
    /\ o \in array[c]
    /\ array' = [array EXCEPT ![c] = @ \ {o}]
    /\ used' = used \cup {o}
    /\ Leave(t)
    /\ UNCHANGED <<head, lists, shared, victim>>

\* How many objects a refill asks for: fewer for an array that is seldom touched.
Batches == {Batch, Least(Batch, RefillLimit)}

\* S comes into the array of c, and o of it goes to the caller.
Refilled(t, c, S, o) ==
    /\ o \in S
    /\ array' = [array EXCEPT ![c] = S \ {o}]
    /\ used' = used \cup {o}
    /\ Leave(t)

\* (Slip: the shared array is not shortened.)
RefillSharedKept(t, c, S, o) ==
    /\ Allocates(t, c) /\ array[c] = {}
    /\ \E n \in Batches : Cardinality(S) = Least(n, Cardinality(shared))
    /\ Refilled(t, c, S, o)
    /\ UNCHANGED <<head, lists, shared, victim>>

RefillShared(t, c, S, o) ==
    /\ Allocates(t, c) /\ array[c] = {}
    /\ \E n \in Batches : Cardinality(S) = Least(n, Cardinality(shared))
    /\ shared' = shared \ S
    /\ Refilled(t, c, S, o)
    /\ UNCHANGED <<head, lists, victim>>

Listed(s) == list[s] \in {"partial", "free"}
Chained == {o \in free : Listed(SlabOf(o))}

\* S is n objects, or all there are: slabs are emptied one after the other, first the
\* partial ones.
Picked(S, n) ==
    LET left == Chained \ S
        cut(s) == Of(s) \cap S # {} /\ Of(s) \cap left # {}
    IN /\ S \subseteq Chained
       /\ Cardinality(S) = Least(n, Cardinality(Chained))
       /\ (\E o \in S : list[SlabOf(o)] = "free") => \A o \in left : list[SlabOf(o)] = "free"
       /\ \A s, u \in Slabs : cut(s) /\ cut(u) => s = u

RefillLists(t, c, S, o) ==
    /\ Allocates(t, c) /\ array[c] = {} /\ shared = {}
    /\ \E n \in Batches : Picked(S, n)
    /\ free' = free \ S
    /\ freeObjs' = freeObjs - Cardinality(S)
    /\ list' = [s \in Slabs |-> IF Of(s) \cap S = {} THEN list[s]
                                ELSE IF Of(s) \cap free' = {} THEN "full" ELSE "partial"]
    /\ Refilled(t, c, S, o)
    /\ UNCHANGED <<head, shared, victim>>

\* Nothing is left: cache_grow, with interrupts on if the caller may wait.
RefillGrow(t, c) ==
    /\ Allocates(t, c) /\ array[c] = {} /\ shared = {} /\ Chained = {}
    /\ Stay(t, c, "grow") \/ Stay(t, None, "grow")
    /\ UNCHANGED <<head, lists, array, shared, used, victim>>

\* Interrupts are off again, on what CPU ever.
Resumes(t, c) == pc[t] = "grow" /\ IF cpu[t] = None THEN CpuFree(c) ELSE cpu[t] = c

GrowAdd(t, c, s) ==
    /\ Resumes(t, c)
    /\ list[s] = "none"
    /\ list' = [list EXCEPT ![s] = "free"]
    /\ free' = free \cup Of(s)
    /\ freeObjs' = freeObjs + Num
    /\ Stay(t, c, "retry")
    /\ UNCHANGED <<head, array, shared, used, victim>>

\* There is no memory for a slab, but the array may have been filled meanwhile.
GrowFails(t, c) ==
    /\ Resumes(t, c)
    /\ IF c \in homes /\ array[c] = {} THEN Leave(t) ELSE Stay(t, c, "retry")
    /\ UNCHANGED <<head, lists, array, shared, used, victim>>

(****************************************************************************)
(* free_block: the objects S go back to their slabs.                        *)
(****************************************************************************)
\* (Slip: a slab is taken for empty when one of its objects is still in use.)
EmptiedEarly(S) == {s \in Slabs : /\ Of(s) \cap S # {}
                                  /\ Cardinality(Of(s) \ (free \cup S)) <= 1}

Emptied(S) == {s \in Slabs : Of(s) \cap S # {} /\ Of(s) \subseteq free \cup S}

\* The slabs D that become empty while the cache has more than free_limit objects are
\* destroyed, until it has not.
FreeBlock(S, D) ==
    /\ D \subseteq Emptied(S)
    /\ freeObjs' = freeObjs + Cardinality(S) - Num * Cardinality(D)
    /\ D = Emptied(S) \/ freeObjs' <= FreeLimit
    /\ D # {} => freeObjs' + Num > FreeLimit
    /\ free' = (free \cup S) \ UNION {Of(s) : s \in D}
    /\ list' = [s \in Slabs |-> IF s \in D THEN "none"
                                ELSE IF s \in Emptied(S) THEN "free"
                                ELSE IF Of(s) \cap S # {} THEN "partial" ELSE list[s]]

(****************************************************************************)
(* kmem_cache_free.                                                         *)
(****************************************************************************)
Frees(t, c, o) == /\ cache # "absent" /\ c \in homes
                  /\ pc[t] = "idle" /\ CpuFree(c)
                  /\ o \in used
                  /\ used' = used \ {o}

Full(c) == Cardinality(array[c]) >= Limit

\* (Slip: there is room for one object more.)
PutOneMore(t, c, o) ==
    /\ Frees(t, c, o)
    /\ Cardinality(array[c]) <= Limit
    /\ array' = [array EXCEPT ![c] = @ \cup {o}]
    /\ UNCHANGED <<head, lists, shared, pc, cpu, victim>>

Put(t, c, o) ==
    /\ Frees(t, c, o)
    /\ ~Full(c)
    /\ array' = [array EXCEPT ![c] = @ \cup {o}]
    /\ UNCHANGED <<head, lists, shared, pc, cpu, victim>>

Room == SharedLimit - Cardinality(shared)

\* cache_flusharray moves the batch S to the shared array, if it has room ...
PutShared(t, c, o, S) ==
    /\ Frees(t, c, o)
    /\ Full(c) /\ Room > 0
    /\ Cardinality(S) = Least(Batch, Room)
    /\ shared' = shared \cup S
    /\ array' = [array EXCEPT ![c] = (@ \ S) \cup {o}]
    /\ UNCHANGED <<head, lists, pc, cpu, victim>>

\* ... or back to the slabs.
PutBlock(t, c, o, S) ==
    /\ Frees(t, c, o)
    /\ Full(c) /\ Room = 0
    /\ Cardinality(S) = Batch
    /\ \E D \in SUBSET Slabs : FreeBlock(S, D)
    /\ array' = [array EXCEPT ![c] = (@ \ S) \cup {o}]
    /\ UNCHANGED <<head, shared, pc, cpu, victim>>

(****************************************************************************)
(* kmem_cache_shrink and kmem_cache_destroy.                                *)
(****************************************************************************)
\* drain_cpu_caches drains the array of this CPU, ...
DrainCpu(t, c) ==
    /\ cache = "live" /\ c \in homes
    /\ pc[t] = "idle" /\ CpuFree(c)
    /\ \E D \in SUBSET Slabs : FreeBlock(array[c], D)
    /\ array' = [array EXCEPT ![c] = {}]
    /\ Goto(t, "shared")
    /\ UNCHANGED <<general, homes, shared, used, cpu, victim>>

Shrink(t, c) == DrainCpu(t, c) /\ UNCHANGED cache

\* (Its callers see to it that nobody else uses the cache, but to free objects.)
Destroy(t, c) ==
    /\ DrainCpu(t, c)
    /\ ~general /\ \A u \in Contexts : pc[u] \in {"idle", "oops"}
    /\ cache' = "dying"

\* (Slip: the shared array was touched of late and is passed over.)
DrainSharedUnforced(t) ==
    /\ pc[t] = "shared"
    /\ Goto(t, "sweep")
    /\ UNCHANGED <<head, lists, array, shared, used, cpu, victim>>

\* ... and the shared one.
DrainShared(t) ==
    /\ pc[t] = "shared"
    /\ \E D \in SUBSET Slabs : FreeBlock(shared, D)
    /\ shared' = {}
    /\ Goto(t, "sweep")
    /\ UNCHANGED <<head, array, used, cpu, victim>>

\* (Slip: free_objects still counts the slab.)
SweepUncounted(t, s) ==
    /\ pc[t] = "sweep" /\ list[s] = "free"
    /\ list' = [list EXCEPT ![s] = "hand"]
    /\ victim' = [victim EXCEPT ![t] = s]
    /\ Goto(t, "unmap")
    /\ UNCHANGED <<head, free, freeObjs, array, shared, used, cpu>>

\* __cache_shrink takes the free slabs off their list one by one, ...
Sweep(t, s) ==
    /\ pc[t] = "sweep" /\ list[s] = "free"
    /\ list' = [list EXCEPT ![s] = "hand"]
    /\ freeObjs' = freeObjs - Num
    /\ victim' = [victim EXCEPT ![t] = s]
    /\ Goto(t, "unmap")
    /\ UNCHANGED <<head, free, array, shared, used, cpu>>

\* ... and destroys each without the lock.
Unmap(t) ==
    /\ pc[t] = "unmap"
    /\ list' = [list EXCEPT ![victim[t]] = "none"]
    /\ free' = free \ Of(victim[t])
    /\ victim' = [victim EXCEPT ![t] = None]
    /\ Goto(t, "sweep")
    /\ UNCHANGED <<head, freeObjs, array, shared, used, cpu>>

Swept(t) == pc[t] = "sweep" /\ \A s \in Slabs : list[s] # "free"

ShrinkEnds(t) ==
    /\ Swept(t) /\ cache = "live"
    /\ Goto(t, "idle")
    /\ UNCHANGED <<head, lists, array, shared, used, cpu, victim>>

DestroyRefused(t) ==
    /\ Swept(t) /\ cache = "dying"
    /\ \E s \in Slabs : list[s] \in {"full", "partial"}
    /\ cache' = "live"
    /\ Goto(t, "idle")
    /\ UNCHANGED <<general, homes, lists, array, shared, used, cpu, victim>>

DestroyEnds(t) ==
    /\ Swept(t) /\ cache = "dying"
    /\ \A s \in Slabs : list[s] \notin {"full", "partial"}
    /\ cache' = "absent" /\ homes' = {}
    /\ array' = [c \in Cpus |-> {}] /\ shared' = {}
    /\ freeObjs' = 0
    /\ Goto(t, "idle")
    /\ UNCHANGED <<general, list, free, used, cpu, victim>>

------------------------------------------------------------------------------
Alloc(t, c) ==
    \/ RefillGrow(t, c) \/ GrowFails(t, c) \/ Oops(t, c)
    \/ \E o \in array[c] : Take(t, c, o)
    \/ \E S \in SUBSET shared, o \in shared : RefillShared(t, c, S, o)
    \/ \E S \in SUBSET free, o \in free : RefillLists(t, c, S, o)
    \/ \E s \in Slabs : GrowAdd(t, c, s)

Free(t, c) ==
    \E o \in used : \/ Put(t, c, o)
                    \/ \E S \in SUBSET array[c] : PutShared(t, c, o, S) \/ PutBlock(t, c, o, S)

Next ==
    \E t \in Contexts :
        \/ \E c \in Cpus : Create(t, c) \/ Alloc(t, c) \/ Free(t, c) \/ Shrink(t, c) \/ Destroy(t, c)
        \/ DrainShared(t) \/ Unmap(t) \/ \E s \in Slabs : Sweep(t, s)
        \/ ShrinkEnds(t) \/ DestroyRefused(t) \/ DestroyEnds(t)

Spec == Init /\ [][Next]_vars

------------------------------------------------------------------------------
(****************************************************************************)
(* Properties.                                                              *)
(****************************************************************************)
\* Every variable has its type, and no array has more objects than its limit.
TypeOK ==
    /\ cache \in {"absent", "live", "dying"} /\ general \in BOOLEAN
    /\ homes \subseteq Cpus
    /\ list \in [Slabs -> {"none", "full", "partial", "free", "hand"}]
    /\ free \subseteq AllObjects /\ used \subseteq AllObjects /\ freeObjs \in Int
    /\ array \in [Cpus -> SUBSET AllObjects] /\ shared \subseteq AllObjects
    /\ \A c \in Cpus : Cardinality(array[c]) <= Limit
    /\ Cardinality(shared) <= SharedLimit
    /\ pc \in [Contexts -> {"idle", "grow", "retry", "oops", "shared", "sweep", "unmap"}]
    /\ cpu \in [Contexts -> Cpus \cup {None}]
    /\ victim \in [Contexts -> Slabs \cup {None}]

\* Every object of a slab that has pages is in one place, be it its slab, an array or
\* a caller, and nothing refers to an object whose slab was destroyed.
OnePlace ==
    /\ free \cup shared \cup used \cup UNION {array[c] : c \in Cpus}
         = UNION {Of(s) : s \in {u \in Slabs : list[u] # "none"}}
    /\ free \cap shared = {} /\ free \cap used = {} /\ shared \cap used = {}
    /\ \A c \in Cpus : array[c] \cap (free \cup shared \cup used) = {}
    /\ \A c, d \in Cpus : c # d => array[c] \cap array[d] = {}

\* Each slab is on the list for its state and free_objects counts what is on the
\* lists: the errors s_show looks for do not occur.
Accounting ==
    /\ \A s \in Slabs :
         /\ list[s] = "full" => Of(s) \cap free = {}
         /\ list[s] = "partial" => Of(s) \cap free # {} /\ ~ Of(s) \subseteq free
         /\ list[s] \in {"free", "hand"} => Of(s) \subseteq free
    /\ freeObjs = Cardinality(Chained)

\* A cache of which no object is in use can be destroyed: a destroy is refused only
\* for objects in use, or given back to an array since it began.
DestroyEmpties ==
    [][\A t \in Contexts : DestroyRefused(t) =>
          used # {} \/ \E c \in Cpus : array[c] # {}]_vars

\* The cache keeps what it promises to its callers.
Owner == INSTANCE ObjectOwner WITH slabs <- {s \in Slabs : list[s] # "none"}, owned <- used
Owned == Owner!Spec
================================================================================
