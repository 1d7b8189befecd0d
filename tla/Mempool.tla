------------------------------- MODULE Mempool -------------------------------
(****************************************************************************)
(* The reserve of preallocated elements of mm/mempool.c, and the contexts   *)
(* that allocate, free, resize and destroy it concurrently.                 *)
(*                                                                          *)
(* A section under pool->lock is one step, and so is a read of curr_nr made *)
(* without the lock.  pool->alloc may return NULL on any call.  Elements    *)
(* are interchangeable: the model counts them, and stops where one would be *)
(* stored beyond the end of the array.                                      *)
(****************************************************************************)
EXTENDS Integers, FiniteSets

CONSTANTS Callers,     \* the contexts that allocate and free elements
          Resizers,    \* the contexts that call mempool_resize
          Created,     \* the values of min_nr that pools are created with
          Sizes,       \* the values of min_nr that resizes ask for
          MaxHeld      \* bound on the elements a caller holds

Contexts == Callers \cup Resizers

ASSUME MempoolAssumption ==
    /\ Created \subseteq Nat \ {0}
    /\ Sizes \subseteq Nat \ {0}
    /\ MaxHeld \in Nat \ {0}
    /\ Contexts # {} /\ IsFiniteSet(Contexts)

VARIABLES
    pool,        \* "none" before create and after destroy, "live", "bug" after BUG(),
                 \* "overrun" after a store outside of pool->elements
    curr,        \* pool->curr_nr
    minNr,       \* pool->min_nr
    size,        \* the length of the array pool->elements
    waiting,     \* the contexts on pool->wait
    pc,          \* where each context is
    wait,        \* its gfp_mask has __GFP_WAIT
    target,      \* the new_min_nr of its resize, while it is still read
    held,        \* the elements it has allocated and not freed
    past         \* history: what resizes have done to this pool.  One has "grown" it by
                 \* an element; one fell "short" of elements to grow it by; one has
                 \* "raised" min_nr at the end of its shrinking loop, because another
                 \* has lowered it in the meantime

vars == <<pool, curr, minNr, size, waiting, pc, wait, target, held, past>>

Goto(t, label) == pc' = [pc EXCEPT ![t] = label]

(****************************************************************************)
(* Slips that the properties are there to find; no action of Next is one.   *)
(****************************************************************************)
\* remove_element of an empty reserve.
ReserveBlindly(t) ==
    /\ pc[t] = "reserve"
    /\ curr' = curr - 1
    /\ held' = [held EXCEPT ![t] = @ + 1]
    /\ Goto(t, "idle")
    /\ UNCHANGED <<pool, minNr, size, waiting, wait, target, past>>

\* The sleeper does not look at the reserve again.
CheckNothing(t) ==
    /\ pc[t] = "check"
    /\ Goto(t, "sleep")
    /\ UNCHANGED <<pool, curr, minNr, size, waiting, wait, target, held, past>>

\* mempool_free fills the reserve up to one less than it should.
FreeEarly(t) ==
    /\ pool = "live" /\ pc[t] = "idle" /\ held[t] > 0
    /\ Goto(t, IF curr < minNr - 1 THEN "return" ELSE "discard")
    /\ UNCHANGED <<pool, curr, minNr, size, waiting, wait, target, held, past>>

\* mempool_free forgets wake_up.
ReturnQuietly(t) ==
    /\ pc[t] = "return"
    /\ IF curr < minNr
       THEN /\ curr' = curr + 1
            /\ held' = [held EXCEPT ![t] = @ - 1]
            /\ Goto(t, "idle")
       ELSE /\ Goto(t, "discard")
            /\ UNCHANGED <<curr, held>>
    /\ UNCHANGED <<pool, minNr, size, waiting, wait, target, past>>

Init ==
    /\ pool = "none"
    /\ curr = 0 /\ minNr = 0 /\ size = 0
    /\ waiting = {}
    /\ pc = [t \in Contexts |-> "idle"]
    /\ wait = [t \in Contexts |-> FALSE]
    /\ target = [t \in Contexts |-> 0]
    /\ held = [t \in Contexts |-> 0]
    /\ past = {}

\* mempool_create returns a full pool, or NULL: nobody sees it half filled.
Create(n) ==
    /\ pool = "none"
    /\ pool' = "live"
    /\ curr' = n /\ minNr' = n /\ size' = n
    /\ past' = {}
    /\ UNCHANGED <<waiting, pc, wait, target, held>>

\* The caller of mempool_destroy sees to it that nothing is under way and every
\* element has been returned.
Destroy ==
    /\ pool = "live"
    /\ \A t \in Contexts : pc[t] = "idle" /\ held[t] = 0
    /\ IF curr # minNr
       THEN pool' = "bug" /\ UNCHANGED <<curr, minNr, size>>
       ELSE pool' = "none" /\ curr' = 0 /\ minNr' = 0 /\ size' = 0
    /\ UNCHANGED <<waiting, pc, wait, target, held, past>>

(****************************************************************************)
(* mempool_alloc.                                                           *)
(****************************************************************************)
Alloc(t, w) ==
    /\ pool = "live" /\ pc[t] = "idle" /\ held[t] < MaxHeld
    /\ wait' = [wait EXCEPT ![t] = w]
    /\ Goto(t, "alloc")
    /\ UNCHANGED <<pool, curr, minNr, size, waiting, target, held, past>>

\* pool->alloc has memory.
AllocFn(t) ==
    /\ pc[t] = "alloc"
    /\ held' = [held EXCEPT ![t] = @ + 1]
    /\ wait' = [wait EXCEPT ![t] = FALSE]
    /\ Goto(t, "idle")
    /\ UNCHANGED <<pool, curr, minNr, size, waiting, target, past>>

\* pool->alloc has none ...
AllocFnFails(t) ==
    /\ pc[t] = "alloc"
    /\ Goto(t, "reserve")
    /\ UNCHANGED <<pool, curr, minNr, size, waiting, wait, target, held, past>>

\* ... and the reserve is tried; a caller that may not sleep gets NULL.
Reserve(t) ==
    /\ pc[t] = "reserve"
    /\ IF curr > 0
       THEN /\ curr' = curr - 1
            /\ held' = [held EXCEPT ![t] = @ + 1]
            /\ wait' = [wait EXCEPT ![t] = FALSE]
            /\ Goto(t, "idle")
       ELSE /\ Goto(t, IF wait[t] THEN "prepare" ELSE "idle")
            /\ UNCHANGED <<curr, held, wait>>
    /\ UNCHANGED <<pool, minNr, size, waiting, target, past>>

PrepareToWait(t) ==
    /\ pc[t] = "prepare"
    /\ waiting' = waiting \cup {t}
    /\ Goto(t, "check")
    /\ UNCHANGED <<pool, curr, minNr, size, wait, target, held, past>>

Check(t) ==
    /\ pc[t] = "check"
    /\ Goto(t, IF curr = 0 THEN "sleep" ELSE "finish")
    /\ UNCHANGED <<pool, curr, minNr, size, waiting, wait, target, held, past>>

\* io_schedule returns to a context that was woken, then or before.
Woken(t) ==
    /\ pc[t] = "sleep"
    /\ t \notin waiting
    /\ Goto(t, "finish")
    /\ UNCHANGED <<pool, curr, minNr, size, waiting, wait, target, held, past>>

FinishWait(t) ==
    /\ pc[t] = "finish"
    /\ waiting' = waiting \ {t}
    /\ Goto(t, "alloc")
    /\ UNCHANGED <<pool, curr, minNr, size, wait, target, held, past>>

(****************************************************************************)
(* mempool_free.                                                            *)
(****************************************************************************)
\* The first test is made without the lock.
Free(t) ==
    /\ pool = "live" /\ pc[t] = "idle" /\ held[t] > 0
    /\ Goto(t, IF curr < minNr THEN "return" ELSE "discard")
    /\ UNCHANGED <<pool, curr, minNr, size, waiting, wait, target, held, past>>

\* add_element has a place in the array.
Room == curr < size

Return(t) ==
    /\ pc[t] = "return"
    /\ IF curr < minNr
       THEN /\ Room
            /\ curr' = curr + 1
            /\ held' = [held EXCEPT ![t] = @ - 1]
            /\ Goto(t, "wake")
       ELSE /\ Goto(t, "discard")
            /\ UNCHANGED <<curr, held>>
    /\ UNCHANGED <<pool, minNr, size, waiting, wait, target, past>>

WakeUp(t) ==
    /\ pc[t] = "wake"
    /\ waiting' = {}
    /\ Goto(t, "idle")
    /\ UNCHANGED <<pool, curr, minNr, size, wait, target, held, past>>

\* pool->free
Discard(t) ==
    /\ pc[t] = "discard"
    /\ held' = [held EXCEPT ![t] = @ - 1]
    /\ Goto(t, "idle")
    /\ UNCHANGED <<pool, curr, minNr, size, waiting, wait, target, past>>

(****************************************************************************)
(* mempool_resize.                                                          *)
(****************************************************************************)
\* One turn of the shrinking loop: it removes an element, to free it without the
\* lock, or it is done.
ShrinkTurn(t, n) ==
    IF n < curr
    THEN /\ curr' = curr - 1
         /\ target' = [target EXCEPT ![t] = n]
         /\ Goto(t, "shrink")
         /\ UNCHANGED <<minNr, past>>
    ELSE /\ minNr' = n
         /\ past' = IF n > minNr THEN past \cup {"raised"} ELSE past
         /\ target' = [target EXCEPT ![t] = 0]
         /\ Goto(t, "idle")
         /\ UNCHANGED curr

Resize(t, n) ==
    /\ pool = "live" /\ pc[t] = "idle"
    /\ IF n <= minNr
       THEN ShrinkTurn(t, n)
       ELSE /\ target' = [target EXCEPT ![t] = n]
            /\ Goto(t, "grow")
            /\ UNCHANGED <<curr, minNr, past>>
    /\ UNCHANGED <<pool, size, waiting, wait, held>>

Shrink(t) ==
    /\ pc[t] = "shrink"
    /\ ShrinkTurn(t, target[t])
    /\ UNCHANGED <<pool, size, waiting, wait, held>>

\* kmalloc of the new array fails: -ENOMEM.
GrowFails(t) ==
    /\ pc[t] = "grow"
    /\ Goto(t, "idle")
    /\ target' = [target EXCEPT ![t] = 0]
    /\ UNCHANGED <<pool, curr, minNr, size, waiting, wait, held, past>>

\* (Slip: it is not tested again whether another resize was first.)
GrowAnyway(t) ==
    /\ pc[t] = "grow"
    /\ size' = target[t]
    /\ minNr' = target[t]
    /\ Goto(t, IF curr < target[t] THEN "fill" ELSE "idle")
    /\ target' = [target EXCEPT ![t] = 0]
    /\ UNCHANGED <<pool, curr, waiting, wait, held, past>>

\* The new array takes the place of the old one, unless another resize was first.
Grow(t) ==
    /\ pc[t] = "grow"
    /\ IF target[t] <= minNr
       THEN Goto(t, "idle") /\ UNCHANGED <<minNr, size>>
       ELSE /\ size' = target[t]
            /\ minNr' = target[t]
            /\ Goto(t, IF curr < target[t] THEN "fill" ELSE "idle")
    /\ target' = [target EXCEPT ![t] = 0]
    /\ UNCHANGED <<pool, curr, waiting, wait, held, past>>

\* pool->alloc gives an element, which goes into the pool if there is room yet.
Fill(t) ==
    /\ pc[t] = "fill"
    /\ IF curr < minNr
       THEN /\ Room
            /\ curr' = curr + 1
            /\ past' = past \cup {"grown"}
            /\ Goto(t, IF curr + 1 < minNr THEN "fill" ELSE "idle")
       ELSE Goto(t, "idle") /\ UNCHANGED <<curr, past>>
    /\ UNCHANGED <<pool, minNr, size, waiting, wait, target, held>>

FillFails(t) ==
    /\ pc[t] = "fill"
    /\ Goto(t, "idle")
    /\ past' = past \cup {"short"}
    /\ UNCHANGED <<pool, curr, minNr, size, waiting, wait, target, held>>

\* add_element stores an element behind the end of the array.
AddOutside(t) ==
    /\ pc[t] \in {"return", "fill"}
    /\ curr < minNr /\ ~Room
    /\ pool' = "overrun"
    /\ UNCHANGED <<curr, minNr, size, waiting, pc, wait, target, held, past>>

------------------------------------------------------------------------------
Continue(t) ==
    /\ pool # "overrun"
    /\ \/ AllocFn(t) \/ AllocFnFails(t) \/ Reserve(t)
       \/ PrepareToWait(t) \/ Check(t) \/ Woken(t) \/ FinishWait(t)
       \/ Return(t) \/ WakeUp(t) \/ Discard(t)
       \/ Shrink(t) \/ GrowFails(t) \/ Grow(t) \/ Fill(t) \/ FillFails(t)
       \/ AddOutside(t)

Next ==
    \/ \E n \in Created : Create(n)
    \/ Destroy
    \/ \E t \in Callers : Free(t) \/ \E w \in BOOLEAN : Alloc(t, w)
    \/ \E t \in Resizers, n \in Sizes : Resize(t, n)
    \/ \E t \in Contexts : Continue(t)

Spec == Init /\ [][Next]_vars

\* Contexts run, and callers give back what they hold.  pool->alloc may fail for ever.
Fairness ==
    /\ \A t \in Contexts : WF_vars(Continue(t))
    /\ \A t \in Callers : WF_vars(Free(t))

FairSpec == Spec /\ Fairness

------------------------------------------------------------------------------
(****************************************************************************)
(* Properties.                                                              *)
(****************************************************************************)
Labels == {"idle", "alloc", "reserve", "prepare", "check", "sleep", "finish",
           "return", "wake", "discard", "shrink", "grow", "fill"}

\* Every variable has its type.
TypeOK ==
    /\ pool \in {"none", "live", "bug", "overrun"}
    /\ curr \in Nat /\ minNr \in Nat /\ size \in Nat
    /\ waiting \subseteq Contexts
    /\ pc \in [Contexts -> Labels]
    /\ wait \in [Contexts -> BOOLEAN]
    /\ target \in [Contexts -> Sizes \cup {0}]
    /\ held \in [Contexts -> 0..MaxHeld]
    /\ past \subseteq {"grown", "short", "raised"}

\* The elements of t that may still go back to the reserve: not the one that
\* mempool_free is about to hand to pool->free.
Due == [t \in Contexts |-> IF pc[t] = "discard" THEN held[t] - 1 ELSE held[t]]

\* The elements that make up f, which says how many each context has.
Elements(f) == {e \in Contexts \X (1..MaxHeld) : e[2] <= f[e[1]]}

\* No resize has left the pool with a min_nr that nobody makes up for.
Unspoilt == past \cap {"short", "raised"} = {}

\* The pool keeps its promise: when nobody is adding or removing elements, those in
\* the reserve and those that will come back to it are at least min_nr, although
\* mempool_free decides on a curr_nr it has read without the lock.  So once every
\* element has been returned BUG() of mempool_destroy, "There were outstanding
\* elements", is not reached.  Only a resize that fell short of elements, or whose
\* min_nr came too late, leaves the pool with less.
ReserveKept ==
    Unspoilt =>
        /\ pool # "bug"
        /\ \/ \E t \in Contexts : pc[t] \in {"shrink", "fill"}
           \/ curr + Cardinality(Elements(Due)) >= minNr

\* Nobody sleeps on pool->wait while there is an element, unless a wakeup is on its
\* way: the element may arrive between the look at the reserve and the sleep.  (A
\* resize that grows the pool adds elements and wakes nobody.)
NoLostWakeup ==
    "grown" \notin past /\ (\E t \in waiting : pc[t] = "sleep") /\ curr > 0 =>
        \E u \in Contexts : pc[u] = "wake"

\* mempool_alloc: "this function *never* fails when called from process contexts":
\* a caller that has gone to sleep for an element does not sleep for ever, unless a
\* resize adds elements, which wakes nobody, or the array is overrun.
SleepersWake ==
    []("grown" \notin past /\ pool # "overrun") => \A t \in Callers : pc[t] = "sleep" ~> pc[t] # "sleep"

\* min_nr is the "nr of elements at *elements": the array has room for all that
\* add_element may store, and the reserve never holds more, however many resizes are
\* under way.  (One of them can break it: the shrinking loop ends with a store of a
\* min_nr that another resize has lowered, and whose array another may have replaced.)
WithinArray == curr <= minNr /\ ("raised" \notin past => minNr <= size)
=============================================================================
