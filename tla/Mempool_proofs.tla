--------------------------- MODULE Mempool_proofs ---------------------------
(****************************************************************************)
(* The memory pool, for any number of callers and any sizes.                *)
(****************************************************************************)
EXTENDS Mempool, FiniteSetTheorems, TLAPS

\* Who may be where: a pool that is not there is at rest, resizes belong to the
\* resizers, and a caller that allocates has room for one element more.
Places ==
    /\ pool \in {"none", "bug"} => \A t \in Contexts : pc[t] = "idle"
    /\ \A t \in Contexts :
         /\ pc[t] \in {"shrink", "grow", "fill"} => t \in Resizers
         /\ pc[t] \in {"alloc", "reserve", "prepare", "check", "sleep", "finish"} =>
              held[t] < MaxHeld
         /\ pc[t] \in {"return", "discard"} => held[t] > 0

LEMMA TargetIsNat ==
    ASSUME TypeOK, NEW t \in Contexts
    PROVE  target[t] \in Nat
<1>1. target[t] \in Sizes \cup {0}
  BY DEF TypeOK
<1>2. \A n \in Sizes : n \in Nat
  BY MempoolAssumption
<1> QED
  BY <1>1, <1>2

LEMMA BaseInit == Init => TypeOK /\ Places
  BY MempoolAssumption DEF Init, TypeOK, Places, Labels

LEMMA BaseStep == TypeOK /\ Places /\ [Next]_vars => TypeOK' /\ Places'
<1> SUFFICES ASSUME TypeOK, Places, [Next]_vars PROVE TypeOK' /\ Places'
  OBVIOUS
<1> USE MempoolAssumption DEF TypeOK, Places, Labels, Goto
<1>a. Callers \subseteq Contexts /\ Resizers \subseteq Contexts
  BY DEF Contexts
<1>b. \A t \in Contexts : target[t] \in Nat
  BY TargetIsNat
<1>1. CASE UNCHANGED vars
  BY <1>1 DEF vars
<1>2. ASSUME NEW n \in Created, Create(n) PROVE TypeOK' /\ Places'
  BY <1>2 DEF Create
<1>3. CASE Destroy
  BY <1>3 DEF Destroy
<1>4. ASSUME NEW t \in Callers, NEW w \in BOOLEAN, Alloc(t, w) PROVE TypeOK' /\ Places'
  BY <1>4, <1>a DEF Alloc
<1>5. ASSUME NEW t \in Callers, Free(t) PROVE TypeOK' /\ Places'
  BY <1>5, <1>a DEF Free
<1>6. ASSUME NEW t \in Resizers, NEW n \in Sizes, Resize(t, n) PROVE TypeOK' /\ Places'
  <2>1. t \in Contexts /\ n \in Nat
    BY <1>a
  <2>2. CASE n <= minNr /\ n < curr
    <3>1. TypeOK'
      <4>1. curr' \in Nat /\ minNr' \in Nat /\ size' \in Nat
        BY <1>6, <1>a, <2>1, <2>2 DEF Resize, ShrinkTurn
      <4>2. /\ pool' \in {"none", "live", "bug", "overrun"} /\ waiting' \subseteq Contexts
           /\ pc' \in [Contexts -> Labels] /\ held' \in [Contexts -> 0..MaxHeld]
           /\ wait' \in [Contexts -> BOOLEAN]
        BY <1>6, <1>a, <2>1, <2>2 DEF Resize, ShrinkTurn
      <4>3. target' \in [Contexts -> Sizes \cup {0}]
        BY <1>6, <1>a, <2>1, <2>2 DEF Resize, ShrinkTurn
      <4>4. past' \subseteq {"grown", "short", "raised"}
        BY <1>6, <1>a, <2>1, <2>2 DEF Resize, ShrinkTurn
      <4> QED
        BY <4>1, <4>2, <4>3, <4>4
    <3>2. Places'
      BY <1>6, <1>a, <2>1, <2>2 DEF Resize, ShrinkTurn
    <3> QED
      BY <3>1, <3>2
  <2>3. CASE n <= minNr /\ ~(n < curr)
    <3>1. TypeOK'
      <4>1. curr' \in Nat /\ minNr' \in Nat /\ size' \in Nat
        BY <1>6, <1>a, <2>1, <2>3 DEF Resize, ShrinkTurn
      <4>2. /\ pool' \in {"none", "live", "bug", "overrun"} /\ waiting' \subseteq Contexts
           /\ pc' \in [Contexts -> Labels] /\ held' \in [Contexts -> 0..MaxHeld]
           /\ wait' \in [Contexts -> BOOLEAN]
        BY <1>6, <1>a, <2>1, <2>3 DEF Resize, ShrinkTurn
      <4>3. target' \in [Contexts -> Sizes \cup {0}]
        BY <1>6, <1>a, <2>1, <2>3 DEF Resize, ShrinkTurn
      <4>4. past' \subseteq {"grown", "short", "raised"}
        <5>1. past' = past \/ past' = past \cup {"raised"}
          BY <1>6, <1>a, <2>1, <2>3 DEF Resize, ShrinkTurn
        <5> QED
          BY <5>1
      <4> QED
        BY <4>1, <4>2, <4>3, <4>4
    <3>2. Places'
      BY <1>6, <1>a, <2>1, <2>3 DEF Resize, ShrinkTurn
    <3> QED
      BY <3>1, <3>2
  <2>4. CASE ~(n <= minNr)
    <3>1. TypeOK'
      <4>1. curr' \in Nat /\ minNr' \in Nat /\ size' \in Nat
        BY <1>6, <1>a, <2>1, <2>4 DEF Resize
      <4>2. /\ pool' \in {"none", "live", "bug", "overrun"} /\ waiting' \subseteq Contexts
           /\ pc' \in [Contexts -> Labels] /\ held' \in [Contexts -> 0..MaxHeld]
           /\ wait' \in [Contexts -> BOOLEAN]
        BY <1>6, <1>a, <2>1, <2>4 DEF Resize
      <4>3. target' \in [Contexts -> Sizes \cup {0}]
        BY <1>6, <1>a, <2>1, <2>4 DEF Resize
      <4>4. past' \subseteq {"grown", "short", "raised"}
        BY <1>6, <1>a, <2>1, <2>4 DEF Resize
      <4> QED
        BY <4>1, <4>2, <4>3, <4>4
    <3>2. Places'
      BY <1>6, <1>a, <2>1, <2>4 DEF Resize
    <3> QED
      BY <3>1, <3>2
  <2> QED
    BY <2>2, <2>3, <2>4
<1>7. ASSUME NEW t \in Contexts, Continue(t) PROVE TypeOK' /\ Places'
  <2>1. CASE AllocFn(t)
    BY <2>1 DEF AllocFn
  <2>2. CASE AllocFnFails(t)
    BY <2>2 DEF AllocFnFails
  <2>3. CASE Reserve(t)
    <3>1. CASE curr > 0
      <4>1. TypeOK'
        <5>1. curr' \in Nat /\ minNr' \in Nat /\ size' \in Nat
          BY <2>3, <3>1 DEF Reserve
        <5>2. /\ pool' \in {"none", "live", "bug", "overrun"} /\ waiting' \subseteq Contexts
             /\ pc' \in [Contexts -> Labels] /\ held' \in [Contexts -> 0..MaxHeld]
             /\ wait' \in [Contexts -> BOOLEAN]
          <6>1. held[t] < MaxHeld /\ held[t] \in 0..MaxHeld
            BY <2>3 DEF Reserve
          <6>2. held[t] + 1 \in 0..MaxHeld
            BY <6>1
          <6>3. held' \in [Contexts -> 0..MaxHeld]
            BY <2>3, <3>1, <6>2 DEF Reserve
          <6>4. wait' \in [Contexts -> BOOLEAN]
            BY <2>3, <3>1 DEF Reserve
          <6>5. pc' \in [Contexts -> Labels]
            BY <2>3, <3>1 DEF Reserve
          <6> QED
            BY <2>3, <6>3, <6>4, <6>5 DEF Reserve
        <5>3. target' \in [Contexts -> Sizes \cup {0}]
          BY <2>3, <3>1 DEF Reserve
        <5>4. past' \subseteq {"grown", "short", "raised"}
          BY <2>3, <3>1 DEF Reserve
        <5> QED
          BY <5>1, <5>2, <5>3, <5>4
      <4>2. Places'
        BY <2>3, <3>1 DEF Reserve
      <4> QED
        BY <4>1, <4>2
    <3>2. CASE ~(curr > 0)
      <4>1. TypeOK'
        <5>1. curr' \in Nat /\ minNr' \in Nat /\ size' \in Nat
          BY <2>3, <3>2 DEF Reserve
        <5>2. /\ pool' \in {"none", "live", "bug", "overrun"} /\ waiting' \subseteq Contexts
             /\ pc' \in [Contexts -> Labels] /\ held' \in [Contexts -> 0..MaxHeld]
             /\ wait' \in [Contexts -> BOOLEAN]
          BY <2>3, <3>2 DEF Reserve
        <5>3. target' \in [Contexts -> Sizes \cup {0}]
          BY <2>3, <3>2 DEF Reserve
        <5>4. past' \subseteq {"grown", "short", "raised"}
          BY <2>3, <3>2 DEF Reserve
        <5> QED
          BY <5>1, <5>2, <5>3, <5>4
      <4>2. Places'
        BY <2>3, <3>2 DEF Reserve
      <4> QED
        BY <4>1, <4>2
    <3> QED
      BY <3>1, <3>2
  <2>4. CASE PrepareToWait(t)
    BY <2>4 DEF PrepareToWait
  <2>5. CASE Check(t)
    BY <2>5 DEF Check
  <2>6. CASE Woken(t)
    BY <2>6 DEF Woken
  <2>7. CASE FinishWait(t)
    BY <2>7 DEF FinishWait
  <2>8. CASE Return(t)
    BY <2>8 DEF Return
  <2>9. CASE WakeUp(t)
    BY <2>9 DEF WakeUp
  <2>10. CASE Discard(t)
    BY <2>10 DEF Discard
  <2>11. CASE Shrink(t)
    <3>1. CASE target[t] < curr
      <4>1. TypeOK'
        <5>1. curr' \in Nat /\ minNr' \in Nat /\ size' \in Nat
          BY <2>11, <1>b, <3>1 DEF Shrink, ShrinkTurn
        <5>2. /\ pool' \in {"none", "live", "bug", "overrun"} /\ waiting' \subseteq Contexts
             /\ pc' \in [Contexts -> Labels] /\ held' \in [Contexts -> 0..MaxHeld]
             /\ wait' \in [Contexts -> BOOLEAN]
          BY <2>11, <1>b, <3>1 DEF Shrink, ShrinkTurn
        <5>3. target' \in [Contexts -> Sizes \cup {0}]
          BY <2>11, <1>b, <3>1 DEF Shrink, ShrinkTurn
        <5>4. past' \subseteq {"grown", "short", "raised"}
          BY <2>11, <1>b, <3>1 DEF Shrink, ShrinkTurn
        <5> QED
          BY <5>1, <5>2, <5>3, <5>4
      <4>2. Places'
        BY <2>11, <1>b, <3>1 DEF Shrink, ShrinkTurn
      <4> QED
        BY <4>1, <4>2
    <3>2. CASE ~(target[t] < curr)
      <4>1. TypeOK'
        <5>1. curr' \in Nat /\ minNr' \in Nat /\ size' \in Nat
          BY <2>11, <1>b, <3>2 DEF Shrink, ShrinkTurn
        <5>2. /\ pool' \in {"none", "live", "bug", "overrun"} /\ waiting' \subseteq Contexts
             /\ pc' \in [Contexts -> Labels] /\ held' \in [Contexts -> 0..MaxHeld]
             /\ wait' \in [Contexts -> BOOLEAN]
          BY <2>11, <1>b, <3>2 DEF Shrink, ShrinkTurn
        <5>3. target' \in [Contexts -> Sizes \cup {0}]
          BY <2>11, <1>b, <3>2 DEF Shrink, ShrinkTurn
        <5>4. past' \subseteq {"grown", "short", "raised"}
          BY <2>11, <1>b, <3>2 DEF Shrink, ShrinkTurn
        <5> QED
          BY <5>1, <5>2, <5>3, <5>4
      <4>2. Places'
        BY <2>11, <1>b, <3>2 DEF Shrink, ShrinkTurn
      <4> QED
        BY <4>1, <4>2
    <3> QED
      BY <3>1, <3>2
  <2>12. CASE GrowFails(t)
    BY <2>12 DEF GrowFails
  <2>13. CASE Grow(t)
    BY <2>13, <1>b DEF Grow
  <2>14. CASE Fill(t)
    <3>1. CASE curr < minNr
      <4>1. TypeOK'
        <5>1. curr' \in Nat /\ minNr' \in Nat /\ size' \in Nat
          BY <2>14, <3>1 DEF Fill
        <5>2. /\ pool' \in {"none", "live", "bug", "overrun"} /\ waiting' \subseteq Contexts
             /\ pc' \in [Contexts -> Labels] /\ held' \in [Contexts -> 0..MaxHeld]
             /\ wait' \in [Contexts -> BOOLEAN]
          BY <2>14, <3>1 DEF Fill
        <5>3. target' \in [Contexts -> Sizes \cup {0}]
          BY <2>14, <3>1 DEF Fill
        <5>4. past' \subseteq {"grown", "short", "raised"}
          BY <2>14, <3>1 DEF Fill
        <5> QED
          BY <5>1, <5>2, <5>3, <5>4
      <4>2. Places'
        BY <2>14, <3>1 DEF Fill
      <4> QED
        BY <4>1, <4>2
    <3>2. CASE ~(curr < minNr)
      BY <2>14, <3>2 DEF Fill
    <3> QED
      BY <3>1, <3>2
  <2>15. CASE FillFails(t)
    BY <2>15 DEF FillFails
  <2>16. CASE AddOutside(t)
    BY <2>16 DEF AddOutside
  <2> QED
    BY <1>7, <2>1, <2>2, <2>3, <2>4, <2>5, <2>6, <2>7, <2>8, <2>9, <2>10, <2>11,
       <2>12, <2>13, <2>14, <2>15, <2>16 DEF Continue
<1> QED
  BY <1>1, <1>2, <1>3, <1>4, <1>5, <1>6, <1>7 DEF Next

\* Every variable of the pool keeps its type, with any number of resizers.
THEOREM TypeCorrect == Spec => []TypeOK
<1>1. TypeOK /\ Places => TypeOK
  OBVIOUS
<1> QED
  BY BaseInit, BaseStep, PTL DEF Spec

------------------------------------------------------------------------------
\* NoLostWakeup, once it is known that no resize has added an element.
WakeupDue == (\E t \in waiting : pc[t] = "sleep") /\ curr > 0 => \E u \in Contexts : pc[u] = "wake"

LEMMA WakeupStep ==
    ASSUME TypeOK, Places, NoLostWakeup, [Next]_vars
    PROVE  NoLostWakeup'
<1> SUFFICES ASSUME "grown" \notin past' PROVE WakeupDue'
  BY DEF NoLostWakeup, WakeupDue
<1> USE DEF TypeOK, Places, Goto
\* A pool that is created is new, and nobody sleeps.
<1>2. ASSUME NEW n \in Created, Create(n) PROVE WakeupDue'
  BY <1>2 DEF Create, WakeupDue
<1>w. "grown" \notin past => WakeupDue
  BY DEF NoLostWakeup, WakeupDue
<1>1. CASE UNCHANGED vars
  BY <1>1, <1>w DEF vars, WakeupDue
<1>3. CASE Destroy
  BY <1>3, <1>w DEF Destroy, WakeupDue
<1>4. ASSUME NEW t \in Callers, Free(t) \/ \E w \in BOOLEAN : Alloc(t, w)
      PROVE  WakeupDue'
  BY <1>4, <1>w DEF Free, Alloc, WakeupDue
<1>5. ASSUME NEW t \in Resizers, NEW n \in Sizes, Resize(t, n)
      PROVE  WakeupDue'
  BY <1>5, <1>w DEF Resize, ShrinkTurn, WakeupDue, Contexts
<1>6. ASSUME NEW t \in Contexts, Continue(t) PROVE WakeupDue'
  <2>1. CASE AllocFn(t) \/ AllocFnFails(t) \/ Woken(t) \/ FinishWait(t) \/ Discard(t)
    BY <2>1, <1>w DEF AllocFn, AllocFnFails, Woken, FinishWait, Discard, WakeupDue
  <2>2. CASE Reserve(t)
    BY <2>2, <1>w DEF Reserve, WakeupDue
  <2>3. CASE PrepareToWait(t)
    BY <2>3, <1>w DEF PrepareToWait, WakeupDue
  \* To sleep only when there is nothing in the reserve.
  <2>4. CASE Check(t)
    BY <2>4, <1>w DEF Check, WakeupDue
  \* The element is there: its wakeup is on the way.
  <2>5. CASE Return(t)
    BY <2>5, <1>w DEF Return, WakeupDue
  <2>6. CASE WakeUp(t)
    BY <2>6 DEF WakeUp, WakeupDue
  \* A resize adds no element without leaving its trace.
  <2>7. CASE Shrink(t) \/ GrowFails(t) \/ Grow(t) \/ FillFails(t) \/ AddOutside(t)
    BY <2>7, <1>w DEF Shrink, ShrinkTurn, GrowFails, Grow, FillFails, AddOutside, WakeupDue
  <2>8. CASE Fill(t)
    BY <2>8, <1>w DEF Fill, WakeupDue
  <2> QED
    BY <1>6, <2>1, <2>2, <2>3, <2>4, <2>5, <2>6, <2>7, <2>8 DEF Continue
<1> QED
  BY <1>1, <1>2, <1>3, <1>4, <1>5, <1>6 DEF Next

\* Until a resize adds an element, no wakeup is lost between prepare_to_wait, the look
\* at curr_nr and io_schedule.
THEOREM WakeupsArrive == Spec => []NoLostWakeup
<1>1. Init => NoLostWakeup
  BY DEF Init, NoLostWakeup
<1>2. TypeOK /\ Places /\ NoLostWakeup /\ [Next]_vars => NoLostWakeup'
  BY WakeupStep
<1> QED
  BY <1>1, <1>2, BaseInit, BaseStep, PTL DEF Spec

------------------------------------------------------------------------------
LEMMA ArrayStep ==
    ASSUME TypeOK, Places, WithinArray, [Next]_vars
    PROVE  WithinArray'
<1> USE MempoolAssumption DEF TypeOK, Places, Goto, WithinArray
<1>1. CASE UNCHANGED vars
  BY <1>1 DEF vars
<1>2. ASSUME NEW n \in Created, Create(n) PROVE WithinArray'
  BY <1>2 DEF Create
<1>3. CASE Destroy
  BY <1>3 DEF Destroy
<1>4. ASSUME NEW t \in Callers, Free(t) \/ \E w \in BOOLEAN : Alloc(t, w)
      PROVE  WithinArray'
  BY <1>4 DEF Free, Alloc
<1>5. ASSUME NEW t \in Resizers, NEW n \in Sizes, Resize(t, n)
      PROVE  WithinArray'
  <2>1. t \in Contexts /\ n \in Nat
    BY DEF Contexts
  <2> QED
    BY <1>5, <2>1 DEF Resize, ShrinkTurn
<1>6. ASSUME NEW t \in Contexts, Continue(t) PROVE WithinArray'
  <2>1. CASE AllocFn(t) \/ AllocFnFails(t) \/ PrepareToWait(t) \/ Check(t) \/ Woken(t)
             \/ FinishWait(t) \/ WakeUp(t) \/ Discard(t) \/ GrowFails(t) \/ FillFails(t)
             \/ AddOutside(t)
    BY <2>1 DEF AllocFn, AllocFnFails, PrepareToWait, Check, Woken, FinishWait, WakeUp,
                Discard, GrowFails, FillFails, AddOutside
  <2>2. CASE Reserve(t)
    BY <2>2 DEF Reserve
  <2>3. CASE Return(t)
    BY <2>3 DEF Return
  <2>a. target[t] \in Nat
    BY TargetIsNat
  <2>4. CASE Shrink(t)
    BY <2>4, <2>a DEF Shrink, ShrinkTurn
  <2>5. CASE Grow(t)
    BY <2>5, <2>a DEF Grow
  <2>6. CASE Fill(t)
    BY <2>6 DEF Fill
  <2> QED
    BY <1>6, <2>1, <2>2, <2>3, <2>4, <2>5, <2>6 DEF Continue
<1> QED
  BY <1>1, <1>2, <1>3, <1>4, <1>5, <1>6 DEF Next

\* With any number of resizes under way the reserve never outgrows min_nr, and min_nr
\* stays within the array, until a shrinking loop ends with a min_nr above the one that
\* another resize has left.
THEOREM ArrayFits == Spec => []WithinArray
<1>1. Init => WithinArray
  BY DEF Init, WithinArray
<1>2. TypeOK /\ Places /\ WithinArray /\ [Next]_vars => WithinArray'
  BY ArrayStep
<1> QED
  BY <1>1, <1>2, BaseInit, BaseStep, PTL DEF Spec

------------------------------------------------------------------------------
(****************************************************************************)
(* The reserve and what is due to it.                                       *)
(****************************************************************************)
LEMMA ElementsFinite ==
    ASSUME NEW f \in [Contexts -> 0..MaxHeld]
    PROVE  IsFiniteSet(Elements(f)) /\ Cardinality(Elements(f)) \in Nat
<1>1. IsFiniteSet(1..MaxHeld)
  <2>1. 1 \in Int /\ MaxHeld \in Int
    BY MempoolAssumption
  <2> QED
    BY <2>1, FS_Interval
<1>2. IsFiniteSet(Contexts \X (1..MaxHeld))
  BY <1>1, MempoolAssumption, FS_Product
<1>3. Elements(f) \subseteq Contexts \X (1..MaxHeld)
  BY DEF Elements
<1> QED
  BY <1>2, <1>3, FS_Subset, FS_CardinalityType

\* A context has one element more.
LEMMA OneElementMore ==
    ASSUME NEW f \in [Contexts -> 0..MaxHeld], NEW g \in [Contexts -> 0..MaxHeld],
           NEW t \in Contexts, g[t] = f[t] + 1, \A u \in Contexts \ {t} : g[u] = f[u]
    PROVE  Cardinality(Elements(g)) = Cardinality(Elements(f)) + 1
<1> DEFINE e == <<t, g[t]>>
<1>1. MaxHeld \in Nat /\ f[t] \in 0..MaxHeld /\ g[t] \in 1..MaxHeld
  BY MempoolAssumption
<1>2. e \notin Elements(f)
  BY <1>1 DEF Elements
<1>3. Elements(g) = Elements(f) \cup {e}
  <2>1. ASSUME NEW d \in Contexts \X (1..MaxHeld)
        PROVE  d[2] <= g[d[1]] <=> d[2] <= f[d[1]] \/ d = e
    <3>1. d = <<d[1], d[2]>> /\ d[1] \in Contexts /\ d[2] \in 1..MaxHeld
      OBVIOUS
    <3>2. CASE d[1] = t
      BY <1>1, <3>1, <3>2
    <3>3. CASE d[1] # t
      BY <3>1, <3>3
    <3> QED
      BY <3>2, <3>3
  <2>2. e \in Contexts \X (1..MaxHeld)
    BY <1>1
  <2> HIDE DEF e
  <2> QED
    BY <2>1, <2>2 DEF Elements
<1> HIDE DEF e
<1> QED
  BY <1>2, <1>3, ElementsFinite, FS_AddElement

Outstanding == Cardinality(Elements(Due))

\* What is due to a full reserve makes up for nothing.
LEMMA FullSum ==
    ASSUME NEW n \in Nat, NEW o \in Nat, NEW c, NEW m, c = n, m = n
    PROVE  c + o >= m /\ c <= m
OBVIOUS

\* What it takes to carry a bound over from one sum to another.
LEMMA SumKept ==
    ASSUME NEW a \in Int, NEW b \in Int, NEW c \in Int, NEW d \in Int, NEW m \in Int,
           a + b >= m, c + d >= a + b
    PROVE  c + d >= m
OBVIOUS

\* The reserve and what will come back to it, while resizes are under way: nobody has
\* to make up for less than the least target that somebody shrinks the pool to.
ReserveDue ==
    /\ pool # "bug"
    /\ curr <= minNr
    /\ \/ curr + Outstanding >= minNr
       \/ \E t \in Contexts : pc[t] = "shrink" /\ curr + Outstanding >= target[t]
       \/ \E t \in Contexts : pc[t] = "fill"

LEMMA DueType == ASSUME TypeOK, Places PROVE Due \in [Contexts -> 0..MaxHeld]
  BY MempoolAssumption DEF TypeOK, Places, Due

LEMMA OutstandingType == ASSUME TypeOK, Places PROVE Outstanding \in Nat
  BY DueType, ElementsFinite DEF Outstanding

\* A step of a context that is in no loop of a resize, nor enters one, and that takes
\* nothing away from the sum.
LEMMA ReserveSame ==
    ASSUME TypeOK, TypeOK', Places, Places', ReserveDue, pool' # "bug", minNr' = minNr,
           curr' <= minNr, curr' + Outstanding' >= curr + Outstanding,
           NEW t \in Contexts, pc[t] \notin {"shrink", "fill"},
           \A u \in Contexts \ {t} : pc'[u] = pc[u], target' = target
    PROVE  ReserveDue'
<1>1. Outstanding \in Nat /\ Outstanding' \in Nat /\ curr \in Nat /\ curr' \in Nat /\ minNr \in Nat
      /\ \A u \in Contexts : target[u] \in Nat
  <2>1. Outstanding \in Nat
    BY OutstandingType
  <2>2. (TypeOK /\ Places => Outstanding \in Nat)'
    BY OutstandingType, PTL
  <2>3. \A u \in Contexts : target[u] \in Nat
    BY TargetIsNat
  <2> QED
    BY <2>1, <2>2, <2>3 DEF TypeOK
<1>2. CASE curr + Outstanding >= minNr
  <2>1. PICK a \in Int, b \in Int, c \in Int, d \in Int, m \in Int :
          a = curr /\ b = Outstanding /\ c = curr' /\ d = Outstanding' /\ m = minNr
    BY <1>1
  <2>a. c + d >= m
    BY <2>1, <1>2, SumKept
  <2>2. curr' <= minNr'
    OBVIOUS
  <2> QED
    BY <2>1, <2>a, <2>2 DEF ReserveDue
<1>3. CASE \E u \in Contexts : pc[u] = "shrink" /\ curr + Outstanding >= target[u]
  <2>1. PICK u \in Contexts : pc[u] = "shrink" /\ curr + Outstanding >= target[u]
    BY <1>3
  <2>2. u # t /\ pc'[u] = "shrink" /\ target'[u] = target[u]
    BY <2>1
  <2>3. curr' + Outstanding' >= target'[u]
    BY <1>1, <2>1, <2>2
  <2> QED
    BY <2>2, <2>3 DEF ReserveDue
<1>4. CASE \E u \in Contexts : pc[u] = "fill"
  BY <1>4 DEF ReserveDue
<1> QED
  BY <1>2, <1>3, <1>4 DEF ReserveDue

\* The counts are as before.
LEMMA OutstandingSame == ASSUME Due' = Due PROVE Outstanding' = Outstanding
  BY DEF Outstanding, Elements

LEMMA ReserveStep ==
    ASSUME TypeOK, Places, TypeOK', Places', ReserveDue, [Next]_vars,
           Unspoilt', pool # "none"
    PROVE  ReserveDue'
<1> USE DEF TypeOK, Places, Goto
<1>a. Callers \subseteq Contexts /\ Resizers \subseteq Contexts
  BY DEF Contexts
<1>b. Due \in [Contexts -> 0..MaxHeld] /\ Due' \in [Contexts -> 0..MaxHeld]
  <2>1. Due' \in [Contexts -> 0..MaxHeld]
    BY MempoolAssumption DEF Due
  <2> QED
    BY <2>1, DueType
<1>c. /\ Outstanding \in Nat /\ Outstanding' \in Nat
      /\ Outstanding = Cardinality(Elements(Due)) /\ Outstanding' = Cardinality(Elements(Due'))
  BY <1>b, ElementsFinite DEF Elements, Outstanding
<1>d. ASSUME NEW t \in Contexts, Due'[t] = Due[t] + 1, \A u \in Contexts \ {t} : Due'[u] = Due[u]
      PROVE  Outstanding' = Outstanding + 1
  BY <1>b, <1>c, <1>d, OneElementMore
<1>e. ASSUME NEW t \in Contexts, Due[t] = Due'[t] + 1, \A u \in Contexts \ {t} : Due'[u] = Due[u]
      PROVE  Outstanding = Outstanding' + 1
  BY <1>b, <1>c, <1>e, OneElementMore
<1>f. \A u \in Contexts : target[u] \in Nat
  BY TargetIsNat
<1>g. pool # "bug" /\ curr <= minNr
  BY DEF ReserveDue
<1>1. CASE UNCHANGED vars
  <2>1. Outstanding' = Outstanding
    BY <1>1, OutstandingSame DEF vars, Due
  <2> QED
    BY <1>1, <2>1 DEF vars, ReserveDue
<1>2. ASSUME NEW n \in Created, Create(n) PROVE ReserveDue'
  BY <1>2 DEF Create
\* Everything has been returned: nothing is due, so the reserve is full.
<1>3. CASE Destroy
  <2>1. \A t \in Contexts : Due[t] = 0
    BY <1>3 DEF Destroy, Due
  <2>2. Elements(Due) = {}
    BY <2>1 DEF Elements
  <2>3. Outstanding = 0
    BY <1>c, <2>2, FS_EmptySet
  <2>4. curr = minNr
    BY <1>3, <2>3 DEF ReserveDue, Destroy
  <2> QED
    BY <1>3, <1>c, <2>4 DEF Destroy, ReserveDue
<1>4. ASSUME NEW t \in Callers, NEW w \in BOOLEAN, Alloc(t, w) PROVE ReserveDue'
  <2>1. Outstanding' = Outstanding
    BY <1>4, <1>a, OutstandingSame DEF Alloc, Due
  <2>2. /\ pool' # "bug" /\ minNr' = minNr /\ curr' <= minNr /\ target' = target
        /\ curr' + Outstanding' >= curr + Outstanding /\ pc[t] = "idle"
        /\ \A u \in Contexts \ {t} : pc'[u] = pc[u]
    BY <1>4, <1>c, <1>g, <2>1 DEF Alloc
  <2> QED
    BY <1>a, <2>2, ReserveSame
\* Only a context that sees a full reserve goes on to pool->free.
<1>5. ASSUME NEW t \in Callers, Free(t) PROVE ReserveDue'
  <2>1. CASE curr < minNr
    <3>1. Outstanding' = Outstanding
      BY <1>5, <1>a, <2>1, OutstandingSame DEF Free, Due
    <3>2. /\ pool' # "bug" /\ minNr' = minNr /\ curr' <= minNr /\ target' = target
          /\ curr' + Outstanding' >= curr + Outstanding /\ pc[t] = "idle"
          /\ \A u \in Contexts \ {t} : pc'[u] = pc[u]
      BY <1>5, <1>c, <1>g, <3>1 DEF Free
    <3> QED
      BY <1>a, <3>2, ReserveSame
  <2>2. CASE ~(curr < minNr)
    BY <1>5, <1>c, <1>g, <2>2 DEF Free, ReserveDue
  <2> QED
    BY <2>1, <2>2
<1>6. ASSUME NEW t \in Contexts, NEW n \in Nat, ShrinkTurn(t, n),
             (pc[t] = "idle" /\ n <= minNr) \/ (pc[t] = "shrink" /\ target[t] = n),
             UNCHANGED <<pool, held>>
      PROVE  ReserveDue'
  <2>1. Outstanding' = Outstanding /\ n \in Nat
    BY <1>6, OutstandingSame DEF ShrinkTurn, Due
  <2>2. CASE n < curr
    <3>1. pc'[t] = "shrink" /\ target'[t] = n /\ curr' = curr - 1
      BY <1>6, <2>2 DEF ShrinkTurn
    <3>2. curr' + Outstanding' >= target'[t]
      BY <1>c, <2>1, <2>2, <3>1
    <3>3. minNr' = minNr /\ pool' = pool
      BY <1>6, <2>2 DEF ShrinkTurn
    <3>4. curr' <= minNr'
      BY <1>g, <3>1, <3>3
    <3> QED
      BY <1>g, <3>1, <3>2, <3>3, <3>4 DEF ReserveDue
  \* min_nr is lowered, or the step has left its trace.
  <2>3. CASE ~(n < curr)
    <3>1. /\ minNr' = n /\ curr' = curr /\ pool' = pool /\ n <= minNr
          /\ \A u \in Contexts \ {t} : pc'[u] = pc[u] /\ target'[u] = target[u]
      BY <1>6, <2>1, <2>3 DEF ShrinkTurn, Unspoilt
    <3>2. CASE curr + Outstanding >= minNr
      BY <1>c, <1>g, <2>1, <2>3, <3>1, <3>2 DEF ReserveDue
    <3>3. CASE \E u \in Contexts : pc[u] = "shrink" /\ curr + Outstanding >= target[u]
      <4>1. PICK u \in Contexts : pc[u] = "shrink" /\ curr + Outstanding >= target[u]
        BY <3>3
      <4>2. CASE u = t
        <5>1. curr' + Outstanding' >= minNr'
          <6>1. CASE target[t] = n
            BY <4>1, <4>2, <6>1, <3>1, <2>1
          <6>2. CASE ~(target[t] = n)
            BY <1>6, <4>1, <4>2, <6>2
          <6> QED
            BY <6>1, <6>2
        <5> QED
          BY <1>g, <2>1, <2>3, <3>1, <5>1 DEF ReserveDue
      <4>3. CASE u # t
        <5>1. pc'[u] = "shrink" /\ target'[u] = target[u] /\ curr' + Outstanding' >= target'[u]
          BY <4>1, <4>3, <3>1, <2>1
        <5> QED
          BY <1>g, <2>1, <2>3, <3>1, <5>1 DEF ReserveDue
      <4> QED
        BY <4>2, <4>3
    <3>4. CASE \E u \in Contexts : pc[u] = "fill"
      <4>1. PICK u \in Contexts : pc[u] = "fill"
        BY <3>4
      <4>2. pc'[u] = "fill"
        BY <1>6, <3>1, <4>1
      <4> QED
        BY <1>g, <2>1, <2>3, <3>1, <4>2 DEF ReserveDue
    <3> QED
      BY <3>2, <3>3, <3>4 DEF ReserveDue
  <2> QED
    BY <2>2, <2>3
<1>7. ASSUME NEW t \in Resizers, NEW n \in Sizes, Resize(t, n) PROVE ReserveDue'
  <2>1. CASE n <= minNr
    <3>1. n \in Nat /\ pc[t] = "idle" /\ ShrinkTurn(t, n) /\ UNCHANGED <<pool, held>>
      BY <1>7, <2>1, MempoolAssumption DEF Resize
    <3> QED
      BY <1>a, <1>6, <2>1, <3>1
  <2>2. CASE ~(n <= minNr)
    <3>1. Outstanding' = Outstanding
      BY <1>7, <1>a, <2>2, OutstandingSame DEF Resize, Due
    <3>2. /\ pool' = pool /\ minNr' = minNr /\ curr' = curr /\ pc[t] = "idle"
          /\ \A u \in Contexts \ {t} : pc'[u] = pc[u] /\ target'[u] = target[u]
      BY <1>7, <1>a, <2>2 DEF Resize
    <3> QED
      BY <1>a, <1>g, <3>1, <3>2 DEF ReserveDue
  <2> QED
    BY <2>1, <2>2
<1>8. ASSUME NEW t \in Contexts, Continue(t) PROVE ReserveDue'
  <2>1. CASE AllocFnFails(t) \/ PrepareToWait(t) \/ Check(t) \/ Woken(t) \/ FinishWait(t)
             \/ WakeUp(t) \/ Discard(t)
    <3>1. Outstanding' = Outstanding
      BY <2>1, OutstandingSame
         DEF AllocFnFails, PrepareToWait, Check, Woken, FinishWait, WakeUp, Discard, Due
    <3>2. /\ pool' # "bug" /\ minNr' = minNr /\ curr' <= minNr /\ target' = target
          /\ curr' + Outstanding' >= curr + Outstanding /\ pc[t] \notin {"shrink", "fill"}
          /\ \A u \in Contexts \ {t} : pc'[u] = pc[u]
      BY <2>1, <1>c, <1>g, <3>1
         DEF AllocFnFails, PrepareToWait, Check, Woken, FinishWait, WakeUp, Discard
    <3> QED
      BY <3>2, ReserveSame
  <2>2. CASE AllocFn(t)
    <3>1. Due'[t] = Due[t] + 1 /\ \A u \in Contexts \ {t} : Due'[u] = Due[u]
      BY <2>2 DEF AllocFn, Due
    <3>2. Outstanding' = Outstanding + 1
      BY <1>d, <3>1
    <3>3. /\ pool' # "bug" /\ minNr' = minNr /\ curr' <= minNr /\ target' = target
          /\ curr' + Outstanding' >= curr + Outstanding /\ pc[t] \notin {"shrink", "fill"}
          /\ \A u \in Contexts \ {t} : pc'[u] = pc[u]
      BY <2>2, <1>c, <1>g, <3>2 DEF AllocFn
    <3> QED
      BY <3>3, ReserveSame
  <2>3. CASE Reserve(t)
    <3>1. CASE curr > 0
      <4>1. Due'[t] = Due[t] + 1 /\ \A u \in Contexts \ {t} : Due'[u] = Due[u]
        BY <2>3, <3>1 DEF Reserve, Due
      <4>2. Outstanding' = Outstanding + 1
        BY <1>d, <4>1
      <4>3. /\ pool' # "bug" /\ minNr' = minNr /\ curr' <= minNr /\ target' = target
            /\ curr' + Outstanding' >= curr + Outstanding /\ pc[t] \notin {"shrink", "fill"}
            /\ \A u \in Contexts \ {t} : pc'[u] = pc[u]
        BY <2>3, <1>c, <1>g, <3>1, <4>2 DEF Reserve
      <4> QED
        BY <4>3, ReserveSame
    <3>2. CASE ~(curr > 0)
      <4>1. Outstanding' = Outstanding
        BY <2>3, <3>2, OutstandingSame DEF Reserve, Due
      <4>2. /\ pool' # "bug" /\ minNr' = minNr /\ curr' <= minNr /\ target' = target
            /\ curr' + Outstanding' >= curr + Outstanding /\ pc[t] \notin {"shrink", "fill"}
            /\ \A u \in Contexts \ {t} : pc'[u] = pc[u]
        BY <2>3, <1>c, <1>g, <3>2, <4>1 DEF Reserve
      <4> QED
        BY <4>2, ReserveSame
    <3> QED
      BY <3>1, <3>2
  <2>4. CASE Return(t)
    <3>1. CASE curr < minNr
      <4>1. Due[t] = Due'[t] + 1 /\ \A u \in Contexts \ {t} : Due'[u] = Due[u]
        BY <2>4, <3>1, MempoolAssumption DEF Return, Due
      <4>2. Outstanding = Outstanding' + 1
        BY <1>e, <4>1
      <4>3. /\ pool' # "bug" /\ minNr' = minNr /\ curr' <= minNr /\ target' = target
            /\ curr' + Outstanding' >= curr + Outstanding /\ pc[t] \notin {"shrink", "fill"}
            /\ \A u \in Contexts \ {t} : pc'[u] = pc[u]
        BY <2>4, <1>c, <1>g, <3>1, <4>2 DEF Return
      <4> QED
        BY <4>3, ReserveSame
    <3>2. CASE ~(curr < minNr)
      BY <2>4, <1>c, <1>g, <3>2 DEF Return, ReserveDue
    <3> QED
      BY <3>1, <3>2
  <2>5. CASE Shrink(t)
    <3>1. target[t] \in Nat /\ pc[t] = "shrink" /\ ShrinkTurn(t, target[t])
          /\ UNCHANGED <<pool, held>>
      BY <1>f, <2>5 DEF Shrink
    <3> QED
      BY <1>6, <3>1
  <2>6. CASE GrowFails(t)
    <3>1. Outstanding' = Outstanding
      BY <2>6, OutstandingSame DEF GrowFails, Due
    <3>2. /\ pool' = pool /\ minNr' = minNr /\ curr' = curr /\ pc[t] = "grow"
          /\ \A u \in Contexts \ {t} : pc'[u] = pc[u] /\ target'[u] = target[u]
      BY <2>6 DEF GrowFails
    <3> QED
      BY <1>g, <3>1, <3>2 DEF ReserveDue
  <2>7. CASE Grow(t)
    <3>1. Outstanding' = Outstanding
      BY <2>7, OutstandingSame DEF Grow, Due
    <3>2. /\ pool' = pool /\ curr' = curr /\ pc[t] = "grow"
          /\ \A u \in Contexts \ {t} : pc'[u] = pc[u] /\ target'[u] = target[u]
      BY <2>7 DEF Grow
    <3>3. CASE target[t] <= minNr
      BY <2>7, <1>g, <3>1, <3>2, <3>3 DEF ReserveDue, Grow
    <3>4. CASE ~(target[t] <= minNr)
      <4>1. minNr' = target[t] /\ curr < target[t] /\ pc'[t] = "fill"
        BY <2>7, <1>f, <1>g, <3>4 DEF Grow
      <4> QED
        BY <1>f, <1>g, <3>2, <4>1 DEF ReserveDue
    <3> QED
      BY <3>3, <3>4
  \* The last element that is added fills the pool.
  <2>8. CASE Fill(t)
    <3>1. Outstanding' = Outstanding
      BY <2>8, OutstandingSame DEF Fill, Due
    <3>2. minNr' = minNr /\ pool' = pool /\ curr' <= minNr'
      BY <2>8, <1>g DEF Fill
    <3>3. CASE curr + 1 < minNr
      <4>1. pc'[t] = "fill"
        BY <2>8, <3>3 DEF Fill
      <4> QED
        BY <1>g, <3>2, <4>1 DEF ReserveDue
    <3>4. CASE ~(curr + 1 < minNr)
      <4>1. curr' >= minNr'
        BY <2>8, <1>g, <3>4 DEF Fill
      <4> QED
        BY <1>c, <1>g, <3>2, <4>1 DEF ReserveDue
    <3> QED
      BY <3>3, <3>4
  <2>9. CASE FillFails(t)
    BY <2>9 DEF FillFails, Unspoilt
  <2>10. CASE AddOutside(t)
    <3>1. Outstanding' = Outstanding
      BY <2>10, OutstandingSame DEF AddOutside, Due
    <3> QED
      BY <2>10, <1>g, <3>1 DEF AddOutside, ReserveDue
  <2> QED
    BY <1>8, <2>1, <2>2, <2>3, <2>4, <2>5, <2>6, <2>7, <2>8, <2>9, <2>10 DEF Continue
<1> QED
  BY <1>1, <1>2, <1>3, <1>4, <1>5, <1>7, <1>8 DEF Next

\* A pool keeps its reserve, counting what will come back to it, through any number of
\* resizes, and mempool_destroy does not reach BUG(), for any number of callers; only a
\* resize that falls short of elements or is overtaken spoils it.
THEOREM ReserveIsKept == Spec => []ReserveKept
<1> DEFINE Kept == Unspoilt => ReserveDue
<1>1. Init => Kept
  <2> SUFFICES ASSUME Init PROVE Kept
    OBVIOUS
  <2>1. Outstanding \in Nat
    BY BaseInit, OutstandingType
  <2> QED
    BY <2>1 DEF Init, ReserveDue
<1>2. TypeOK /\ Places /\ TypeOK' /\ Places' /\ Kept /\ [Next]_vars => Kept'
  <2> SUFFICES ASSUME TypeOK, Places, TypeOK', Places', Kept, [Next]_vars,
                      Unspoilt'
               PROVE  ReserveDue'
    OBVIOUS
  \* A new pool is full.
  <2>1. ASSUME NEW n \in Created, Create(n) PROVE ReserveDue'
    <3>1. Outstanding' \in Nat
      <4>1. (TypeOK /\ Places => Outstanding \in Nat)'
        BY OutstandingType, PTL
      <4> QED
        BY <4>1
    <3>2. curr' = n /\ minNr' = n /\ pool' = "live" /\ n \in Nat
      BY <2>1, MempoolAssumption DEF Create
    <3>5. curr' + Outstanding' >= minNr' /\ curr' <= minNr'
      BY <3>1, <3>2, FullSum
    <3> QED
      BY <3>2, <3>5 DEF ReserveDue
  <2>2. CASE Unspoilt /\ pool # "none"
    BY <2>2, ReserveStep
  \* There is nothing to resize in a pool that is not there.
  <2>3. CASE pool = "none" /\ ~\E n \in Created : Create(n)
    <3>1. Outstanding' = Outstanding /\ UNCHANGED vars
      <4>1. \A t \in Contexts : pc[t] = "idle"
        BY <2>3 DEF Places
      <4>2. UNCHANGED vars
        BY <2>3, <4>1 DEF Next, Destroy, Alloc, Free, Resize, Continue, AllocFn, AllocFnFails,
           Reserve, PrepareToWait, Check, Woken, FinishWait, Return, WakeUp, Discard, Shrink,
           GrowFails, Grow, Fill, FillFails, AddOutside, Contexts
      <4> QED
        BY <4>2, OutstandingSame DEF vars, Due
    <3> QED
      BY <3>1 DEF vars, ReserveDue, Unspoilt
  \* What a resize has left behind stays until the pool is created anew.
  <2>4. CASE ~Unspoilt /\ pool # "none"
    <3>1. past \subseteq past'
      BY <2>4 DEF Next, vars, Create, Destroy, Alloc, Free, Resize, ShrinkTurn, Continue,
         AllocFn, AllocFnFails, Reserve, PrepareToWait, Check, Woken, FinishWait, Return,
         WakeUp, Discard, Shrink, GrowFails, Grow, Fill, FillFails, AddOutside
    <3> QED
      BY <2>4, <3>1 DEF Unspoilt
  <2> QED
    BY <2>1, <2>2, <2>3, <2>4
<1>3. Kept /\ TypeOK /\ Places => ReserveKept
  BY DEF ReserveDue, ReserveKept, Outstanding
<1> HIDE DEF Kept
<1> QED
  BY <1>1, <1>2, <1>3, BaseInit, BaseStep, PTL DEF Spec
=============================================================================
