----------------------------- MODULE Slab_proofs -----------------------------
(****************************************************************************)
(* The safety of Slab, for any number of contexts, CPUs and slabs, and any  *)
(* limits.                                                                  *)
(****************************************************************************)
EXTENDS Slab, FiniteSetTheorems, TLAPS

Kinds == {"none", "full", "partial", "free", "hand"}
Labels == {"idle", "grow", "retry", "oops", "shared", "sweep", "unmap"}

\* TypeOK without the limits of the arrays.
Shape ==
    /\ cache \in {"absent", "live", "dying"} /\ general \in BOOLEAN
    /\ homes \subseteq Cpus
    /\ list \in [Slabs -> Kinds]
    /\ free \subseteq AllObjects /\ used \subseteq AllObjects /\ freeObjs \in Int
    /\ array \in [Cpus -> SUBSET AllObjects] /\ shared \subseteq AllObjects
    /\ pc \in [Contexts -> Labels]
    /\ cpu \in [Contexts -> Cpus \cup {None}]
    /\ victim \in [Contexts -> Slabs \cup {None}]

Limits == /\ \A c \in Cpus : Cardinality(array[c]) <= Limit
          /\ Cardinality(shared) <= SharedLimit

\* OnePlace, object by object.
Kept(o) == o \in free \/ o \in shared \/ o \in used \/ \E c \in Cpus : o \in array[c]
Placed == \A o \in AllObjects : list[SlabOf(o)] # "none" <=> Kept(o)

Apart ==
    /\ free \cap shared = {} /\ free \cap used = {} /\ shared \cap used = {}
    /\ \A c \in Cpus : array[c] \cap (free \cup shared \cup used) = {}
    /\ \A c, d \in Cpus : c # d => array[c] \cap array[d] = {}

Listing ==
    \A s \in Slabs :
        /\ list[s] = "full" => Of(s) \cap free = {}
        /\ list[s] = "partial" => Of(s) \cap free # {} /\ ~ Of(s) \subseteq free
        /\ list[s] \in {"free", "hand"} => Of(s) \subseteq free

\* A slab in hand is destroyed by one context, which has it to itself.
Victims ==
    /\ \A t \in Contexts : pc[t] = "unmap" => victim[t] \in Slabs /\ list[victim[t]] = "hand"
    /\ \A t, u \in Contexts : pc[t] = "unmap" /\ pc[u] = "unmap" /\ t # u => victim[t] # victim[u]
    /\ \A s \in Slabs : list[s] = "hand" => \E t \in Contexts : pc[t] = "unmap" /\ victim[t] = s

Emptying(t) == pc[t] \in {"shared", "sweep", "unmap"}

\* While one context destroys the cache nobody allocates from it or shrinks it.
Dying ==
    cache = "dying" =>
        /\ \A t \in Contexts : pc[t] \notin {"grow", "retry"}
        /\ \A t, u \in Contexts : Emptying(t) /\ Emptying(u) => t = u
        /\ \A t \in Contexts : pc[t] \in {"sweep", "unmap"} =>
               shared = {} \/ \E c \in Cpus : array[c] # {}

Order == Placed /\ Apart /\ Listing /\ Victims

LEMMA ObjectFacts ==
    /\ \A o \in AllObjects : SlabOf(o) \in Slabs /\ o \in Of(SlabOf(o))
    /\ \A s \in Slabs : Of(s) \subseteq AllObjects /\ Of(s) # {} /\ \A o \in Of(s) : SlabOf(o) = s
<1>1. 1 \in 1..Num
  BY ObjectsAssumption
<1>2. \A o \in AllObjects : SlabOf(o) \in Slabs /\ o \in Of(SlabOf(o))
  BY DEF AllObjects, SlabOf, Of
<1>3. ASSUME NEW s \in Slabs
      PROVE  Of(s) \subseteq AllObjects /\ Of(s) # {} /\ \A o \in Of(s) : SlabOf(o) = s
  <2>1. <<s, 1>> \in Of(s)
    BY <1>1 DEF Of
  <2>2. Of(s) \subseteq AllObjects /\ \A o \in Of(s) : SlabOf(o) = s
    BY DEF AllObjects, SlabOf, Of
  <2> QED
    BY <2>1, <2>2
<1> QED
  BY <1>2, <1>3

LEMMA AllFinite == IsFiniteSet(AllObjects)
<1>1. IsFiniteSet(1..Num)
  BY ObjectsAssumption, FS_Interval
<1> QED
  BY <1>1, ObjectsAssumption, FS_Product DEF AllObjects

LEMMA PlacedIsOnePlace == Shape => (OnePlace <=> Placed /\ Apart)
<1> SUFFICES ASSUME Shape PROVE OnePlace <=> Placed /\ Apart
  OBVIOUS
<1> DEFINE All == free \cup shared \cup used \cup UNION {array[c] : c \in Cpus}
           Paged == UNION {Of(s) : s \in {u \in Slabs : list[u] # "none"}}
<1>1. \A o : o \in All <=> Kept(o)
  BY DEF Kept
<1>2. \A o \in AllObjects : o \in Paged <=> list[SlabOf(o)] # "none"
  BY ObjectFacts
<1>3. All \subseteq AllObjects /\ Paged \subseteq AllObjects
  BY ObjectFacts DEF Shape
<1> HIDE DEF All, Paged
<1>4. All = Paged <=> Placed
  BY <1>1, <1>2, <1>3 DEF Placed
<1> QED
  BY <1>4 DEF OnePlace, Apart, All, Paged

------------------------------------------------------------------------------
(****************************************************************************)
(* free_block.                                                              *)
(****************************************************************************)
LEMMA FreeBlockFacts ==
    ASSUME Shape, Listing, NEW S \in SUBSET AllObjects, NEW D \in SUBSET Slabs,
           S \cap free = {}, \A o \in S : list[SlabOf(o)] # "none",
           FreeBlock(S, D)
    PROVE  /\ list' \in [Slabs -> Kinds] /\ free' \subseteq AllObjects
           /\ Listing'
           /\ \A s \in D : list[s] # "none" /\ list'[s] = "none" /\ Of(s) \subseteq free \cup S
           /\ \A s \in Slabs : list[s] = "hand" => list'[s] = "hand" /\ s \notin D
           /\ \A s \in Slabs \ D : list[s] = "none" <=> list'[s] = "none"
           /\ \A s \in Slabs : list'[s] = "hand" => list[s] = "hand"
           /\ \A o : o \in free' <=> o \in free \cup S /\ SlabOf(o) \notin D
<1>1. \A s \in Slabs : Of(s) \cap S # {} => list[s] \in {"full", "partial"}
  BY ObjectFacts DEF Listing, Shape, Kinds
<1>2. /\ D \subseteq Emptied(S)
      /\ free' = (free \cup S) \ UNION {Of(s) : s \in D}
      /\ list' = [s \in Slabs |-> IF s \in D THEN "none"
                                  ELSE IF s \in Emptied(S) THEN "free"
                                  ELSE IF Of(s) \cap S # {} THEN "partial" ELSE list[s]]
  BY DEF FreeBlock
<1>3. \A s \in Emptied(S) : s \in Slabs /\ Of(s) \cap S # {} /\ Of(s) \subseteq free \cup S
  BY DEF Emptied
<1>4. \A o \in AllObjects : o \in UNION {Of(s) : s \in D} <=> SlabOf(o) \in D
  BY ObjectFacts
<1>5. \A o : o \in free' <=> o \in free \cup S /\ SlabOf(o) \notin D
  BY <1>2, <1>4 DEF Shape
<1>6. list' \in [Slabs -> Kinds]
  BY <1>2 DEF Shape, Kinds
<1>7. \A s \in Slabs \ D : \A o \in Of(s) : o \in free' <=> o \in free \cup S
  BY <1>5, ObjectFacts
<1>8. \A s \in Slabs \ D : ~(Of(s) \subseteq free \cup S) <=> ~(Of(s) \subseteq free')
  BY <1>7
<1>9. ASSUME NEW s \in Slabs
      PROVE  /\ list'[s] = "full" => Of(s) \cap free' = {}
             /\ list'[s] = "partial" => Of(s) \cap free' # {} /\ ~ Of(s) \subseteq free'
             /\ list'[s] \in {"free", "hand"} => Of(s) \subseteq free'
  <2>1. CASE s \in D
    BY <2>1, <1>2
  <2>2. CASE s \notin D /\ s \in Emptied(S)
    BY <2>2, <1>2, <1>3, <1>7
  <2>3. CASE s \notin D /\ s \notin Emptied(S) /\ Of(s) \cap S # {}
    <3>1. ~(Of(s) \subseteq free \cup S)
      BY <2>3 DEF Emptied
    <3> QED
      BY <2>3, <3>1, <1>2, <1>7
  <2>4. CASE s \notin D /\ Of(s) \cap S = {}
    <3>1. list'[s] = list[s]
      BY <2>4, <1>2, <1>3
    <3>2. Of(s) \cap free' = Of(s) \cap free
      BY <2>4, <1>7
    <3> QED
      BY <3>1, <3>2 DEF Listing
  <2> QED
    BY <2>1, <2>2, <2>3, <2>4
<1>10. Listing'
  BY <1>9 DEF Listing
<1>11. free' \subseteq AllObjects
  BY <1>5 DEF Shape
<1> QED
  BY <1>1, <1>2, <1>3, <1>5, <1>6, <1>10, <1>11

------------------------------------------------------------------------------
(****************************************************************************)
(* Shape and the order among places, step by step.                          *)
(****************************************************************************)
LEMMA InitFacts == Init => Shape /\ Order /\ Dying
<1> SUFFICES ASSUME Init PROVE Shape /\ Order /\ Dying
  OBVIOUS
<1>1. Shape
  BY DEF Init, Shape, Kinds, Labels
<1>2. Placed
  BY ObjectFacts DEF Init, Placed, Kept
<1>3. Apart /\ Listing /\ Victims /\ Dying
  BY SlabAssumption DEF Init, Apart, Listing, Victims, Dying, Emptying
<1> QED
  BY <1>1, <1>2, <1>3 DEF Order

\* Objects that move between the free chains, the arrays and the callers.
LEMMA MovesKeepPlaces ==
    ASSUME Shape, Shape', Placed, \A s \in Slabs : list[s] = "none" <=> list'[s] = "none",
           \A o \in AllObjects : Kept(o) <=> Kept(o)'
    PROVE  Placed'
  BY ObjectFacts DEF Placed

\* No slab changes hands, and no context begins or ends an unmap.
LEMMA VictimsStay ==
    ASSUME Victims, \A s \in Slabs : list'[s] = "hand" <=> list[s] = "hand",
           victim' = victim, \A t \in Contexts : pc[t] = "unmap" <=> pc'[t] = "unmap"
    PROVE  Victims'
  BY DEF Victims

LEMMA TakeOrder ==
    ASSUME Shape, Order, NEW t \in Contexts, NEW c \in Cpus, NEW o \in array[c], Take(t, c, o)
    PROVE  Shape' /\ Order'
<1>1. /\ array' = [array EXCEPT ![c] = @ \ {o}] /\ used' = used \cup {o}
      /\ UNCHANGED <<head, list, free, freeObjs, shared, victim>>
      /\ pc' = [pc EXCEPT ![t] = "idle"] /\ cpu' = [cpu EXCEPT ![t] = None]
      /\ pc[t] \in {"idle", "retry"} /\ o \in AllObjects
  BY DEF Take, Leave, Goto, Allocates, Runs, lists, Shape
<1>2. Shape'
  BY <1>1 DEF Shape, head, Labels
<1>3. Placed'
  <2>1. \A p \in AllObjects : Kept(p) <=> Kept(p)'
    BY <1>1 DEF Kept, Shape
  <2> QED
    BY <1>1, <1>2, <2>1, MovesKeepPlaces DEF Order
<1>4. Apart'
  BY <1>1 DEF Apart, Order, Shape
<1>5. Listing'
  BY <1>1 DEF Listing, Order
<1>6. Victims'
  BY <1>1, VictimsStay DEF Order, Shape
<1> QED
  BY <1>2, <1>3, <1>4, <1>5, <1>6 DEF Order

LEMMA RefillSharedOrder ==
    ASSUME Shape, Order, NEW t \in Contexts, NEW c \in Cpus,
           NEW S \in SUBSET shared, NEW o \in shared, RefillShared(t, c, S, o)
    PROVE  Shape' /\ Order'
<1>1. /\ array' = [array EXCEPT ![c] = S \ {o}] /\ used' = used \cup {o}
      /\ o \in S /\ shared' = shared \ S /\ array[c] = {}
      /\ UNCHANGED <<head, list, free, freeObjs, victim>>
      /\ pc' = [pc EXCEPT ![t] = "idle"] /\ cpu' = [cpu EXCEPT ![t] = None]
      /\ pc[t] \in {"idle", "retry"} /\ S \subseteq AllObjects
  BY DEF RefillShared, Refilled, Leave, Goto, Allocates, Runs, lists, Shape
<1>2. Shape'
  BY <1>1 DEF Shape, head, Labels
<1>3. Placed'
  <2>1. \A p \in AllObjects : Kept(p) <=> Kept(p)'
    BY <1>1 DEF Kept, Shape
  <2> QED
    BY <1>1, <1>2, <2>1, MovesKeepPlaces DEF Order
<1>4. Apart'
  BY <1>1 DEF Apart, Order, Shape
<1>5. Listing'
  BY <1>1 DEF Listing, Order
<1>6. Victims'
  BY <1>1, VictimsStay DEF Order, Shape
<1> QED
  BY <1>2, <1>3, <1>4, <1>5, <1>6 DEF Order

LEMMA RefillListsOrder ==
    ASSUME Shape, Order, NEW t \in Contexts, NEW c \in Cpus,
           NEW S \in SUBSET free, NEW o \in free, RefillLists(t, c, S, o)
    PROVE  Shape' /\ Order'
<1>1. /\ array' = [array EXCEPT ![c] = S \ {o}] /\ used' = used \cup {o}
      /\ o \in S /\ free' = free \ S /\ array[c] = {} /\ S \subseteq Chained
      /\ UNCHANGED <<head, shared, victim>>
      /\ freeObjs' = freeObjs - Cardinality(S)
      /\ pc' = [pc EXCEPT ![t] = "idle"] /\ cpu' = [cpu EXCEPT ![t] = None]
      /\ pc[t] \in {"idle", "retry"} /\ S \subseteq AllObjects
      /\ list' = [s \in Slabs |-> IF Of(s) \cap S = {} THEN list[s]
                                  ELSE IF Of(s) \cap free' = {} THEN "full" ELSE "partial"]
  BY DEF RefillLists, Picked, Refilled, Leave, Goto, Allocates, Runs, Shape
<1>a. Cardinality(S) \in Int
  BY <1>1, AllFinite, FS_Subset, FS_CardinalityType
<1>2. Shape'
  <2>1. list' \in [Slabs -> Kinds]
    BY <1>1 DEF Shape, Kinds
  <2> QED
    BY <1>1, <1>a, <2>1 DEF Shape, head, Labels
<1>b. \A s \in Slabs : Of(s) \cap S # {} =>
          list[s] \in {"partial", "free"} /\ list'[s] \in {"full", "partial"}
  BY <1>1, ObjectFacts DEF Chained, Listed
<1>3. Placed'
  <2>1. \A p \in AllObjects : Kept(p) <=> Kept(p)'
    BY <1>1 DEF Kept, Shape
  <2>2. \A s \in Slabs : list[s] = "none" <=> list'[s] = "none"
    BY <1>1, <1>b
  <2> QED
    BY <1>2, <2>1, <2>2, MovesKeepPlaces DEF Order
<1>4. Apart'
  BY <1>1 DEF Apart, Order, Shape
<1>5. Listing'
  <2> SUFFICES ASSUME NEW s \in Slabs
               PROVE  /\ list'[s] = "full" => Of(s) \cap free' = {}
                      /\ list'[s] = "partial" => Of(s) \cap free' # {} /\ ~ Of(s) \subseteq free'
                      /\ list'[s] \in {"free", "hand"} => Of(s) \subseteq free'
    BY DEF Listing
  <2>1. CASE Of(s) \cap S = {}
    BY <2>1, <1>1 DEF Listing, Order
  <2>2. CASE Of(s) \cap S # {}
    BY <2>2, <1>1
  <2> QED
    BY <2>1, <2>2
<1>6. Victims'
  BY <1>1, <1>b, VictimsStay DEF Order, Shape
<1> QED
  BY <1>2, <1>3, <1>4, <1>5, <1>6 DEF Order

LEMMA GrowAddOrder ==
    ASSUME Shape, Order, NEW t \in Contexts, NEW c \in Cpus, NEW s \in Slabs, GrowAdd(t, c, s)
    PROVE  Shape' /\ Order'
<1>1. /\ list[s] = "none" /\ list' = [list EXCEPT ![s] = "free"]
      /\ free' = free \cup Of(s) /\ freeObjs' = freeObjs + Num
      /\ UNCHANGED <<head, array, shared, used, victim>>
      /\ pc' = [pc EXCEPT ![t] = "retry"] /\ cpu' = [cpu EXCEPT ![t] = c]
      /\ pc[t] = "grow"
  BY DEF GrowAdd, Stay, Goto, Resumes
<1>2. Shape'
  BY <1>1, ObjectFacts, ObjectsAssumption DEF Shape, head, Labels, Kinds
<1>3. \A o \in Of(s) : ~Kept(o)
  BY <1>1, ObjectFacts DEF Placed, Order
<1>4. Placed'
  <2> SUFFICES ASSUME NEW o \in AllObjects PROVE list'[SlabOf(o)] # "none" <=> Kept(o)'
    BY DEF Placed
  <2>1. Kept(o)' <=> Kept(o) \/ o \in Of(s)
    BY <1>1 DEF Kept
  <2>2. o \in Of(s) <=> SlabOf(o) = s
    BY ObjectFacts
  <2> QED
    BY <1>1, <2>1, <2>2, ObjectFacts DEF Placed, Order, Shape
<1>5. Apart'
  BY <1>1, <1>3 DEF Apart, Order, Kept
<1>6. Listing'
  <2>1. \A u \in Slabs \ {s} : Of(u) \cap free' = Of(u) \cap free
    BY <1>1, ObjectFacts
  <2> QED
    BY <1>1, <2>1 DEF Listing, Order, Shape
<1>7. Victims'
  BY <1>1, VictimsStay DEF Order, Shape
<1> QED
  BY <1>2, <1>4, <1>5, <1>6, <1>7 DEF Order

\* Where an object is that is not on its slab's chain.
Out(o) == o \in shared \/ o \in used \/ \E c \in Cpus : o \in array[c]

\* The objects S go from the arrays to their slabs.
LEMMA BlockOrder ==
    ASSUME Shape, Shape', Order, NEW S \in SUBSET AllObjects, NEW D \in SUBSET Slabs,
           FreeBlock(S, D), \A o \in S : Out(o),
           \A o : Out(o)' <=> Out(o) /\ o \notin S,
           victim' = victim, \A t \in Contexts : pc[t] = "unmap" <=> pc'[t] = "unmap"
    PROVE  Placed' /\ Listing' /\ Victims' /\ \A o \in free' : ~Out(o)'
<1>1. \A o : Kept(o) <=> o \in free \/ Out(o)
  BY DEF Kept, Out
<1>2. \A o : Kept(o)' <=> o \in free' \/ Out(o)'
  BY DEF Kept, Out
<1>3. \A o \in free : ~Out(o)
  BY DEF Out, Order, Apart
<1>4. S \cap free = {} /\ \A o \in S : list[SlabOf(o)] # "none"
  BY <1>1, <1>3 DEF Order, Placed
<1>5. /\ Listing'
      /\ \A s \in D : list[s] # "none" /\ list'[s] = "none" /\ Of(s) \subseteq free \cup S
      /\ \A s \in Slabs : list[s] = "hand" => list'[s] = "hand" /\ s \notin D
      /\ \A s \in Slabs \ D : list[s] = "none" <=> list'[s] = "none"
      /\ \A s \in Slabs : list'[s] = "hand" => list[s] = "hand"
      /\ \A o : o \in free' <=> o \in free \cup S /\ SlabOf(o) \notin D
  BY <1>4, FreeBlockFacts DEF Order
<1>6. Placed'
  <2> SUFFICES ASSUME NEW o \in AllObjects PROVE list'[SlabOf(o)] # "none" <=> Kept(o)'
    BY DEF Placed
  <2>1. CASE SlabOf(o) \in D
    <3>1. o \in free \cup S /\ o \notin free' /\ list'[SlabOf(o)] = "none"
      BY <2>1, <1>5, ObjectFacts
    <3> QED
      BY <3>1, <1>2, <1>3
  <2>2. CASE SlabOf(o) \notin D
    <3>1. list[SlabOf(o)] # "none" <=> list'[SlabOf(o)] # "none"
      BY <2>2, <1>5, ObjectFacts
    <3>2. Kept(o)' <=> Kept(o)
      BY <2>2, <1>1, <1>2, <1>5
    <3> QED
      BY <3>1, <3>2 DEF Order, Placed
  <2> QED
    BY <2>1, <2>2
<1>7. Victims'
  BY <1>5, VictimsStay DEF Order
<1>8. \A o \in free' : ~Out(o)'
  BY <1>3, <1>5
<1> QED
  BY <1>5, <1>6, <1>7, <1>8

LEMMA PutOrder ==
    ASSUME Shape, Order, NEW t \in Contexts, NEW c \in Cpus, NEW o \in used,
           \/ Put(t, c, o)
           \/ \E S \in SUBSET array[c] : PutShared(t, c, o, S)
    PROVE  Shape' /\ Order'
<1>1. PICK S \in SUBSET array[c] :
         /\ array' = [array EXCEPT ![c] = (@ \ S) \cup {o}] /\ used' = used \ {o}
         /\ shared' = shared \cup S
         /\ UNCHANGED <<head, list, free, freeObjs, victim, pc, cpu>>
  <2>1. CASE Put(t, c, o)
    <3>1. array' = [array EXCEPT ![c] = (@ \ {}) \cup {o}]
      BY <2>1 DEF Put
    <3>2. shared' = shared \cup {}
      BY <2>1 DEF Put
    <3> QED
      BY <2>1, <3>1, <3>2 DEF Put, Frees, lists
  <2>2. CASE \E S \in SUBSET array[c] : PutShared(t, c, o, S)
    BY <2>2 DEF PutShared, Frees, lists
  <2> QED
    BY <2>1, <2>2
<1>2. Shape' /\ o \in AllObjects
  BY <1>1 DEF Shape, head
<1>3. Placed'
  <2>1. \A p \in AllObjects : Kept(p) <=> Kept(p)'
    BY <1>1 DEF Kept, Shape
  <2> QED
    BY <1>1, <1>2, <2>1, MovesKeepPlaces DEF Order
<1>4. Apart'
  BY <1>1 DEF Apart, Order, Shape
<1>5. Listing'
  BY <1>1 DEF Listing, Order
<1>6. Victims'
  BY <1>1, VictimsStay DEF Order, Shape
<1> QED
  BY <1>2, <1>3, <1>4, <1>5, <1>6 DEF Order

\* How many objects free_block brings is a number.
LEMMA BlockShape ==
    ASSUME Shape, NEW S \in SUBSET AllObjects, NEW D \in SUBSET Slabs, FreeBlock(S, D)
    PROVE  /\ Cardinality(S) \in Nat /\ Cardinality(D) \in Nat
           /\ freeObjs' \in Int /\ free' \subseteq AllObjects /\ list' \in [Slabs -> Kinds]
<1>1. Cardinality(S) \in Nat
  BY AllFinite, FS_Subset, FS_CardinalityType
<1>2. Cardinality(D) \in Nat
  BY ObjectsAssumption, FS_Subset, FS_CardinalityType
<1>3. Num * Cardinality(D) \in Int
  BY <1>2, ObjectsAssumption
<1>4. freeObjs' \in Int
  BY <1>1, <1>3 DEF FreeBlock, Shape
<1>5. free' \subseteq AllObjects /\ list' \in [Slabs -> Kinds]
  BY DEF FreeBlock, Shape, Kinds
<1> QED
  BY <1>1, <1>2, <1>4, <1>5

LEMMA PutBlockOrder ==
    ASSUME Shape, Order, NEW t \in Contexts, NEW c \in Cpus, NEW o \in used,
           NEW S \in SUBSET array[c], PutBlock(t, c, o, S)
    PROVE  Shape' /\ Order'
<1>1. PICK D \in SUBSET Slabs : FreeBlock(S, D)
  BY DEF PutBlock
<1>2. /\ array' = [array EXCEPT ![c] = (@ \ S) \cup {o}] /\ used' = used \ {o}
      /\ UNCHANGED <<head, shared, pc, cpu, victim>>
      /\ S \subseteq AllObjects /\ o \in AllObjects
  BY DEF PutBlock, Frees, Shape
<1>3. Shape'
  BY <1>1, <1>2, BlockShape DEF Shape, head
<1>4. \A p \in S : Out(p)
  BY DEF Out
<1>5. \A p : Out(p)' <=> Out(p) /\ p \notin S
  <2>1. S \cap (shared \cup used) = {} /\ o \notin S /\ \A d \in Cpus \ {c} : array[d] \cap S = {}
    BY DEF Order, Apart
  <2> QED
    BY <1>2, <2>1 DEF Out, Shape
<1>6. Placed' /\ Listing' /\ Victims' /\ \A p \in free' : ~Out(p)'
  BY <1>1, <1>2, <1>3, <1>4, <1>5, BlockOrder
<1>7. Apart'
  <2>1. /\ shared' \cap used' = {}
        /\ \A d \in Cpus : array'[d] \cap (shared' \cup used') = {}
        /\ \A d, e \in Cpus : d # e => array'[d] \cap array'[e] = {}
    BY <1>2 DEF Order, Apart, Shape
  <2> QED
    BY <1>6, <2>1 DEF Apart, Out
<1> QED
  BY <1>3, <1>6, <1>7 DEF Order

LEMMA DrainCpuOrder ==
    ASSUME Shape, Order, NEW t \in Contexts, NEW c \in Cpus, DrainCpu(t, c),
           cache' \in {"live", "dying"}
    PROVE  Shape' /\ Order'
<1>1. PICK D \in SUBSET Slabs : FreeBlock(array[c], D)
  BY DEF DrainCpu
<1>2. /\ array' = [array EXCEPT ![c] = {}] /\ pc[t] = "idle" /\ pc' = [pc EXCEPT ![t] = "shared"]
      /\ UNCHANGED <<general, homes, shared, used, cpu, victim>>
      /\ array[c] \subseteq AllObjects
  BY DEF DrainCpu, Goto, Shape
<1>3. Shape'
  BY <1>1, <1>2, BlockShape DEF Shape, Labels
<1>4. \A p \in array[c] : Out(p)
  BY DEF Out
<1>5. \A p : Out(p)' <=> Out(p) /\ p \notin array[c]
  <2>1. array[c] \cap (shared \cup used) = {} /\ \A d \in Cpus \ {c} : array[d] \cap array[c] = {}
    BY DEF Order, Apart
  <2> QED
    BY <1>2, <2>1 DEF Out, Shape
<1>6. Placed' /\ Listing' /\ Victims' /\ \A p \in free' : ~Out(p)'
  <2>1. \A u \in Contexts : pc[u] = "unmap" <=> pc'[u] = "unmap"
    BY <1>2 DEF Shape
  <2> QED
    BY <1>1, <1>2, <1>3, <1>4, <1>5, <2>1, BlockOrder
<1>7. Apart'
  <2>1. /\ shared' \cap used' = {}
        /\ \A d \in Cpus : array'[d] \cap (shared' \cup used') = {}
        /\ \A d, e \in Cpus : d # e => array'[d] \cap array'[e] = {}
    BY <1>2 DEF Order, Apart, Shape
  <2> QED
    BY <1>6, <2>1 DEF Apart, Out
<1> QED
  BY <1>3, <1>6, <1>7 DEF Order

LEMMA DrainSharedOrder ==
    ASSUME Shape, Order, NEW t \in Contexts, DrainShared(t)
    PROVE  Shape' /\ Order'
<1>1. PICK D \in SUBSET Slabs : FreeBlock(shared, D)
  BY DEF DrainShared
<1>2. /\ shared' = {} /\ pc[t] = "shared" /\ pc' = [pc EXCEPT ![t] = "sweep"]
      /\ UNCHANGED <<head, array, used, cpu, victim>>
      /\ shared \subseteq AllObjects
  BY DEF DrainShared, Goto, Shape
<1>3. Shape'
  BY <1>1, <1>2, BlockShape DEF Shape, Labels, head
<1>4. \A p \in shared : Out(p)
  BY DEF Out
<1>5. \A p : Out(p)' <=> Out(p) /\ p \notin shared
  BY <1>2 DEF Out, Order, Apart
<1>6. Placed' /\ Listing' /\ Victims' /\ \A p \in free' : ~Out(p)'
  <2>1. \A u \in Contexts : pc[u] = "unmap" <=> pc'[u] = "unmap"
    BY <1>2 DEF Shape
  <2> QED
    BY <1>1, <1>2, <1>3, <1>4, <1>5, <2>1, BlockOrder
<1>7. Apart'
  BY <1>2, <1>6 DEF Order, Apart, Out
<1> QED
  BY <1>3, <1>6, <1>7 DEF Order

LEMMA SweepOrder ==
    ASSUME Shape, Order, NEW t \in Contexts, NEW s \in Slabs, Sweep(t, s)
    PROVE  Shape' /\ Order'
<1>1. /\ pc[t] = "sweep" /\ list[s] = "free"
      /\ list' = [list EXCEPT ![s] = "hand"] /\ victim' = [victim EXCEPT ![t] = s]
      /\ pc' = [pc EXCEPT ![t] = "unmap"] /\ freeObjs' = freeObjs - Num
      /\ UNCHANGED <<head, free, array, shared, used, cpu>>
  BY DEF Sweep, Goto
<1>2. Shape'
  BY <1>1, ObjectsAssumption DEF Shape, head, Kinds, Labels
<1>3. Placed'
  <2>1. \A p \in AllObjects : Kept(p) <=> Kept(p)'
    BY <1>1 DEF Kept, Shape
  <2> QED
    BY <1>1, <1>2, <2>1, MovesKeepPlaces DEF Order, Shape
<1>4. Apart'
  BY <1>1 DEF Apart, Order
<1>5. Listing'
  BY <1>1 DEF Listing, Order, Shape
<1>6. Victims'
  BY <1>1 DEF Victims, Order, Shape
<1> QED
  BY <1>2, <1>3, <1>4, <1>5, <1>6 DEF Order

LEMMA UnmapOrder ==
    ASSUME Shape, Order, NEW t \in Contexts, Unmap(t)
    PROVE  Shape' /\ Order'
<1> DEFINE s == victim[t]
<1>1. /\ pc[t] = "unmap" /\ s \in Slabs /\ list[s] = "hand"
      /\ list' = [list EXCEPT ![s] = "none"] /\ victim' = [victim EXCEPT ![t] = None]
      /\ pc' = [pc EXCEPT ![t] = "sweep"] /\ free' = free \ Of(s)
      /\ UNCHANGED <<head, freeObjs, array, shared, used, cpu>>
  BY DEF Unmap, Goto, Order, Victims
<1> HIDE DEF s
<1>2. Shape'
  BY <1>1 DEF Shape, head, Kinds, Labels
<1>3. Of(s) \subseteq free
  BY <1>1 DEF Order, Listing
<1>4. Placed'
  <2> SUFFICES ASSUME NEW o \in AllObjects PROVE list'[SlabOf(o)] # "none" <=> Kept(o)'
    BY DEF Placed
  <2>1. o \in Of(s) <=> SlabOf(o) = s
    BY <1>1, ObjectFacts
  <2>2. CASE SlabOf(o) = s
    <3>1. o \in free /\ o \notin free' /\ ~Out(o) /\ (Out(o) <=> Out(o)')
      BY <2>1, <2>2, <1>1, <1>3 DEF Order, Apart, Out
    <3> QED
      BY <2>2, <3>1, <1>1 DEF Kept, Out, Shape
  <2>3. CASE SlabOf(o) # s
    <3>1. Kept(o) <=> Kept(o)'
      BY <2>1, <2>3, <1>1 DEF Kept
    <3> QED
      BY <2>3, <3>1, <1>1, ObjectFacts DEF Order, Placed, Shape
  <2> QED
    BY <2>2, <2>3
<1>5. Apart'
  BY <1>1 DEF Apart, Order
<1>6. Listing'
  <2>1. \A u \in Slabs \ {s} : Of(u) \cap free' = Of(u) \cap free
    BY <1>1, ObjectFacts
  <2> QED
    BY <1>1, <2>1 DEF Listing, Order, Shape
<1>7. Victims'
  BY <1>1 DEF Victims, Order, Shape, s
<1> QED
  BY <1>2, <1>4, <1>5, <1>6, <1>7 DEF Order

\* When the cache is gone, so is every object.
LEMMA DestroyEndsOrder ==
    ASSUME Shape, Order, NEW t \in Contexts, DestroyEnds(t),
           \A s \in Slabs : list[s] # "hand"
    PROVE  /\ Shape' /\ Order'
           /\ \A s \in Slabs : list[s] = "none"
<1>1. /\ pc[t] = "sweep" /\ pc' = [pc EXCEPT ![t] = "idle"]
      /\ cache' = "absent" /\ homes' = {}
      /\ array' = [c \in Cpus |-> {}] /\ shared' = {} /\ freeObjs' = 0
      /\ UNCHANGED <<general, list, free, used, cpu, victim>>
  BY DEF DestroyEnds, Goto, Swept
<1>2. \A s \in Slabs : list[s] = "none"
  BY DEF DestroyEnds, Swept, Shape, Kinds
<1>3. \A o \in AllObjects : ~Kept(o)
  BY <1>2, ObjectFacts DEF Order, Placed
<1>4. free = {} /\ shared = {} /\ used = {} /\ \A c \in Cpus : array[c] = {}
  BY <1>3 DEF Kept, Shape
<1>5. Shape'
  BY <1>1 DEF Shape, Labels
<1>6. Placed'
  BY <1>1, <1>2, <1>4, ObjectFacts DEF Placed, Kept
<1>7. Apart' /\ Listing'
  BY <1>1, <1>4, <1>2 DEF Apart, Listing
<1>8. Victims'
  BY <1>1, VictimsStay DEF Order, Shape
<1> QED
  BY <1>2, <1>5, <1>6, <1>7, <1>8 DEF Order

------------------------------------------------------------------------------
(****************************************************************************)
(* The limits of the arrays.                                                *)
(****************************************************************************)
LEMMA Finite ==
    ASSUME NEW S \in SUBSET AllObjects
    PROVE  IsFiniteSet(S) /\ Cardinality(S) \in Nat
  BY AllFinite, FS_Subset, FS_CardinalityType

LEMMA NoneIsZero == Cardinality({}) = 0
  BY FS_EmptySet

LEMMA Fewer ==
    ASSUME NEW S \in SUBSET AllObjects, NEW T \in SUBSET S
    PROVE  /\ Cardinality(T) <= Cardinality(S)
           /\ Cardinality(S \ T) = Cardinality(S) - Cardinality(T)
<1>1. IsFiniteSet(S)
  BY Finite
<1>2. Cardinality(T) <= Cardinality(S)
  BY <1>1, FS_Subset
<1>3. Cardinality(S \ T) = Cardinality(S) - Cardinality(S \cap T)
  BY <1>1, FS_Difference
<1>4. S \cap T = T
  OBVIOUS
<1> QED
  BY <1>2, <1>3, <1>4

LEMMA OneMore ==
    ASSUME NEW S \in SUBSET AllObjects, NEW o
    PROVE  Cardinality(S \cup {o}) <= Cardinality(S) + 1
<1>1. IsFiniteSet(S) /\ Cardinality(S) \in Nat
  BY Finite
<1>2. Cardinality(S \cup {o}) = IF o \in S THEN Cardinality(S) ELSE Cardinality(S) + 1
  BY <1>1, FS_AddElement
<1> QED
  BY <1>1, <1>2

LEMMA Together ==
    ASSUME NEW S \in SUBSET AllObjects, NEW T \in SUBSET AllObjects
    PROVE  /\ Cardinality(S \cup T) <= Cardinality(S) + Cardinality(T)
           /\ S \cap T = {} => Cardinality(S \cup T) = Cardinality(S) + Cardinality(T)
<1>1. IsFiniteSet(S) /\ IsFiniteSet(T) /\ Cardinality(S) \in Nat /\ Cardinality(T) \in Nat
  BY Finite
<1>2. Cardinality(S \cap T) \in Nat
  BY <1>1, FS_Intersection, FS_CardinalityType
<1>3. Cardinality(S \cup T) = Cardinality(S) + Cardinality(T) - Cardinality(S \cap T)
  BY <1>1, FS_Union
<1>4. S \cap T = {} => Cardinality(S \cap T) = 0
  BY NoneIsZero
<1> QED
  BY <1>1, <1>2, <1>3, <1>4

\* No refill asks for more than an array holds.
LEMMA RefillFits ==
    ASSUME Shape, NEW S \in SUBSET AllObjects, NEW o, NEW k \in Nat, NEW n \in Batches,
           Cardinality(S) = Least(n, k)
    PROVE  Cardinality(S \ {o}) <= Limit
<1>1. Cardinality(S) <= Limit
  BY SlabAssumption DEF Batches, Least
<1>2. IsFiniteSet(S) /\ Cardinality(S) \in Nat
  BY Finite
<1>3. Cardinality(S \ {o}) <= Cardinality(S)
  BY <1>2, FS_RemoveElement
<1>4. Cardinality(S \ {o}) \in Nat
  BY Finite
<1> QED
  BY <1>1, <1>2, <1>3, <1>4, SlabAssumption

LEMMA AllocLimits ==
    ASSUME Shape, Limits, NEW t \in Contexts, NEW c \in Cpus,
           \/ \E o \in array[c] : Take(t, c, o)
           \/ \E S \in SUBSET shared, o \in shared : RefillShared(t, c, S, o)
           \/ \E S \in SUBSET free, o \in free : RefillLists(t, c, S, o)
    PROVE  Limits'
<1>0. array[c] \subseteq AllObjects
  BY DEF Shape
<1>1. ASSUME NEW o \in array[c], Take(t, c, o) PROVE Limits'
  <2>1. Cardinality(array[c] \ {o}) <= Cardinality(array[c]) /\ Cardinality(array[c]) \in Nat
        /\ Cardinality(array[c] \ {o}) \in Nat
    BY <1>0, Fewer, Finite
  <2>2. array' = [array EXCEPT ![c] = array[c] \ {o}] /\ shared' = shared
    BY <1>1 DEF Take
  <2>3. Cardinality(array[c] \ {o}) <= Limit
    BY <2>1, SlabAssumption DEF Limits
  <2> QED
    BY <2>2, <2>3 DEF Limits, Shape
<1>2. ASSUME NEW S \in SUBSET shared, NEW o \in shared, RefillShared(t, c, S, o) PROVE Limits'
  <2>1. PICK n \in Batches : Cardinality(S) = Least(n, Cardinality(shared))
    BY <1>2 DEF RefillShared
  <2>2. array' = [array EXCEPT ![c] = S \ {o}] /\ shared' = shared \ S /\ S \subseteq AllObjects
    BY <1>2 DEF RefillShared, Refilled, Shape
  <2>3. Cardinality(S \ {o}) <= Limit
    BY <2>1, <2>2, RefillFits, Finite DEF Shape
  <2>4. Cardinality(shared \ S) <= Cardinality(shared) /\ Cardinality(shared) \in Nat
        /\ Cardinality(shared \ S) \in Nat
    BY Fewer, Finite DEF Shape
  <2>5. Cardinality(shared \ S) <= SharedLimit
    BY <2>4, SlabAssumption DEF Limits
  <2> QED
    BY <2>2, <2>3, <2>5 DEF Limits, Shape
<1>3. ASSUME NEW S \in SUBSET free, NEW o \in free, RefillLists(t, c, S, o) PROVE Limits'
  <2>1. PICK n \in Batches : Cardinality(S) = Least(n, Cardinality(Chained))
    BY <1>3 DEF RefillLists, Picked
  <2>2. array' = [array EXCEPT ![c] = S \ {o}] /\ shared' = shared /\ S \subseteq AllObjects
    BY <1>3 DEF RefillLists, Refilled, Shape
  <2>3. Chained \subseteq AllObjects
    BY DEF Chained, Shape
  <2>4. Cardinality(S \ {o}) <= Limit
    BY <2>1, <2>2, <2>3, RefillFits, Finite
  <2> QED
    BY <2>2, <2>4 DEF Limits, Shape
<1> QED
  BY <1>1, <1>2, <1>3

LEMMA FreeLimits ==
    ASSUME Shape, Limits, NEW t \in Contexts, NEW c \in Cpus, NEW o \in used,
           \/ Put(t, c, o)
           \/ \E S \in SUBSET array[c] : PutShared(t, c, o, S) \/ PutBlock(t, c, o, S)
    PROVE  Limits'
<1>0. /\ array[c] \subseteq AllObjects /\ Cardinality(array[c]) \in Nat
      /\ Cardinality(shared) \in Nat /\ Cardinality(array[c]) <= Limit
      /\ Cardinality(shared) <= SharedLimit
      /\ Limit \in Nat /\ Batch \in Nat \ {0} /\ SharedLimit \in Nat
  BY SlabAssumption, Finite DEF Shape, Limits
<1>1. CASE Put(t, c, o)
  <2>1. array' = [array EXCEPT ![c] = array[c] \cup {o}] /\ shared' = shared
    BY <1>1 DEF Put
  <2>2. Cardinality(array[c] \cup {o}) <= Cardinality(array[c]) + 1
        /\ Cardinality(array[c] \cup {o}) \in Nat
    BY <1>0, OneMore, Finite DEF Shape
  <2>3. Cardinality(array[c] \cup {o}) <= Limit
    BY <1>0, <1>1, <2>2 DEF Put, Full
  <2> QED
    BY <2>1, <2>3 DEF Limits, Shape
\* A batch of at least one object makes room for the one that is freed.
<1>2. ASSUME NEW S \in SUBSET array[c], Cardinality(S) >= 1
      PROVE  Cardinality((array[c] \ S) \cup {o}) <= Limit
  <2>1. Cardinality(array[c] \ S) = Cardinality(array[c]) - Cardinality(S)
    BY <1>0, Fewer
  <2>2. Cardinality(S) \in Nat /\ Cardinality(array[c] \ S) \in Nat
    BY <1>0, Finite
  <2>3. Cardinality((array[c] \ S) \cup {o}) <= Cardinality(array[c] \ S) + 1
    BY <1>0, OneMore
  <2>4. Cardinality((array[c] \ S) \cup {o}) \in Nat
    BY <1>0, Finite DEF Shape
  <2> QED
    BY <1>0, <1>2, <2>1, <2>2, <2>3, <2>4
<1>3. ASSUME NEW S \in SUBSET array[c], PutShared(t, c, o, S) PROVE Limits'
  <2>1. /\ array' = [array EXCEPT ![c] = (array[c] \ S) \cup {o}] /\ shared' = shared \cup S
        /\ Cardinality(S) = Least(Batch, Room) /\ Room > 0
    BY <1>3 DEF PutShared
  <2>2. Room = SharedLimit - Cardinality(shared)
    BY DEF Room
  <2>3. Cardinality(S) >= 1 /\ Cardinality(S) <= Room
    BY <1>0, <2>1, <2>2 DEF Least
  <2>4. Cardinality(shared \cup S) <= Cardinality(shared) + Cardinality(S)
        /\ Cardinality(S) \in Nat /\ Cardinality(shared \cup S) \in Nat
    BY <1>0, Together, Finite DEF Shape
  <2>5. Cardinality(shared \cup S) <= SharedLimit
    BY <1>0, <2>2, <2>3, <2>4
  <2> QED
    BY <1>2, <2>1, <2>3, <2>5 DEF Limits, Shape
<1>4. ASSUME NEW S \in SUBSET array[c], PutBlock(t, c, o, S) PROVE Limits'
  <2>1. /\ array' = [array EXCEPT ![c] = (array[c] \ S) \cup {o}] /\ shared' = shared
        /\ Cardinality(S) = Batch
    BY <1>4 DEF PutBlock
  <2>2. Cardinality((array[c] \ S) \cup {o}) <= Limit
    BY <1>0, <1>2, <2>1
  <2> QED
    BY <2>1, <2>2 DEF Limits, Shape
<1> QED
  BY <1>1, <1>3, <1>4

LEMMA DrainLimits ==
    ASSUME Shape, Limits,
           \/ \E c \in Cpus : array' = [array EXCEPT ![c] = {}] /\ shared' = shared
           \/ array' = array /\ shared' = {}
           \/ array' = [c \in Cpus |-> {}] /\ shared' = {}
           \/ array' = array /\ shared' = shared
    PROVE  Limits'
<1>1. 0 <= Limit /\ 0 <= SharedLimit
  BY SlabAssumption
<1>2. \A c \in Cpus : array'[c] = {} \/ array'[c] = array[c]
  BY DEF Shape
<1>3. shared' = {} \/ shared' = shared
  OBVIOUS
<1> QED
  BY <1>1, <1>2, <1>3, NoneIsZero DEF Limits

------------------------------------------------------------------------------
(****************************************************************************)
(* The count of free objects.                                               *)
(****************************************************************************)
Counted == freeObjs = Cardinality(Chained)

LEMMA ChainedFacts ==
    ASSUME Shape
    PROVE  /\ Chained \subseteq AllObjects /\ Chained \subseteq free
           /\ IsFiniteSet(Chained) /\ Cardinality(Chained) \in Nat
           /\ \A o : o \in Chained <=> o \in free /\ list[SlabOf(o)] \in {"partial", "free"}
  BY Finite DEF Chained, Listed, Shape

\* A slab has num objects, and the slabs D have num times as many as they are.
LEMMA ObjectsOfSlabs ==
    ASSUME NEW D \in SUBSET Slabs
    PROVE  /\ D \X (1..Num) \subseteq AllObjects
           /\ Cardinality(D \X (1..Num)) = Num * Cardinality(D)
           /\ \A o \in AllObjects : o \in D \X (1..Num) <=> SlabOf(o) \in D
<1>1. IsFiniteSet(1..Num) /\ Cardinality(1..Num) = Num /\ Num \in Nat
  BY ObjectsAssumption, FS_Interval
<1>2. IsFiniteSet(D) /\ Cardinality(D) \in Nat
  BY ObjectsAssumption, FS_Subset, FS_CardinalityType
<1>3. Cardinality(D \X (1..Num)) = Cardinality(D) * Cardinality(1..Num)
  BY <1>1, <1>2, FS_Product
<1>4. Cardinality(D) * Num = Num * Cardinality(D)
  BY <1>1, <1>2
<1>5. /\ D \X (1..Num) \subseteq AllObjects
      /\ \A o \in AllObjects : o \in D \X (1..Num) <=> SlabOf(o) \in D
  BY DEF AllObjects, SlabOf
<1> QED
  BY <1>1, <1>3, <1>4, <1>5

LEMMA ObjectsOfSlab ==
    ASSUME NEW s \in Slabs
    PROVE  Cardinality(Of(s)) = Num
<1>1. Cardinality({s} \X (1..Num)) = Num * Cardinality({s}) /\ Cardinality({s}) = 1
  BY ObjectsOfSlabs, FS_Singleton
<1> QED
  BY <1>1, ObjectsAssumption DEF Of

LEMMA RefillListsCounted ==
    ASSUME Shape, Order, Counted, NEW t \in Contexts, NEW c \in Cpus,
           NEW S \in SUBSET free, NEW o \in free, RefillLists(t, c, S, o)
    PROVE  Counted'
<1>1. /\ free' = free \ S /\ S \subseteq Chained
      /\ freeObjs' = freeObjs - Cardinality(S)
      /\ list' = [s \in Slabs |-> IF Of(s) \cap S = {} THEN list[s]
                                  ELSE IF Of(s) \cap free' = {} THEN "full" ELSE "partial"]
  BY DEF RefillLists, Picked
<1>2. \A p : p \in Chained' <=> p \in free' /\ list'[SlabOf(p)] \in {"partial", "free"}
  BY DEF Chained, Listed
<1>3. ASSUME NEW p \in AllObjects PROVE p \in Chained' <=> p \in Chained \ S
  <2>1. SlabOf(p) \in Slabs /\ p \in Of(SlabOf(p))
    BY ObjectFacts
  <2>2. CASE Of(SlabOf(p)) \cap S = {}
    BY <2>1, <2>2, <1>1, <1>2, ChainedFacts
  <2>3. CASE Of(SlabOf(p)) \cap S # {}
    <3>1. list[SlabOf(p)] \in {"partial", "free"}
      <4>1. PICK q \in S : q \in Of(SlabOf(p))
        BY <2>3
      <4>2. SlabOf(q) = SlabOf(p)
        BY <4>1, <2>1, ObjectFacts
      <4> QED
        BY <4>2, <1>1, ChainedFacts
    <3>2. p \in free' => list'[SlabOf(p)] = "partial"
      BY <2>1, <2>3, <1>1
    <3> QED
      BY <3>1, <3>2, <1>1, <1>2, ChainedFacts
  <2> QED
    BY <2>2, <2>3
<1>4. Chained' = Chained \ S
  <2>1. Chained' \subseteq AllObjects
    BY <1>1, <1>2 DEF Shape
  <2> QED
    BY <2>1, <1>3, ChainedFacts
<1>5. Cardinality(Chained \ S) = Cardinality(Chained) - Cardinality(S)
  BY <1>1, Fewer, ChainedFacts
<1> QED
  BY <1>1, <1>4, <1>5 DEF Counted

LEMMA GrowAddCounted ==
    ASSUME Shape, Order, Counted, NEW t \in Contexts, NEW c \in Cpus, NEW s \in Slabs,
           GrowAdd(t, c, s)
    PROVE  Counted'
<1>1. /\ list[s] = "none" /\ list' = [list EXCEPT ![s] = "free"]
      /\ free' = free \cup Of(s) /\ freeObjs' = freeObjs + Num
  BY DEF GrowAdd
<1>2. \A p : p \in Chained' <=> p \in free' /\ list'[SlabOf(p)] \in {"partial", "free"}
  BY DEF Chained, Listed
<1>3. \A p \in AllObjects : p \in Of(s) <=> SlabOf(p) = s
  BY ObjectFacts
<1>4. \A p \in AllObjects : p \in Chained' <=> p \in Chained \cup Of(s)
  BY <1>1, <1>2, <1>3, ChainedFacts, ObjectFacts DEF Shape
<1>5. Of(s) \subseteq AllObjects
  BY ObjectFacts
<1>6. Chained' = Chained \cup Of(s)
  <2>1. Chained' \subseteq AllObjects
    BY <1>1, <1>2, <1>5 DEF Shape
  <2> QED
    BY <2>1, <1>4, <1>5, ChainedFacts
<1>7. Chained \cap Of(s) = {}
  BY <1>1, <1>3, ChainedFacts
<1>8. Cardinality(Chained \cup Of(s)) = Cardinality(Chained) + Cardinality(Of(s))
  BY <1>5, <1>7, Together, ChainedFacts
<1> QED
  BY <1>1, <1>6, <1>8, ObjectsOfSlab DEF Counted

\* free_block counts the objects that it brings, and takes off those it destroys.
LEMMA BlockCounted ==
    ASSUME Shape, Order, Counted, NEW S \in SUBSET AllObjects, NEW D \in SUBSET Slabs,
           FreeBlock(S, D), \A o \in S : Out(o)
    PROVE  Counted'
<1> DEFINE Gone == D \X (1..Num)
<1>1. S \cap free = {} /\ \A o \in S : list[SlabOf(o)] # "none"
  <2>1. \A o \in S : o \notin free
    BY DEF Out, Order, Apart
  <2>2. \A o \in S : Kept(o)
    BY DEF Out, Kept
  <2> QED
    BY <2>1, <2>2 DEF Order, Placed
<1>2. /\ \A s \in D : Of(s) \subseteq free \cup S
      /\ \A o : o \in free' <=> o \in free \cup S /\ SlabOf(o) \notin D
  BY <1>1, FreeBlockFacts DEF Order
<1>3. /\ freeObjs' = freeObjs + Cardinality(S) - Num * Cardinality(D)
      /\ list' = [s \in Slabs |-> IF s \in D THEN "none"
                                  ELSE IF s \in Emptied(S) THEN "free"
                                  ELSE IF Of(s) \cap S # {} THEN "partial" ELSE list[s]]
      /\ \A s \in D : Of(s) \cap S # {}
      /\ \A s \in Emptied(S) : Of(s) \cap S # {}
  BY DEF FreeBlock, Emptied
<1>4. \A s \in Slabs : Of(s) \cap S # {} => list[s] \in {"full", "partial"}
  BY <1>1, ObjectFacts DEF Order, Listing, Shape, Kinds
<1>5. \A p : p \in Chained' <=> p \in free' /\ list'[SlabOf(p)] \in {"partial", "free"}
  BY DEF Chained, Listed
<1>6. \A p \in AllObjects : p \in Gone <=> SlabOf(p) \in D
  BY ObjectsOfSlabs
<1>7. Gone \subseteq AllObjects /\ Cardinality(Gone) = Num * Cardinality(D)
  BY ObjectsOfSlabs
<1> HIDE DEF Gone
<1>8. ASSUME NEW p \in AllObjects
      PROVE  p \in Chained' <=> p \in (Chained \cup S) \ Gone
  <2>1. SlabOf(p) \in Slabs /\ p \in Of(SlabOf(p))
    BY ObjectFacts
  <2>2. CASE SlabOf(p) \in D
    BY <2>2, <1>2, <1>5, <1>6
  <2>3. CASE SlabOf(p) \notin D /\ Of(SlabOf(p)) \cap S = {}
    BY <2>1, <2>3, <1>2, <1>3, <1>5, <1>6, ChainedFacts
  <2>4. CASE SlabOf(p) \notin D /\ Of(SlabOf(p)) \cap S # {}
    <3>1. list'[SlabOf(p)] \in {"free", "partial"}
      BY <2>1, <2>4, <1>3
    <3>2. p \in free => p \in Chained
      BY <2>1, <2>4, <1>4, ChainedFacts DEF Order, Listing
    <3> QED
      BY <2>4, <3>1, <3>2, <1>2, <1>5, <1>6, ChainedFacts
  <2> QED
    BY <2>2, <2>3, <2>4
<1>9. Chained' = (Chained \cup S) \ Gone
  <2>1. Chained' \subseteq AllObjects
    BY <1>2, <1>5 DEF Shape
  <2> QED
    BY <2>1, <1>8, ChainedFacts
<1>10. Gone \subseteq Chained \cup S
  <2> SUFFICES ASSUME NEW p \in Gone PROVE p \in Chained \cup S
    OBVIOUS
  <2>1. p \in AllObjects /\ SlabOf(p) \in D /\ SlabOf(p) \in Slabs /\ p \in Of(SlabOf(p))
    BY <1>6, <1>7, ObjectFacts
  <2>2. p \in free \cup S /\ list[SlabOf(p)] \in {"full", "partial"}
    BY <2>1, <1>2, <1>3, <1>4
  <2>3. p \in free => list[SlabOf(p)] # "full"
    BY <2>1 DEF Order, Listing
  <2> QED
    BY <2>2, <2>3, ChainedFacts
<1>11. Cardinality(Chained \cup S) = Cardinality(Chained) + Cardinality(S)
  BY <1>1, Together, ChainedFacts
<1>12. Cardinality((Chained \cup S) \ Gone) = Cardinality(Chained \cup S) - Cardinality(Gone)
  BY <1>10, Fewer, ChainedFacts
<1>13. Cardinality(Chained) \in Nat /\ Cardinality(S) \in Nat /\ Num * Cardinality(D) \in Int
  <2>1. Cardinality(D) \in Nat /\ Num \in Nat
    BY BlockShape, ObjectsAssumption
  <2> QED
    BY <2>1, ChainedFacts, Finite
<1> QED
  BY <1>3, <1>7, <1>9, <1>11, <1>12, <1>13 DEF Counted

LEMMA SweepCounted ==
    ASSUME Shape, Order, Counted, NEW t \in Contexts, NEW s \in Slabs, Sweep(t, s)
    PROVE  Counted'
<1>1. /\ list[s] = "free" /\ list' = [list EXCEPT ![s] = "hand"]
      /\ free' = free /\ freeObjs' = freeObjs - Num
  BY DEF Sweep
<1>2. \A p : p \in Chained' <=> p \in free /\ list'[SlabOf(p)] \in {"partial", "free"}
  BY <1>1 DEF Chained, Listed
<1>3. \A p \in AllObjects : p \in Of(s) <=> SlabOf(p) = s
  BY ObjectFacts
<1>4. Chained' = Chained \ Of(s)
  <2>1. \A p \in AllObjects : p \in Chained' <=> p \in Chained \ Of(s)
    BY <1>1, <1>2, <1>3, ChainedFacts, ObjectFacts DEF Shape
  <2>2. Chained' \subseteq AllObjects
    BY <1>2 DEF Shape
  <2> QED
    BY <2>1, <2>2, ChainedFacts
<1>5. Of(s) \subseteq Chained
  <2>1. Of(s) \subseteq free
    BY <1>1 DEF Order, Listing
  <2> QED
    BY <2>1, <1>1, ChainedFacts, ObjectFacts
<1>6. Cardinality(Chained \ Of(s)) = Cardinality(Chained) - Cardinality(Of(s))
  BY <1>5, Fewer, ChainedFacts
<1> QED
  BY <1>1, <1>4, <1>6, ObjectsOfSlab DEF Counted

LEMMA UnmapCounted ==
    ASSUME Shape, Order, Counted, NEW t \in Contexts, Unmap(t)
    PROVE  Counted'
<1> DEFINE s == victim[t]
<1>1. /\ s \in Slabs /\ list[s] = "hand" /\ list' = [list EXCEPT ![s] = "none"]
      /\ free' = free \ Of(s) /\ freeObjs' = freeObjs
  BY DEF Unmap, Order, Victims
<1> HIDE DEF s
<1>2. \A p : p \in Chained' <=> p \in free' /\ list'[SlabOf(p)] \in {"partial", "free"}
  BY DEF Chained, Listed
<1>3. \A p \in AllObjects : p \in Of(s) <=> SlabOf(p) = s
  BY <1>1, ObjectFacts
<1>4. Chained' = Chained
  <2>1. \A p \in AllObjects : p \in Chained' <=> p \in Chained
    BY <1>1, <1>2, <1>3, ChainedFacts, ObjectFacts DEF Shape
  <2>2. Chained' \subseteq AllObjects
    BY <1>1, <1>2 DEF Shape
  <2> QED
    BY <2>1, <2>2, ChainedFacts
<1> QED
  BY <1>1, <1>4 DEF Counted

LEMMA CountStays ==
    ASSUME Counted, UNCHANGED lists
    PROVE  Counted'
<1>1. list' = list /\ free' = free /\ freeObjs' = freeObjs
  BY DEF lists
<1>2. Chained' = Chained
  BY <1>1 DEF Chained, Listed
<1> QED
  BY <1>1, <1>2 DEF Counted

LEMMA DestroyEndsCounted ==
    ASSUME Shape, Counted, freeObjs' = 0, list' = list, \A s \in Slabs : list[s] = "none",
           free' \subseteq AllObjects
    PROVE  Counted'
<1>1. Chained' = {}
  BY ObjectFacts DEF Chained, Listed
<1> QED
  BY <1>1, NoneIsZero DEF Counted

------------------------------------------------------------------------------
(****************************************************************************)
(* The inductive invariant.                                                 *)
(****************************************************************************)
IInv == Shape /\ Order /\ Dying /\ Limits /\ Counted

LEMMA InitIInv == Init => IInv
<1> SUFFICES ASSUME Init PROVE IInv
  OBVIOUS
<1>1. Limits
  BY NoneIsZero, SlabAssumption DEF Init, Limits
<1>2. Chained = {}
  BY DEF Init, Chained
<1>3. Counted
  BY <1>2, NoneIsZero DEF Init, Counted
<1> QED
  BY <1>1, <1>3, InitFacts DEF IInv

\* Steps that touch neither objects nor lists.
Quiet(t) == \E c \in Cpus : Create(t, c) \/ Oops(t, c) \/ RefillGrow(t, c) \/ GrowFails(t, c)
Returns(t) == ShrinkEnds(t) \/ DestroyRefused(t)

LEMMA QuietStep ==
    ASSUME IInv, NEW t \in Contexts, Quiet(t) \/ Returns(t)
    PROVE  IInv'
<1> USE DEF IInv
<1>1. UNCHANGED <<list, free, freeObjs, array, shared, used, victim>>
  BY DEF Quiet, Returns, Create, Oops, RefillGrow, GrowFails, ShrinkEnds, DestroyRefused, lists
<1>2. Shape' /\ \A u \in Contexts : pc[u] = "unmap" <=> pc'[u] = "unmap"
  <2>1. CASE Quiet(t)
    <3>1. PICK c \in Cpus : Create(t, c) \/ Oops(t, c) \/ RefillGrow(t, c) \/ GrowFails(t, c)
      BY <2>1 DEF Quiet
    <3>2. CASE Create(t, c)
      BY <3>2, <1>1 DEF Create, Shape, Tuned
    <3>3. CASE Oops(t, c)
      BY <3>3, <1>1 DEF Oops, Shape, Stay, Goto, head, Labels, Runs
    <3>4. CASE RefillGrow(t, c)
      BY <3>4, <1>1 DEF RefillGrow, Shape, Stay, Goto, head, Labels, Allocates, Runs
    <3>5. CASE GrowFails(t, c)
      BY <3>5, <1>1 DEF GrowFails, Shape, Stay, Leave, Goto, head, Labels, Resumes
    <3> QED
      BY <3>1, <3>2, <3>3, <3>4, <3>5
  <2>2. CASE ShrinkEnds(t)
    BY <2>2, <1>1 DEF ShrinkEnds, Swept, Shape, Goto, head, Labels
  <2>3. CASE DestroyRefused(t)
    BY <2>3, <1>1 DEF DestroyRefused, Swept, Shape, Goto, Labels
  <2> QED
    BY <2>1, <2>2, <2>3 DEF Returns
<1>3. Order'
  BY <1>1, <1>2, VictimsStay DEF Order, Placed, Kept, Apart, Listing
<1>4. Dying'
  <2> SUFFICES ASSUME cache' = "dying"
               PROVE  /\ cache = "dying"
                      /\ \A u \in Contexts : pc'[u] \notin {"grow", "retry"}
                      /\ \A u \in Contexts : Emptying(u)' => Emptying(u) /\ pc'[u] = pc[u]
    BY <1>1 DEF Dying, Emptying
  <2>1. CASE Quiet(t)
    <3>1. PICK c \in Cpus : Create(t, c) \/ Oops(t, c) \/ RefillGrow(t, c) \/ GrowFails(t, c)
      BY <2>1 DEF Quiet
    <3>2. cache = "dying" /\ Oops(t, c)
      BY <3>1 DEF Create, Oops, RefillGrow, GrowFails, Allocates, Resumes, head, Dying
    <3>3. pc' = [pc EXCEPT ![t] = "oops"]
      BY <3>2 DEF Oops, Stay, Goto
    <3> QED
      BY <3>2, <3>3 DEF Dying, Emptying, Shape
  <2>2. CASE Returns(t)
    BY <2>2 DEF Returns, ShrinkEnds, DestroyRefused, head
  <2> QED
    BY <2>1, <2>2
<1>5. Limits'
  BY <1>1 DEF Limits
<1>6. Counted'
  BY <1>1, CountStays DEF lists
<1> QED
  BY <1>2, <1>3, <1>4, <1>5, <1>6

LEMMA AllocStep ==
    ASSUME IInv, NEW t \in Contexts, NEW c \in Cpus, Alloc(t, c)
    PROVE  IInv'
<1> USE DEF IInv
<1>1. CASE RefillGrow(t, c) \/ GrowFails(t, c) \/ Oops(t, c)
  BY <1>1, QuietStep DEF Quiet
\* Nothing of this happens to a cache that is being destroyed.
<1>a. ASSUME cache' = cache, cache = "live" \/ pc[t] = "grow" PROVE Dying'
  BY <1>a DEF Dying
<1>2. ASSUME NEW o \in array[c], Take(t, c, o) PROVE IInv'
  <2>1. Dying' /\ Counted'
    BY <1>2, <1>a, CountStays DEF Take, Allocates, head
  <2> QED
    BY <1>2, <2>1, TakeOrder, AllocLimits
<1>3. ASSUME NEW S \in SUBSET shared, NEW o \in shared, RefillShared(t, c, S, o) PROVE IInv'
  <2>1. Dying' /\ Counted'
    BY <1>3, <1>a, CountStays DEF RefillShared, Allocates, head
  <2> QED
    BY <1>3, <2>1, RefillSharedOrder, AllocLimits
<1>4. ASSUME NEW S \in SUBSET free, NEW o \in free, RefillLists(t, c, S, o) PROVE IInv'
  <2>1. Dying'
    BY <1>4, <1>a DEF RefillLists, Allocates, head
  <2> QED
    BY <1>4, <2>1, RefillListsOrder, RefillListsCounted, AllocLimits
<1>5. ASSUME NEW s \in Slabs, GrowAdd(t, c, s) PROVE IInv'
  <2>1. Dying' /\ Limits'
    BY <1>5, <1>a DEF GrowAdd, Resumes, head, Limits
  <2> QED
    BY <1>5, <2>1, GrowAddOrder, GrowAddCounted
<1> QED
  BY <1>1, <1>2, <1>3, <1>4, <1>5 DEF Alloc

LEMMA FreeStep ==
    ASSUME IInv, NEW t \in Contexts, NEW c \in Cpus, Free(t, c)
    PROVE  IInv'
<1> USE DEF IInv
<1>1. PICK o \in used : \/ Put(t, c, o)
                        \/ \E S \in SUBSET array[c] : PutShared(t, c, o, S) \/ PutBlock(t, c, o, S)
  BY DEF Free
<1>2. Limits'
  BY <1>1, FreeLimits
\* The array has the object now.
<1>a. ASSUME o \in array'[c], pc' = pc, cache' = cache PROVE Dying'
  BY <1>a DEF Dying, Emptying
<1>3. CASE Put(t, c, o)
  <2>1. Dying' /\ Counted'
    BY <1>3, <1>a, CountStays DEF Put, head, Shape
  <2> QED
    BY <1>2, <1>3, <2>1, PutOrder
<1>4. ASSUME NEW S \in SUBSET array[c], PutShared(t, c, o, S) PROVE IInv'
  <2>1. Dying' /\ Counted'
    BY <1>4, <1>a, CountStays DEF PutShared, head, Shape
  <2> QED
    BY <1>2, <1>4, <2>1, PutOrder
<1>5. ASSUME NEW S \in SUBSET array[c], PutBlock(t, c, o, S) PROVE IInv'
  <2>1. Dying'
    BY <1>5, <1>a DEF PutBlock, head, Shape
  <2>2. PICK D \in SUBSET Slabs : FreeBlock(S, D)
    BY <1>5 DEF PutBlock
  <2>3. S \subseteq AllObjects /\ \A p \in S : Out(p)
    BY DEF Out, Shape
  <2>4. Counted'
    BY <2>2, <2>3, BlockCounted
  <2> QED
    BY <1>2, <1>5, <2>1, <2>4, PutBlockOrder
<1> QED
  BY <1>1, <1>3, <1>4, <1>5

LEMMA DrainStep ==
    ASSUME IInv, NEW t \in Contexts, NEW c \in Cpus, Shrink(t, c) \/ Destroy(t, c)
    PROVE  IInv'
<1> USE DEF IInv
<1>1. DrainCpu(t, c) /\ cache' \in {"live", "dying"}
  BY DEF Shrink, Destroy, DrainCpu
<1>2. PICK D \in SUBSET Slabs : FreeBlock(array[c], D)
  BY <1>1 DEF DrainCpu
<1>3. array[c] \subseteq AllObjects /\ \A p \in array[c] : Out(p)
  BY DEF Out, Shape
<1>4. Counted'
  BY <1>2, <1>3, BlockCounted
<1>5. Limits'
  BY <1>1, DrainLimits DEF DrainCpu
<1>6. Dying'
  <2>1. CASE Shrink(t, c)
    BY <2>1, <1>1 DEF Shrink, DrainCpu, Dying
  <2>2. CASE Destroy(t, c)
    BY <2>2, <1>1 DEF Destroy, DrainCpu, Goto, Dying, Emptying, Shape
  <2> QED
    BY <2>1, <2>2
<1> QED
  BY <1>1, <1>4, <1>5, <1>6, DrainCpuOrder

LEMMA DrainSharedStep ==
    ASSUME IInv, NEW t \in Contexts, DrainShared(t)
    PROVE  IInv'
<1> USE DEF IInv
<1>1. PICK D \in SUBSET Slabs : FreeBlock(shared, D)
  BY DEF DrainShared
<1>2. shared \subseteq AllObjects /\ \A p \in shared : Out(p)
  BY DEF Out, Shape
<1>3. Counted'
  BY <1>1, <1>2, BlockCounted
<1>4. Limits'
  BY DrainLimits DEF DrainShared
<1>5. Dying'
  BY DEF DrainShared, Goto, Dying, Emptying, Shape, head
<1> QED
  BY <1>3, <1>4, <1>5, DrainSharedOrder

LEMMA SweepStep ==
    ASSUME IInv, NEW t \in Contexts, Unmap(t) \/ \E s \in Slabs : Sweep(t, s)
    PROVE  IInv'
<1> USE DEF IInv
<1>1. Limits'
  BY DrainLimits DEF Unmap, Sweep
<1>2. CASE Unmap(t)
  <2>1. Dying'
    BY <1>2 DEF Unmap, Goto, Dying, Emptying, Shape, head
  <2> QED
    BY <1>1, <1>2, <2>1, UnmapOrder, UnmapCounted
<1>3. ASSUME NEW s \in Slabs, Sweep(t, s) PROVE IInv'
  <2>1. Dying'
    BY <1>3 DEF Sweep, Goto, Dying, Emptying, Shape, head
  <2> QED
    BY <1>1, <1>3, <2>1, SweepOrder, SweepCounted
<1> QED
  BY <1>2, <1>3

LEMMA DestroyEndsStep ==
    ASSUME IInv, NEW t \in Contexts, DestroyEnds(t)
    PROVE  IInv' /\ \A s \in Slabs : list[s] = "none"
<1> USE DEF IInv
\* The slabs in hand are in this context's hands, and it has none.
<1>1. \A s \in Slabs : list[s] # "hand"
  BY DEF DestroyEnds, Swept, Dying, Emptying, Order, Victims
<1>2. Shape' /\ Order' /\ \A s \in Slabs : list[s] = "none"
  BY <1>1, DestroyEndsOrder
<1>3. Limits' /\ Dying'
  BY DrainLimits DEF DestroyEnds, Dying
<1>4. Counted'
  BY <1>2, DestroyEndsCounted DEF DestroyEnds, Shape
<1> QED
  BY <1>2, <1>3, <1>4

LEMMA NextIInv == IInv /\ [Next]_vars => IInv'
<1> SUFFICES ASSUME IInv, [Next]_vars PROVE IInv'
  OBVIOUS
<1>1. CASE UNCHANGED vars
  BY <1>1 DEF vars, IInv, Shape, Order, Placed, Kept, Apart, Listing, Victims, Dying, Emptying,
              Limits, Counted, Chained, Listed
<1>2. CASE Next
  <2>1. PICK t \in Contexts :
            \/ \E c \in Cpus : Create(t, c) \/ Alloc(t, c) \/ Free(t, c) \/ Shrink(t, c) \/ Destroy(t, c)
            \/ DrainShared(t) \/ Unmap(t) \/ \E s \in Slabs : Sweep(t, s)
            \/ ShrinkEnds(t) \/ DestroyRefused(t) \/ DestroyEnds(t)
    BY <1>2 DEF Next
  <2>2. ASSUME NEW c \in Cpus, Create(t, c) PROVE IInv'
    BY <2>2, QuietStep DEF Quiet
  <2>3. CASE ShrinkEnds(t) \/ DestroyRefused(t)
    BY <2>3, QuietStep DEF Returns
  <2> QED
    BY <2>1, <2>2, <2>3, AllocStep, FreeStep, DrainStep, DrainSharedStep, SweepStep, DestroyEndsStep
<1> QED
  BY <1>1, <1>2

LEMMA IInvHolds == Spec => []IInv
  BY InitIInv, NextIInv, PTL DEF Spec

\* Every variable has its type, and no array exceeds its limit.
THEOREM TypeCorrect == Spec => []TypeOK
<1>1. IInv => TypeOK
  BY DEF IInv, Shape, Limits, TypeOK, Kinds, Labels
<1> QED
  BY <1>1, IInvHolds, PTL

\* Every object of a slab with pages is in one place, and none outlives its slab.
THEOREM ObjectsInOnePlace == Spec => []OnePlace
<1>1. IInv => OnePlace
  BY PlacedIsOnePlace DEF IInv, Order
<1> QED
  BY <1>1, IInvHolds, PTL

\* Each slab is on the list for its state, and free_objects is the number of objects on
\* the lists.
THEOREM AccountsAgree == Spec => []Accounting
<1>1. IInv => Accounting
  BY DEF IInv, Order, Listing, Counted, Accounting
<1> QED
  BY <1>1, IInvHolds, PTL

\* A destroy is refused only for objects in use, or given back since it began.
THEOREM EmptyCachesGo == Spec => DestroyEmpties
<1>1. ASSUME IInv, NEW t \in Contexts, DestroyRefused(t)
      PROVE  used # {} \/ \E c \in Cpus : array[c] # {}
  <2>1. shared = {} \/ \E c \in Cpus : array[c] # {}
    BY <1>1 DEF IInv, Dying, DestroyRefused, Swept
  <2>2. PICK s \in Slabs : list[s] \in {"full", "partial"}
    BY <1>1 DEF DestroyRefused
  <2>3. PICK o \in Of(s) : o \notin free
    BY <1>1, <2>2, ObjectFacts DEF IInv, Order, Listing
  <2>4. Kept(o)
    BY <1>1, <2>2, ObjectFacts DEF IInv, Order, Placed
  <2> QED
    BY <2>1, <2>3, <2>4 DEF Kept
<1>2. IInv => [\A t \in Contexts : DestroyRefused(t) =>
                  used # {} \/ \E c \in Cpus : array[c] # {}]_vars
  BY <1>1
<1> QED
  BY <1>2, IInvHolds, PTL DEF DestroyEmpties

------------------------------------------------------------------------------
(****************************************************************************)
(* The cache implements ObjectOwner.                                        *)
(****************************************************************************)
Backed == {s \in Slabs : list[s] # "none"}

\* Slabs that lose their pages have none of their objects in use.
LEMMA BlockDrops ==
    ASSUME IInv, NEW S \in SUBSET AllObjects, NEW D \in SUBSET Slabs, FreeBlock(S, D),
           \A o \in S : Out(o), S \cap used' = {}, used' \subseteq used
    PROVE  Backed' = Backed \ D /\ \A s \in D : Of(s) \cap used' = {}
<1>1. S \cap free = {} /\ \A o \in S : list[SlabOf(o)] # "none"
  <2>1. \A o \in S : o \notin free
    BY DEF IInv, Out, Order, Apart
  <2>2. \A o \in S : Kept(o)
    BY DEF Out, Kept
  <2> QED
    BY <2>1, <2>2 DEF IInv, Order, Placed
<1>2. /\ \A s \in D : list[s] # "none" /\ list'[s] = "none" /\ Of(s) \subseteq free \cup S
      /\ \A s \in Slabs \ D : list[s] = "none" <=> list'[s] = "none"
  <2>1. Shape /\ Listing
    BY DEF IInv, Order
  <2> QED
    BY <1>1, <2>1, FreeBlockFacts
<1>3. free \cap used = {}
  BY DEF IInv, Order, Apart
<1> QED
  BY <1>2, <1>3 DEF Backed

LEMMA InitOwned == Init => Backed = {} /\ used = {}
  BY DEF Init, Backed

LEMMA OwnedStep == IInv /\ [Next]_vars => [Owner!Next]_<<Backed, used>>
<1> SUFFICES ASSUME IInv, [Next]_vars PROVE Owner!Next \/ UNCHANGED <<Backed, used>>
  OBVIOUS
<1>0. CASE UNCHANGED vars
  BY <1>0 DEF vars, Backed
<1>1. CASE Next
  <2>1. PICK t \in Contexts :
            \/ \E c \in Cpus : Create(t, c) \/ Alloc(t, c) \/ Free(t, c) \/ Shrink(t, c) \/ Destroy(t, c)
            \/ DrainShared(t) \/ Unmap(t) \/ \E s \in Slabs : Sweep(t, s)
            \/ ShrinkEnds(t) \/ DestroyRefused(t) \/ DestroyEnds(t)
    BY <1>1 DEF Next
  <2>a. \A D \in SUBSET Slabs : Backed' = Backed \ D /\ used' = used
                                  /\ (\A s \in D : Of(s) \cap used' = {}) => Owner!Next
    BY DEF Owner!Next, Owner!Drop, Owner!Of, Of, Backed
  <2>b. \A o \in used, D \in SUBSET Slabs : Backed' = Backed \ D /\ used' = used \ {o}
                                  /\ (\A s \in D : Of(s) \cap used' = {}) => Owner!Next
    BY DEF Owner!Next, Owner!Release, Owner!Drop, Owner!Of, Of, Backed, IInv, Shape,
           Owner!AllObjects, AllObjects
  <2>c. \A o \in AllObjects : (/\ SlabOf(o) \in Backed /\ o \notin used
                               /\ Backed' = Backed /\ used' = used \cup {o}) => Owner!Next
    BY DEF Owner!Next, Owner!Grant, Owner!SlabOf, SlabOf, Backed, Owner!AllObjects, AllObjects
  <2>2. ASSUME NEW c \in Cpus,
               Create(t, c) \/ Oops(t, c) \/ RefillGrow(t, c) \/ GrowFails(t, c)
        PROVE  UNCHANGED <<Backed, used>>
    BY <2>2 DEF Create, Oops, RefillGrow, GrowFails, lists, Backed
  <2>3. CASE ShrinkEnds(t) \/ DestroyRefused(t) \/ DestroyEnds(t)
    BY <2>3 DEF ShrinkEnds, DestroyRefused, DestroyEnds, lists, Backed
  <2>4. ASSUME NEW c \in Cpus, NEW o \in array[c], Take(t, c, o) PROVE Owner!Next
    <3>1. o \in AllObjects /\ SlabOf(o) \in Backed /\ o \notin used
      BY ObjectFacts DEF IInv, Shape, Order, Placed, Apart, Kept, Backed
    <3>2. Backed' = Backed /\ used' = used \cup {o}
      BY <2>4 DEF Take, lists, Backed
    <3> QED
      BY <3>1, <3>2, <2>c
  <2>5. ASSUME NEW c \in Cpus, NEW S \in SUBSET shared, NEW o \in shared, RefillShared(t, c, S, o)
        PROVE  Owner!Next
    <3>1. o \in AllObjects /\ SlabOf(o) \in Backed /\ o \notin used
      BY ObjectFacts DEF IInv, Shape, Order, Placed, Apart, Kept, Backed
    <3>2. Backed' = Backed /\ used' = used \cup {o}
      BY <2>5 DEF RefillShared, Refilled, lists, Backed
    <3> QED
      BY <3>1, <3>2, <2>c
  <2>6. ASSUME NEW c \in Cpus, NEW S \in SUBSET free, NEW o \in free, RefillLists(t, c, S, o)
        PROVE  Owner!Next
    <3>1. o \in AllObjects /\ SlabOf(o) \in Backed /\ o \notin used
      BY ObjectFacts DEF IInv, Shape, Order, Placed, Apart, Kept, Backed
    <3>2. Backed' = Backed
      <4>1. S \subseteq Chained /\ \A s \in Slabs :
               list'[s] = IF Of(s) \cap S = {} THEN list[s]
                          ELSE IF Of(s) \cap free' = {} THEN "full" ELSE "partial"
        BY <2>6 DEF RefillLists, Picked
      <4>2. \A s \in Slabs : Of(s) \cap S # {} => list[s] # "none"
        BY <4>1, ObjectFacts DEF Chained, Listed
      <4> QED
        BY <4>1, <4>2 DEF Backed
    <3>3. used' = used \cup {o}
      BY <2>6 DEF RefillLists, Refilled
    <3> QED
      BY <3>1, <3>2, <3>3, <2>c
  <2>7. ASSUME NEW c \in Cpus, NEW s \in Slabs, GrowAdd(t, c, s) PROVE Owner!Next
    <3>1. Backed' = Backed \cup {s} /\ used' = used
      BY <2>7 DEF GrowAdd, Backed, IInv, Shape
    <3> QED
      BY <3>1 DEF Owner!Next, Backed
  <2>8. ASSUME NEW c \in Cpus, Free(t, c) PROVE Owner!Next
    <3>1. PICK o \in used :
             \/ Put(t, c, o)
             \/ \E S \in SUBSET array[c] : PutShared(t, c, o, S) \/ PutBlock(t, c, o, S)
      BY <2>8 DEF Free
    <3>2. used' = used \ {o}
      BY <3>1 DEF Put, PutShared, PutBlock, Frees
    <3>3. CASE Put(t, c, o) \/ \E S \in SUBSET array[c] : PutShared(t, c, o, S)
      <4>1. Backed' = Backed \ {}
        BY <3>3 DEF Put, PutShared, lists, Backed
      <4> QED
        BY <4>1, <3>2, <2>b
    <3>4. ASSUME NEW S \in SUBSET array[c], PutBlock(t, c, o, S) PROVE Owner!Next
      <4>1. PICK D \in SUBSET Slabs : FreeBlock(S, D)
        BY <3>4 DEF PutBlock
      <4>2. S \subseteq AllObjects /\ (\A p \in S : Out(p)) /\ S \cap used = {}
        BY DEF Out, IInv, Shape, Order, Apart
      <4>3. Backed' = Backed \ D /\ \A s \in D : Of(s) \cap used' = {}
        BY <3>2, <4>1, <4>2, BlockDrops
      <4> QED
        BY <4>3, <3>2, <2>b
    <3> QED
      BY <3>1, <3>3, <3>4
  <2>9. ASSUME NEW c \in Cpus, Shrink(t, c) \/ Destroy(t, c) PROVE Owner!Next
    <3>1. PICK D \in SUBSET Slabs : FreeBlock(array[c], D)
      BY <2>9 DEF Shrink, Destroy, DrainCpu
    <3>2. used' = used
      BY <2>9 DEF Shrink, Destroy, DrainCpu
    <3>3. array[c] \subseteq AllObjects /\ (\A p \in array[c] : Out(p)) /\ array[c] \cap used = {}
      BY DEF Out, IInv, Shape, Order, Apart
    <3>4. Backed' = Backed \ D /\ \A s \in D : Of(s) \cap used' = {}
      BY <3>1, <3>2, <3>3, BlockDrops
    <3> QED
      BY <3>2, <3>4, <2>a
  <2>10. CASE DrainShared(t)
    <3>1. PICK D \in SUBSET Slabs : FreeBlock(shared, D)
      BY <2>10 DEF DrainShared
    <3>2. used' = used
      BY <2>10 DEF DrainShared
    <3>3. shared \subseteq AllObjects /\ (\A p \in shared : Out(p)) /\ shared \cap used = {}
      BY DEF Out, IInv, Shape, Order, Apart
    <3>4. Backed' = Backed \ D /\ \A s \in D : Of(s) \cap used' = {}
      BY <3>1, <3>2, <3>3, BlockDrops
    <3> QED
      BY <3>2, <3>4, <2>a
  <2>11. ASSUME NEW s \in Slabs, Sweep(t, s) PROVE UNCHANGED <<Backed, used>>
    BY <2>11 DEF Sweep, Backed, IInv, Shape
  <2>12. CASE Unmap(t)
    <3>1. /\ victim[t] \in Slabs /\ list[victim[t]] = "hand" /\ used' = used
          /\ list' = [list EXCEPT ![victim[t]] = "none"]
      BY <2>12 DEF Unmap, IInv, Order, Victims
    <3>2. Of(victim[t]) \cap used = {}
      BY <3>1 DEF IInv, Order, Listing, Apart
    <3>3. Backed' = Backed \ {victim[t]}
      BY <3>1 DEF Backed, IInv, Shape
    <3> QED
      BY <3>1, <3>2, <3>3, <2>a
  <2> QED
    BY <2>1, <2>2, <2>3, <2>4, <2>5, <2>6, <2>7, <2>8, <2>9, <2>10, <2>11, <2>12 DEF Alloc
<1> QED
  BY <1>0, <1>1

\* The cache keeps the promise of ObjectOwner: an object that it hands out has pages of
\* its own, and they stay until the object is given back.
THEOREM CacheImplements == Spec => Owned
<1>1. Init => Owner!Init
  BY InitOwned DEF Owner!Init, Backed
<1>2. IInv /\ [Next]_vars => [Owner!Next]_<<Backed, used>>
  BY OwnedStep
<1> QED
  BY <1>1, <1>2, IInvHolds, PTL DEF Spec, Owned, Owner!Spec, Backed
==============================================================================
