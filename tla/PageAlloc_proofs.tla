--------------------------- MODULE PageAlloc_proofs ---------------------------
(****************************************************************************)
(* The safety of PageAlloc, for every zone, number of CPUs and of contexts. *)
(****************************************************************************)
EXTENDS PageAlloc, FiniteSetTheorems, WellFoundedInduction, TLAPS

\* The places are pairwise different.
LEMMA PlaceFacts ==
    /\ FreeArea \in Places /\ InUse \in Places /\ FreeArea # InUse
    /\ \A t \in Contexts :
         /\ Hand(t) \in Places /\ Hand(t) # FreeArea /\ Hand(t) # InUse
         /\ Arg(t) \in Places /\ Arg(t) # FreeArea /\ Arg(t) # InUse
         /\ \A u \in Contexts : Hand(t) # Arg(u) /\ (Hand(t) = Hand(u) => t = u)
    /\ \A l \in Lists :
         /\ Pcp(l) \in Places /\ Pcp(l) # FreeArea /\ Pcp(l) # InUse
         /\ \A t \in Contexts : Pcp(l) # Hand(t)
  BY DEF Places, FreeArea, InUse, Hand, Arg, Pcp

LEMMA SizeFacts ==
    /\ \A o \in 0..MaxOrder : Size[o] \in Nat /\ Size[o] > 0
    /\ \A o \in Orders : o \in 0..MaxOrder /\ o \in Nat
    /\ \A o \in Orders : o > 0 => o - 1 \in Orders /\ Size[o] = 2 * Size[o - 1]
    /\ \A o \in Orders : o < MaxOrder - 1 => o + 1 \in Orders /\ Size[o + 1] = 2 * Size[o]
    /\ 0 \in Orders
<1> DEFINE Doubles == \A o \in 0..(MaxOrder - 1) : Size[o + 1] = 2 * Size[o]
<1>1. MaxOrder \in Nat \ {0} /\ Size \in [0..MaxOrder -> Nat \ {0}] /\ Doubles
  BY SizeAssumption
<1>2. \A o \in Orders : o > 0 => o - 1 \in 0..(MaxOrder - 1) /\ (o - 1) + 1 = o
  BY <1>1 DEF Orders
<1> QED
  BY <1>1, <1>2 DEF Orders

LEMMA MultipleFacts ==
    \A k \in Nat, s \in Nat \ {0} : (k * s) % s = 0 /\ (k * s) \div s = k
  OBVIOUS

\* Halving and doubling of an aligned frame number, for any size s.
LEMMA EvenMultiple ==
    ASSUME NEW p \in Nat, NEW s \in Nat, s > 0, p % s = 0, (p \div s) % 2 = 0
    PROVE  p % (2 * s) = 0 /\ (p + s) % s = 0 /\ ((p + s) \div s) % 2 = 1
<1>1. PICK k \in Nat : p = k * s /\ p \div s = k
  BY Z3
<1>2. PICK j \in Nat : k = 2 * j
  BY <1>1
<1>3. p = j * (2 * s)
  BY <1>1, <1>2
<1>4. p % (2 * s) = 0
  <2> DEFINE d == 2 * s
  <2>1. d \in Nat \ {0} /\ p = j * d
    BY <1>3
  <2>2. p % d = 0
    <3> HIDE DEF d
    <3> QED  BY <2>1, MultipleFacts
  <2> QED  BY <2>2
<1>5. p + s = (k + 1) * s
  BY <1>1
<1>6. (p + s) % s = 0 /\ (p + s) \div s = k + 1
  BY <1>5
<1> QED
  BY <1>2, <1>4, <1>6

LEMMA OddMultiple ==
    ASSUME NEW p \in Nat, NEW s \in Nat, s > 0, p % s = 0, (p \div s) % 2 # 0
    PROVE  /\ p >= s
           /\ (p - s) % (2 * s) = 0 /\ (p - s) % s = 0 /\ ((p - s) \div s) % 2 = 0
<1>1. PICK k \in Nat : p = k * s /\ p \div s = k
  BY Z3
<1>2. PICK j \in Nat : k = 2 * j + 1
  BY <1>1
<1>3. p - s = j * (2 * s) /\ p - s = (2 * j) * s
  BY <1>1, <1>2
<1>4. (p - s) % (2 * s) = 0
  <2> DEFINE d == 2 * s
  <2>1. d \in Nat \ {0} /\ p - s = j * d
    BY <1>3
  <2>2. (p - s) % d = 0
    <3> HIDE DEF d
    <3> QED  BY <2>1, MultipleFacts
  <2> QED  BY <2>2
<1>5. (p - s) % s = 0 /\ (p - s) \div s = 2 * j
  BY <1>3
<1> QED
  BY <1>3, <1>4, <1>5

LEMMA DoubleMultiple ==
    ASSUME NEW p \in Nat, NEW s \in Nat, s > 0, p % (2 * s) = 0
    PROVE  p % s = 0 /\ (p \div s) % 2 = 0
<1>1. PICK k \in Nat : p = k * (2 * s)
  BY Z3
<1>2. p = (2 * k) * s
  BY <1>1
<1>3. p % s = 0 /\ p \div s = 2 * k
  BY <1>2
<1> QED
  BY <1>3

\* The buddy is the other half of the block of twice the size, and conversely.
LEMMA BuddyFacts ==
    ASSUME NEW p \in Nat, NEW o \in Orders, p % Size[o] = 0
    PROVE  /\ BuddyOf(p, o) \in Nat
           /\ BuddyOf(BuddyOf(p, o), o) = p
           /\ Combined(p, o) \in Nat
           /\ Combined(p, o) % (2 * Size[o]) = 0
           /\ \/ Combined(p, o) = p /\ BuddyOf(p, o) = p + Size[o]
              \/ Combined(p, o) = BuddyOf(p, o) /\ BuddyOf(p, o) = p - Size[o]
<1> DEFINE s == Size[o]
<1>1. s \in Nat /\ s > 0
  BY SizeFacts
<1>2. CASE (p \div s) % 2 = 0
  <2>1. p % (2 * s) = 0 /\ ((p + s) \div s) % 2 = 1
    BY <1>1, <1>2, EvenMultiple
  <2>2. BuddyOf(p, o) = p + s /\ Combined(p, o) = p
    BY <1>2 DEF BuddyOf, Combined
  <2>3. BuddyOf(p + s, o) = p
    BY <1>1, <2>1 DEF BuddyOf
  <2> QED
    BY <1>1, <2>1, <2>2, <2>3
<1>3. CASE (p \div s) % 2 # 0
  <2>1. p >= s /\ (p - s) % (2 * s) = 0 /\ ((p - s) \div s) % 2 = 0
    BY <1>1, <1>3, OddMultiple
  <2>2. BuddyOf(p, o) = p - s /\ Combined(p, o) = p - s
    BY <1>3 DEF BuddyOf, Combined
  <2>3. BuddyOf(p - s, o) = p
    BY <1>1, <2>1 DEF BuddyOf
  <2> QED
    BY <1>1, <2>1, <2>2, <2>3
<1> QED
  BY <1>2, <1>3

\* What expand splits off is the buddy of what it keeps.
LEMMA HalfFacts ==
    ASSUME NEW p \in Nat, NEW o \in Orders, o > 0, p % Size[o] = 0
    PROVE  /\ p % Size[o - 1] = 0
           /\ (p + Size[o - 1]) % Size[o - 1] = 0
           /\ BuddyOf(p + Size[o - 1], o - 1) = p
<1> DEFINE s == Size[o - 1]
<1>1. s \in Nat /\ s > 0 /\ Size[o] = 2 * s
  BY SizeFacts
<1>2. p % s = 0 /\ (p \div s) % 2 = 0
  BY <1>1, DoubleMultiple
<1>3. (p + s) % s = 0 /\ ((p + s) \div s) % 2 = 1
  BY <1>1, <1>2, EvenMultiple
<1> QED
  BY <1>1, <1>2, <1>3 DEF BuddyOf

------------------------------------------------------------------------------
(****************************************************************************)
(* Geometry: what moving, splitting and joining blocks does to the partition *)
(* of the frames.                                                           *)
(****************************************************************************)
Geometry == NoOverlap /\ AllPlaced /\ NoFrameLost

LEMMA BlockFacts ==
    ASSUME blocks \subseteq Blocks, NEW b \in blocks
    PROVE  /\ b \in Blocks
           /\ b.page \in Frames /\ b.page \in Nat /\ b.order \in Orders /\ b.place \in Places
           /\ Size[b.order] \in Nat /\ Size[b.order] > 0
           /\ End(b) = b.page + Size[b.order] /\ End(b) \in Nat /\ b.page < End(b)
           /\ b = Block(b.page, b.order, b.place)
  BY SizeFacts, ZoneAssumption DEF Blocks, Frames, End, Block

LEMMA MovedFacts ==
    ASSUME NEW b \in Blocks, NEW pl \in Places
    PROVE  /\ Moved(b, pl) \in Blocks
           /\ Moved(b, pl).page = b.page /\ Moved(b, pl).order = b.order
           /\ Moved(b, pl).place = pl
           /\ Moved(b, pl) = Block(b.page, b.order, pl)
           /\ End(Moved(b, pl)) = End(b)
  BY DEF Blocks, Moved, End, Block

\* A block changes its place.
LEMMA MoveKeepsGeometry ==
    ASSUME blocks \subseteq Blocks, Geometry,
           NEW b \in blocks, NEW pl \in Places,
           blocks' = (blocks \ {b}) \cup {Moved(b, pl)}
    PROVE  Geometry' /\ blocks' \subseteq Blocks
<1> DEFINE m == Moved(b, pl)
<1>1. /\ m \in Blocks /\ m.page = b.page /\ m.order = b.order /\ End(m) = End(b)
      /\ b \in Blocks
  BY MovedFacts
<1> HIDE DEF m
<1>2. blocks' = (blocks \ {b}) \cup {m}
  BY DEF m
<1>3. NoOverlap'
  <2> SUFFICES ASSUME NEW c \in blocks', NEW d \in blocks', c # d PROVE Disjoint(c, d)
    BY DEF NoOverlap, Disjoint, End
  <2> QED
    BY <1>1, <1>2 DEF Geometry, NoOverlap, Disjoint
<1>4. AllPlaced'
  BY <1>1, <1>2 DEF Geometry, AllPlaced, End
<1>5. NoFrameLost'
  BY <1>1, <1>2 DEF Geometry, NoFrameLost, End
<1> QED
  BY <1>1, <1>2, <1>3, <1>4, <1>5 DEF Geometry

\* expand splits a block in two halves.
LEMMA SplitKeepsGeometry ==
    ASSUME blocks \subseteq Blocks, Geometry,
           NEW b \in blocks, b.order > 0, NEW pl \in Places, NEW ql \in Places,
           blocks' = (blocks \ {b}) \cup
                       {Block(b.page, b.order - 1, pl),
                        Block(b.page + Size[b.order - 1], b.order - 1, ql)}
    PROVE  Geometry' /\ blocks' \subseteq Blocks
<1> DEFINE s == Size[b.order - 1]
           x == Block(b.page, b.order - 1, pl)
           y == Block(b.page + s, b.order - 1, ql)
<1>1. /\ b \in Blocks /\ b.page \in Nat /\ b.page \in Frames /\ b.order \in Orders
      /\ End(b) = b.page + Size[b.order]
  BY BlockFacts
<1>2. b.order - 1 \in Orders /\ s \in Nat /\ s > 0 /\ Size[b.order] = 2 * s
  BY <1>1, SizeFacts
<1>3. b.page % Size[b.order] = 0 /\ End(b) <= ZoneEnd
  BY DEF Geometry, AllPlaced
<1>4. b.page % s = 0 /\ (b.page + s) % s = 0
  BY <1>1, <1>3, HalfFacts
<1>5. /\ x.page = b.page /\ End(x) = b.page + s /\ x.order = b.order - 1
      /\ y.page = b.page + s /\ End(y) = b.page + 2 * s /\ y.order = b.order - 1
  BY <1>1, <1>2 DEF Block, End
<1>6. x \in Blocks /\ y \in Blocks
  BY <1>1, <1>2, <1>3, ZoneAssumption DEF Block, Blocks, Frames
<1> HIDE DEF x, y
<1>7. blocks' = (blocks \ {b}) \cup {x, y}
  BY DEF x, y
<1>8. \A c \in blocks : c # b => Disjoint(c, x) /\ Disjoint(c, y)
  <2> SUFFICES ASSUME NEW c \in blocks, c # b PROVE Disjoint(c, x) /\ Disjoint(c, y)
    OBVIOUS
  <2>1. End(c) <= b.page \/ End(b) <= c.page
    BY DEF Geometry, NoOverlap, Disjoint
  <2>2. c.page \in Nat /\ End(c) \in Nat
    BY BlockFacts
  <2> QED
    BY <1>1, <1>2, <1>5, <2>1, <2>2 DEF Disjoint
<1>9. Disjoint(x, y)
  BY <1>5, <1>1, <1>2 DEF Disjoint
<1>10. NoOverlap'
  <2> SUFFICES ASSUME NEW c \in blocks', NEW d \in blocks', c # d PROVE Disjoint(c, d)
    BY DEF NoOverlap, Disjoint, End
  <2> QED
    BY <1>7, <1>8, <1>9 DEF Geometry, NoOverlap, Disjoint
<1>11. AllPlaced'
  <2>1. \A r \in Reserved : r < b.page \/ End(b) <= r
    BY DEF Geometry, AllPlaced
  <2>2. \A r \in Reserved : r \in Nat
    BY ReservedAssumption, ZoneAssumption DEF Frames
  <2>3. \A r \in Reserved : (r < x.page \/ End(x) <= r) /\ (r < y.page \/ End(y) <= r)
    BY <1>1, <1>2, <1>5, <2>1, <2>2
  <2>4. End(x) <= ZoneEnd /\ End(y) <= ZoneEnd
    BY <1>1, <1>2, <1>3, <1>5, ZoneAssumption
  <2> QED
    BY <1>4, <1>5, <1>7, <2>3, <2>4 DEF Geometry, AllPlaced, End
<1>12. NoFrameLost'
  <2> SUFFICES ASSUME NEW p \in Frames \ Reserved
               PROVE  \E c \in blocks' : c.page <= p /\ p < End(c)
    BY DEF NoFrameLost, End
  <2>1. PICK c \in blocks : c.page <= p /\ p < End(c)
    BY DEF Geometry, NoFrameLost
  <2>2. CASE c # b
    BY <1>7, <2>1, <2>2
  <2>3. CASE c = b
    <3>1. p < b.page + s \/ b.page + s <= p
      BY <1>1, <1>2, ZoneAssumption DEF Frames
    <3> QED
      BY <1>1, <1>2, <1>5, <1>7, <2>1, <2>3, <3>1
  <2> QED
    BY <2>2, <2>3
<1> QED
  BY <1>6, <1>7, <1>10, <1>11, <1>12 DEF Geometry

\* __free_pages_bulk joins a block with its buddy.
LEMMA JoinKeepsGeometry ==
    ASSUME blocks \subseteq Blocks, Geometry,
           NEW b \in blocks, NEW g \in blocks, b # g, NEW pl \in Places,
           b.order < MaxOrder - 1, g.order = b.order, g.page = BuddyOf(b.page, b.order),
           blocks' = (blocks \ {b, g}) \cup
                       {Block(Combined(b.page, b.order), b.order + 1, pl)}
    PROVE  Geometry' /\ blocks' \subseteq Blocks
<1> DEFINE s == Size[b.order]
           j == Block(Combined(b.page, b.order), b.order + 1, pl)
<1>1. /\ b \in Blocks /\ b.page \in Nat /\ b.page \in Frames /\ b.order \in Orders
      /\ g \in Blocks /\ g.page \in Nat /\ g.page \in Frames
      /\ End(b) = b.page + s /\ End(g) = g.page + s
  BY BlockFacts
<1>2. b.order + 1 \in Orders /\ s \in Nat /\ s > 0 /\ Size[b.order + 1] = 2 * s
  BY <1>1, SizeFacts
<1>3. b.page % s = 0 /\ End(b) <= ZoneEnd /\ End(g) <= ZoneEnd
  BY DEF Geometry, AllPlaced
<1>4. /\ Combined(b.page, b.order) \in Nat
      /\ Combined(b.page, b.order) % (2 * s) = 0
      /\ \/ Combined(b.page, b.order) = b.page /\ g.page = b.page + s
         \/ Combined(b.page, b.order) = g.page /\ g.page = b.page - s
  BY <1>1, <1>3, BuddyFacts
<1>5. j.page = Combined(b.page, b.order) /\ j.order = b.order + 1 /\ End(j) = j.page + 2 * s
  BY <1>2 DEF Block, End
<1>6. j \in Blocks
  BY <1>1, <1>2, <1>4 DEF Block, Blocks
<1> HIDE DEF j
<1>7. blocks' = (blocks \ {b, g}) \cup {j}
  BY DEF j
<1>8. \/ j.page = b.page /\ End(b) = g.page /\ End(j) = End(g)
      \/ j.page = g.page /\ End(g) = b.page /\ End(j) = End(b)
  BY <1>1, <1>2, <1>4, <1>5
<1>9. \A c \in blocks : c # b /\ c # g => Disjoint(c, j)
  <2> SUFFICES ASSUME NEW c \in blocks, c # b, c # g PROVE Disjoint(c, j)
    OBVIOUS
  <2>1. (End(c) <= b.page \/ End(b) <= c.page) /\ (End(c) <= g.page \/ End(g) <= c.page)
    BY DEF Geometry, NoOverlap, Disjoint
  <2>2. c.page \in Nat /\ End(c) \in Nat /\ c.page < End(c)
    BY BlockFacts
  <2> QED
    BY <1>1, <1>2, <1>8, <2>1, <2>2 DEF Disjoint
<1>10. NoOverlap'
  <2> SUFFICES ASSUME NEW c \in blocks', NEW d \in blocks', c # d PROVE Disjoint(c, d)
    BY DEF NoOverlap, Disjoint, End
  <2> QED
    BY <1>7, <1>9 DEF Geometry, NoOverlap, Disjoint
<1>11. AllPlaced'
  <2>1. \A r \in Reserved : (r < b.page \/ End(b) <= r) /\ (r < g.page \/ End(g) <= r)
    BY DEF Geometry, AllPlaced
  <2>2. \A r \in Reserved : r \in Nat
    BY ReservedAssumption, ZoneAssumption DEF Frames
  <2>3. \A r \in Reserved : r < j.page \/ End(j) <= r
    BY <1>1, <1>2, <1>8, <2>1, <2>2
  <2>4. End(j) <= ZoneEnd
    BY <1>3, <1>8
  <2>5. j.page % Size[j.order] = 0
    BY <1>2, <1>4, <1>5
  <2> QED
    BY <1>7, <2>3, <2>4, <2>5 DEF Geometry, AllPlaced, End
<1>12. NoFrameLost'
  <2> SUFFICES ASSUME NEW p \in Frames \ Reserved
               PROVE  \E c \in blocks' : c.page <= p /\ p < End(c)
    BY DEF NoFrameLost, End
  <2>1. PICK c \in blocks : c.page <= p /\ p < End(c)
    BY DEF Geometry, NoFrameLost
  <2>2. CASE c # b /\ c # g
    BY <1>7, <2>1, <2>2
  <2>3. CASE c = b \/ c = g
    <3>1. p \in Nat
      BY ZoneAssumption DEF Frames
    <3> QED
      BY <1>1, <1>2, <1>7, <1>8, <2>1, <2>3, <3>1
  <2> QED
    BY <2>2, <2>3
<1> QED
  BY <1>6, <1>7, <1>10, <1>11, <1>12 DEF Geometry

------------------------------------------------------------------------------
(****************************************************************************)
(* The inductive invariant.                                                 *)
(****************************************************************************)
Marks  == OrderMarks /\ CountMarks /\ Coalesced
Locals == LockDiscipline /\ ReadsHold
IInv   == TypeOK /\ Geometry /\ Marks /\ Locals

\* Blocks in different places, or of different orders, have different heads.
LEMMA OneBlockPerHead ==
    ASSUME blocks \subseteq Blocks, NoOverlap,
           NEW b \in blocks, NEW c \in blocks, b.page = c.page
    PROVE  b = c
  BY BlockFacts DEF NoOverlap, Disjoint

\* page_is_buddy is right: the marks it reads tell that the buddy is free.
LEMMA CanMergeIsJoinable ==
    ASSUME TypeOK, Geometry, Marks, NEW b \in blocks
    PROVE  CanMerge(b) <=> Joinable(b)
<1> DEFINE p == BuddyOf(b.page, b.order)
           g == Block(p, b.order, FreeArea)
<1>1. b.order \in Orders /\ b.page \in Nat
  BY BlockFacts DEF TypeOK
<1>2. ASSUME p \in Frames, pageOrder[p] = b.order PROVE g \in blocks
  BY <1>1, <1>2 DEF Marks, OrderMarks
<1>3. ASSUME g \in blocks
      PROVE  p \in Frames /\ pageOrder[p] = b.order /\ p \notin Reserved /\ pageCount[p] = 0
  <2>1. g.page = p /\ g.order = b.order /\ g.place = FreeArea
    BY DEF Block
  <2>2. p \in Frames /\ p \in Nat /\ p < End(g)
    BY <1>3, <2>1, BlockFacts DEF TypeOK
  <2>3. pageOrder[p] = b.order
    BY <1>1, <1>3, <2>2 DEF Marks, OrderMarks
  <2>4. p \notin Reserved
    <3> HIDE DEF g
    <3> SUFFICES ASSUME p \in Reserved PROVE FALSE
      OBVIOUS
    <3>1. p < g.page \/ End(g) <= p
      BY <1>3 DEF Geometry, AllPlaced
    <3>2. End(g) \in Nat
      BY <1>3, BlockFacts DEF TypeOK
    <3> QED
      BY <2>1, <2>2, <3>1, <3>2
  <2>5. pageCount[p] = 0
    <3>1. \A c \in At(InUse) : c.page # p
      BY <1>3, <2>1, PlaceFacts, OneBlockPerHead DEF At, Geometry, TypeOK
    <3> QED
      BY <2>2, <3>1 DEF Marks, CountMarks, TypeOK
  <2> QED
    BY <2>2, <2>3, <2>4, <2>5
<1> QED
  BY <1>2, <1>3 DEF CanMerge, IsBuddy, Joinable

\* The types, and the partition of the frames.
LEMMA TypeAndGeometryStep ==
    ASSUME IInv, [Next]_vars
    PROVE  TypeOK' /\ Geometry'
<1> USE DEF IInv
<1>1. CASE UNCHANGED vars
  BY <1>1 DEF vars, TypeOK, Geometry, NoOverlap, AllPlaced, NoFrameLost, Disjoint, End
<1>2. CASE Next
  <2> SUFFICES ASSUME NEW t \in Contexts, Call(t) \/ Continue(t) PROVE TypeOK' /\ Geometry'
    BY <1>2 DEF Next
  <2>a. ASSUME blocks' = blocks PROVE Geometry'
    BY <2>a DEF Geometry, NoOverlap, AllPlaced, NoFrameLost, Disjoint, End
  <2>b. ASSUME NEW b \in blocks, NEW pl \in Places,
               blocks' = (blocks \ {b}) \cup {Moved(b, pl)}
        PROVE  Geometry' /\ blocks' \subseteq Blocks
    BY <2>b, MoveKeepsGeometry DEF TypeOK
  <2>c. \A o \in Orders : Size[o] \in Int
    BY SizeFacts
  <2>d. pcp[t] # None => pcp[t] \in Lists /\ Pcp(pcp[t]) \in Places
    BY PlaceFacts DEF TypeOK
  <2>e. \A b \in blocks : b \in Blocks /\ b.page \in Frames /\ b.order \in Orders
    BY BlockFacts DEF TypeOK
  <2>1. ASSUME NEW l \in Lists, AllocPage(t, l) PROVE TypeOK' /\ Geometry'
    BY <2>1, <2>a DEF AllocPage, TypeOK, Goto, Labels
  <2>2. ASSUME NEW o \in Orders, AllocPages(t, o) PROVE TypeOK' /\ Geometry'
    BY <2>2, <2>a DEF AllocPages, TypeOK, Goto, Labels
  <2>3. ASSUME NEW b \in blocks, GetPage(t, b) PROVE TypeOK' /\ Geometry'
    <3>1. pageCount' \in [Frames -> Nat]
      BY <2>3, <2>e DEF GetPage, TypeOK
    <3> QED
      BY <2>3, <2>a, <3>1 DEF GetPage, TypeOK
  <2>4. ASSUME NEW b \in blocks, PutPage(t, b) PROVE TypeOK' /\ Geometry'
    <3>1. pageCount[b.page] > 0
      BY <2>4, <2>e DEF PutPage, At, Marks, CountMarks
    <3>2. pageCount' \in [Frames -> Nat]
      BY <2>4, <2>e, <3>1 DEF PutPage, TypeOK
    <3>3. Geometry' /\ blocks' \subseteq Blocks
      BY <2>4, <2>a, <2>b, PlaceFacts DEF PutPage, TypeOK
    <3> QED
      BY <2>4, <3>2, <3>3 DEF PutPage, TypeOK, Goto, Labels
  <2>5. CASE RefillLock(t)
    BY <2>5, <2>a, BoundsAssumption DEF RefillLock, TypeOK, Goto, Labels
  <2>6. CASE RefillUnlock(t)
    <3>1. pcpCount' \in [Lists -> Int]
      BY <2>6, <2>d DEF RefillUnlock, TypeOK, Locals, LockDiscipline
    <3> QED
      BY <2>6, <2>a, <3>1 DEF RefillUnlock, TypeOK, Goto, Labels
  <2>7. CASE TakeNone(t)
    BY <2>7, <2>a DEF TakeNone, TypeOK, Goto, Labels
  <2>8. CASE RmqueueFail(t)
    BY <2>8, <2>a, SizeFacts DEF RmqueueFail, TypeOK, Goto, Labels
  <2>9. CASE DrainLock(t)
    BY <2>9, <2>a, BoundsAssumption DEF DrainLock, TypeOK, Goto, Labels
  <2>10. CASE DrainUnlock(t)
    <3>1. pcpCount' \in [Lists -> Int]
      BY <2>10, <2>d DEF DrainUnlock, TypeOK, Locals, LockDiscipline
    <3> QED
      BY <2>10, <2>a, <3>1 DEF DrainUnlock, TypeOK, Goto, Labels
  <2>11. CASE Detach(t)
    <3>1. found[t] \in blocks
      BY <2>11 DEF Detach, Locals, ReadsHold, Reads, At
    <3>2. Geometry' /\ blocks' \subseteq Blocks
      BY <2>11, <2>b, <3>1, PlaceFacts DEF Detach
    <3> QED
      BY <2>11, <2>c, <2>e, <3>1, <3>2 DEF Detach, TypeOK, Goto, Labels
  <2>12. ASSUME NEW l \in Lists, FreePage(t, l) PROVE TypeOK' /\ Geometry'
    BY <2>12, <2>a DEF FreePage, TypeOK, Goto, Labels
  <2>13. ASSUME NEW b \in blocks, FindFree(t, b) PROVE TypeOK' /\ Geometry'
    BY <2>13, <2>a, <2>e DEF FindFree, TypeOK, Goto, Labels
  <2>14. ASSUME NEW b \in blocks, Expand(t, b) PROVE TypeOK' /\ Geometry'
    <3>1. b.order > 0
      BY <2>14, <2>e, SizeFacts DEF Expand, TypeOK, Orders
    <3>2. Geometry' /\ blocks' \subseteq Blocks
      BY <2>14, <3>1, SplitKeepsGeometry, PlaceFacts DEF Expand, TypeOK
    <3>3. b.order - 1 \in Orders
      BY <2>e, <3>1, SizeFacts
    <3>4. nrFree' \in [Orders -> Int]
      BY <2>14, <3>3 DEF Expand, TypeOK
    <3>5. pageOrder' \in [Frames -> Orders \cup {None}]
      BY <2>14, <3>3 DEF Expand, TypeOK
    <3> QED
      BY <2>14, <3>2, <3>4, <3>5 DEF Expand, TypeOK
  <2>15. ASSUME NEW b \in blocks, RefillAdd(t, b) PROVE TypeOK' /\ Geometry'
    <3>1. todo[t] > 0
      BY <2>15 DEF RefillAdd, Locals, LockDiscipline
    <3>2. Geometry' /\ blocks' \subseteq Blocks
      BY <2>15, <2>b, <2>d DEF RefillAdd
    <3> QED
      BY <2>15, <3>1, <3>2 DEF RefillAdd, TypeOK, Goto, Labels
  <2>16. ASSUME NEW b \in blocks, Take(t, b) PROVE TypeOK' /\ Geometry'
    <3>1. Geometry' /\ blocks' \subseteq Blocks
      BY <2>16, <2>b, PlaceFacts DEF Take
    <3>3. pcpCount' \in [Lists -> Int]
      BY <2>16, <2>d DEF Take, TypeOK, Locals, LockDiscipline
    <3> QED
      BY <2>16, <3>1, <3>3 DEF Take, TypeOK, Goto, Labels
  <2>17. ASSUME NEW b \in blocks, RmqueueUnlock(t, b) PROVE TypeOK' /\ Geometry'
    BY <2>17, <2>a DEF RmqueueUnlock, TypeOK, Goto, Labels
  <2>18. ASSUME NEW b \in blocks, PrepNewPage(t, b) PROVE TypeOK' /\ Geometry'
    <3>1. Geometry' /\ blocks' \subseteq Blocks
      BY <2>18, <2>b, PlaceFacts DEF PrepNewPage
    <3> QED
      BY <2>18, <3>1, SizeFacts DEF PrepNewPage, TypeOK, Goto, Labels
  <2>19. ASSUME NEW b \in blocks, Drain(t, b) PROVE TypeOK' /\ Geometry'
    <3>1. Geometry' /\ blocks' \subseteq Blocks
      BY <2>19, <2>b, PlaceFacts DEF Drain
    <3> QED
      BY <2>19, <2>c, <2>e, <3>1 DEF Drain, TypeOK, Goto, Labels
  <2>20. ASSUME NEW b \in blocks, ListAdd(t, b) PROVE TypeOK' /\ Geometry'
    <3>1. pcp[t] # None
      BY <2>20 DEF ListAdd, Locals, LockDiscipline
    <3>2. Geometry' /\ blocks' \subseteq Blocks
      BY <2>20, <2>b, <2>d, <3>1 DEF ListAdd
    <3>3. pcpCount' \in [Lists -> Int]
      BY <2>20, <2>d DEF ListAdd, TypeOK, Locals, LockDiscipline
    <3> QED
      BY <2>20, <3>2, <3>3 DEF ListAdd, TypeOK, Goto, Labels
  <2>21. ASSUME NEW b \in blocks, FreeLock(t, b) PROVE TypeOK' /\ Geometry'
    <3>1. Geometry' /\ blocks' \subseteq Blocks
      BY <2>21, <2>b, PlaceFacts DEF FreeLock
    <3> QED
      BY <2>21, <2>c, <2>e, <3>1 DEF FreeLock, TypeOK, Goto, Labels
  <2>22. ASSUME NEW b \in blocks, TestBuddy(t, b) PROVE TypeOK' /\ Geometry'
    BY <2>22, <2>a DEF TestBuddy, TypeOK, Goto, Labels
  <2>23. ASSUME NEW b \in blocks, Join(t, b) PROVE TypeOK' /\ Geometry'
    <3> DEFINE g == Block(BuddyOf(b.page, b.order), b.order, FreeArea)
    <3>1. b.order < MaxOrder - 1 /\ g \in blocks
      BY <2>23 DEF Join, Locals, ReadsHold, Reads, Joinable
    <3>2. g.page = BuddyOf(b.page, b.order) /\ g.order = b.order /\ g # b
      BY <2>23, PlaceFacts DEF Join, At, Block
    <3>3. Geometry' /\ blocks' \subseteq Blocks
      <4> HIDE DEF g
      <4>1. blocks' = (blocks \ {b, g}) \cup
                        {Block(Combined(b.page, b.order), b.order + 1, Hand(t))}
        BY <2>23 DEF Join, g
      <4> QED
        BY <3>1, <3>2, <4>1, JoinKeepsGeometry, PlaceFacts DEF TypeOK
    <3>4. nrFree' \in [Orders -> Int]
      BY <2>23, <2>e DEF Join, TypeOK
    <3>5. pageOrder' \in [Frames -> Orders \cup {None}]
      BY <2>23, <2>e DEF Join, TypeOK
    <3> QED
      BY <2>23, <3>3, <3>4, <3>5 DEF Join, TypeOK, Goto, Labels
  <2>24. ASSUME NEW b \in blocks, Place(t, b) PROVE TypeOK' /\ Geometry'
    <3>1. Geometry' /\ blocks' \subseteq Blocks
      BY <2>24, <2>b, PlaceFacts DEF Place
    <3> QED
      BY <2>24, <2>e, <3>1 DEF Place, TypeOK, Goto, Labels
  <2> QED
    BY <2>1, <2>2, <2>3, <2>4, <2>5, <2>6, <2>7, <2>8, <2>9, <2>10, <2>11, <2>12,
       <2>13, <2>14, <2>15, <2>16, <2>17, <2>18, <2>19, <2>20, <2>21, <2>22, <2>23,
       <2>24 DEF Call, Continue
<1> QED
  BY <1>1, <1>2

\* A move between other places changes nothing for the blocks in place q.
LEMMA MoveElsewhere ==
    ASSUME blocks \subseteq Blocks, NEW b \in blocks, NEW pl \in Places, NEW q \in Places,
           b.place # q, pl # q,
           blocks' = (blocks \ {b}) \cup {Moved(b, pl)}
    PROVE  \A c : c.place = q => (c \in blocks' <=> c \in blocks)
  BY MovedFacts

LEMMA FreeAreasUnchanged ==
    ASSUME OrderMarks, Coalesced, pageOrder' = pageOrder,
           \A c : c.place = FreeArea => (c \in blocks' <=> c \in blocks)
    PROVE  OrderMarks' /\ Coalesced'
<1>1. \A p, o : Block(p, o, FreeArea) \in blocks' <=> Block(p, o, FreeArea) \in blocks
  BY DEF Block
<1>2. \A c \in blocks' : c.place = FreeArea => c \in blocks
  OBVIOUS
<1> QED
  BY <1>1, <1>2 DEF OrderMarks, Coalesced, At

LEMMA InUseUnchanged ==
    ASSUME CountMarks, pageCount' = pageCount,
           \A c : c.place = InUse => (c \in blocks' <=> c \in blocks)
    PROVE  CountMarks'
  BY DEF CountMarks, At

\* A block in hand goes on a free list: its buddy is not there.
LEMMA ListedMarks ==
    ASSUME IInv, TypeOK', Geometry',
           NEW b \in blocks', b.place = FreeArea,
           \A c : c.place = FreeArea /\ c # b => (c \in blocks' <=> c \in blocks),
           b.order < MaxOrder - 1 =>
             Block(BuddyOf(b.page, b.order), b.order, FreeArea) \notin blocks',
           pageOrder' = [pageOrder EXCEPT ![b.page] = b.order]
    PROVE  OrderMarks' /\ Coalesced'
<1> USE DEF IInv
<1>1. b.page \in Frames /\ b.order \in Orders /\ b.page \in Nat
      /\ b = Block(b.page, b.order, FreeArea)
  BY ZoneAssumption DEF TypeOK, Blocks, Block, Frames
<1>2. \A p, o : /\ Block(p, o, FreeArea).place = FreeArea
                /\ Block(p, o, FreeArea).page = p
                /\ Block(p, o, FreeArea).order = o
  BY DEF Block
<1>3. \A c \in blocks' : c.page = b.page => c = b
  <2>1. \A c \in blocks' : c.page \in Nat /\ Size[c.order] \in Nat /\ Size[c.order] > 0
    <3>1. \A c \in blocks' : c.page \in Frames /\ c.order \in Orders
      BY DEF TypeOK, Blocks
    <3> QED
      BY <3>1, SizeFacts, ZoneAssumption DEF Frames
  <2> QED
    BY <2>1 DEF Geometry, NoOverlap, Disjoint, End
<1>4. OrderMarks'
  <2> SUFFICES ASSUME NEW p \in Frames, NEW o \in Orders
               PROVE  pageOrder'[p] = o <=> Block(p, o, FreeArea) \in blocks'
    BY DEF OrderMarks
  <2>1. CASE p = b.page
    BY <1>1, <1>2, <1>3, <2>1 DEF TypeOK
  <2>2. CASE p # b.page
    <3>1. Block(p, o, FreeArea) # b
      BY <1>2, <2>2
    <3>2. Block(p, o, FreeArea) \in blocks' <=> Block(p, o, FreeArea) \in blocks
      BY <1>2, <3>1
    <3> QED
      BY <1>1, <2>2, <3>2 DEF TypeOK, Marks, OrderMarks
  <2> QED
    BY <2>1, <2>2
<1>5. Coalesced'
  <2> SUFFICES ASSUME NEW c \in blocks', c.place = FreeArea, c.order < MaxOrder - 1,
                      Block(BuddyOf(c.page, c.order), c.order, FreeArea) \in blocks'
               PROVE  FALSE
    BY DEF Coalesced, At
  <2> DEFINE g == Block(BuddyOf(c.page, c.order), c.order, FreeArea)
  <2>1. c # b
    OBVIOUS
  <2>2. c \in blocks
    BY <2>1
  <2>3. g = b
    <3>1. g \notin blocks
      BY <2>2 DEF Marks, Coalesced, At
    <3> QED
      BY <1>2, <3>1
  <2>4. b.page = BuddyOf(c.page, c.order) /\ b.order = c.order
    BY <2>3 DEF Block
  <2>5. c.page \in Nat /\ c.order \in Orders /\ c.page % Size[c.order] = 0
    BY <2>2, BlockFacts DEF TypeOK, Geometry, AllPlaced
  <2>6. BuddyOf(b.page, b.order) = c.page
    BY <2>4, <2>5, BuddyFacts
  <2>7. c = Block(c.page, c.order, c.place)
    BY <2>2, BlockFacts DEF TypeOK
  <2> QED
    BY <2>4, <2>6, <2>7
<1> QED
  BY <1>4, <1>5

\* A block leaves its free list.
LEMMA UnlistedMarks ==
    ASSUME IInv, NEW b \in blocks, b.place = FreeArea,
           \A c : c.place = FreeArea => (c \in blocks' <=> c \in blocks /\ c # b),
           pageOrder' = [pageOrder EXCEPT ![b.page] = None]
    PROVE  OrderMarks' /\ Coalesced'
<1> USE DEF IInv
<1>1. b.page \in Frames /\ b.order \in Orders
  BY BlockFacts DEF TypeOK
<1>2. \A p, o : /\ Block(p, o, FreeArea).place = FreeArea
                /\ Block(p, o, FreeArea).page = p
  BY DEF Block
<1>3. Coalesced'
  BY <1>2 DEF Marks, Coalesced, At
<1>4. OrderMarks'
  <2> SUFFICES ASSUME NEW p \in Frames, NEW o \in Orders
               PROVE  pageOrder'[p] = o <=> Block(p, o, FreeArea) \in blocks'
    BY DEF OrderMarks
  <2>1. CASE p = b.page
    <3>1. Block(p, o, FreeArea) \in blocks => Block(p, o, FreeArea) = b
      BY <1>2, <2>1, OneBlockPerHead DEF TypeOK, Geometry
    <3> QED
      BY <1>1, <1>2, <2>1, <3>1, NoneAssumption DEF TypeOK
  <2>2. CASE p # b.page
    BY <1>1, <1>2, <2>2 DEF TypeOK, Marks, OrderMarks
  <2> QED
    BY <2>1, <2>2
<1> QED
  BY <1>3, <1>4

\* The marks in struct page stay right.
LEMMA MarksStep ==
    ASSUME IInv, [Next]_vars, TypeOK', Geometry'
    PROVE  Marks'
<1> USE DEF IInv
<1>a. ASSUME blocks' = blocks, pageOrder' = pageOrder, pageCount' = pageCount
      PROVE  Marks'
  BY <1>a DEF Marks, OrderMarks, CountMarks, Coalesced, At
<1>1. CASE UNCHANGED vars
  BY <1>1, <1>a DEF vars
<1>2. CASE Next
  <2> SUFFICES ASSUME NEW t \in Contexts, Call(t) \/ Continue(t) PROVE Marks'
    BY <1>2 DEF Next
  <2>b. ASSUME NEW b \in blocks, NEW pl \in Places, b.place # FreeArea, pl # FreeArea,
               blocks' = (blocks \ {b}) \cup {Moved(b, pl)}, pageOrder' = pageOrder
        PROVE  OrderMarks' /\ Coalesced'
    <3>1. \A c : c.place = FreeArea => (c \in blocks' <=> c \in blocks)
      BY <2>b, MoveElsewhere, PlaceFacts DEF TypeOK
    <3> QED
      BY <2>b, <3>1, FreeAreasUnchanged DEF Marks
  <2>c. ASSUME NEW b \in blocks, NEW pl \in Places, b.place # InUse, pl # InUse,
               blocks' = (blocks \ {b}) \cup {Moved(b, pl)}, pageCount' = pageCount
        PROVE  CountMarks'
    <3>1. \A c : c.place = InUse => (c \in blocks' <=> c \in blocks)
      BY <2>c, MoveElsewhere, PlaceFacts DEF TypeOK
    <3> QED
      BY <2>c, <3>1, InUseUnchanged DEF Marks
  <2>d. pcp[t] # None => Pcp(pcp[t]) \in Places /\ Pcp(pcp[t]) # FreeArea /\ Pcp(pcp[t]) # InUse
    BY PlaceFacts DEF TypeOK
  <2>e. \A b \in blocks : b \in Blocks /\ b.page \in Frames /\ b.order \in Orders /\ b.page \in Nat
    BY BlockFacts DEF TypeOK
  <2>f. ASSUME NEW b \in blocks, NEW c \in blocks, b.page = c.page PROVE b = c
    BY <2>f, OneBlockPerHead DEF TypeOK, Geometry
  <2>1. ASSUME NEW l \in Lists, AllocPage(t, l) \/ FreePage(t, l) PROVE Marks'
    BY <2>1, <1>a DEF AllocPage, FreePage
  <2>2. ASSUME NEW o \in Orders, AllocPages(t, o) PROVE Marks'
    BY <2>2, <1>a DEF AllocPages
  <2>3. ASSUME NEW b \in blocks, GetPage(t, b) PROVE Marks'
    <3>1. CountMarks'
      BY <2>3, <2>e DEF GetPage, TypeOK, Marks, CountMarks, At
    <3> QED
      BY <2>3, <3>1 DEF GetPage, Marks, OrderMarks, Coalesced, At
  <2>4. ASSUME NEW b \in blocks, PutPage(t, b) PROVE Marks'
    <3>1. b.place = InUse /\ pageOrder' = pageOrder /\ pageCount[b.page] > 0
          /\ pageCount' = [pageCount EXCEPT ![b.page] = @ - 1]
      BY <2>4, <2>e DEF PutPage, At, Marks, CountMarks
    <3>2. CASE pageCount[b.page] = 1
      <4>1. blocks' = (blocks \ {b}) \cup {Moved(b, Arg(t))}
        BY <2>4, <3>2 DEF PutPage
      <4>2. OrderMarks' /\ Coalesced'
        BY <2>b, <3>1, <4>1, PlaceFacts
      <4>3. \A c : c \in At(InUse)' <=> c \in At(InUse) /\ c # b
        BY <2>e, <4>1, PlaceFacts, MovedFacts DEF At
      <4>4. \A c \in At(InUse) : c.page = b.page => c = b
        BY <2>f DEF At
      <4>5. CountMarks'
        BY <2>e, <3>1, <3>2, <4>3, <4>4 DEF TypeOK, Marks, CountMarks
      <4> QED
        BY <4>2, <4>5 DEF Marks
    <3>3. CASE pageCount[b.page] # 1
      <4>1. blocks' = blocks
        BY <2>4, <3>3 DEF PutPage
      <4>2. CountMarks'
        BY <2>e, <3>1, <3>3, <4>1 DEF TypeOK, Marks, CountMarks, At
      <4> QED
        BY <3>1, <4>1, <4>2 DEF Marks, OrderMarks, Coalesced, At
    <3> QED
      BY <3>2, <3>3
  <2>5. CASE RefillLock(t) \/ RefillUnlock(t) \/ TakeNone(t) \/ RmqueueFail(t)
             \/ DrainLock(t) \/ DrainUnlock(t)
    BY <2>5, <1>a DEF RefillLock, RefillUnlock, TakeNone, RmqueueFail, DrainLock, DrainUnlock
  <2>6. ASSUME NEW b \in blocks, FindFree(t, b) \/ RmqueueUnlock(t, b) \/ TestBuddy(t, b)
        PROVE  Marks'
    BY <2>6, <1>a DEF FindFree, RmqueueUnlock, TestBuddy
  <2>7. ASSUME NEW b \in blocks, RefillAdd(t, b) PROVE Marks'
    BY <2>7, <2>b, <2>c, <2>d, PlaceFacts DEF RefillAdd, At, Marks
  <2>8. ASSUME NEW b \in blocks, Take(t, b) PROVE Marks'
    <3>1. pcp[t] # None
      BY <2>8 DEF Take, Locals, LockDiscipline
    <3> QED
      BY <2>8, <2>b, <2>c, <2>d, <3>1, PlaceFacts DEF Take, At, Marks
  <2>9. ASSUME NEW b \in blocks, Drain(t, b) PROVE Marks'
    <3>1. pcp[t] # None
      BY <2>9 DEF Drain, Locals, LockDiscipline
    <3> QED
      BY <2>9, <2>b, <2>c, <2>d, <3>1, PlaceFacts DEF Drain, At, Marks
  <2>10. ASSUME NEW b \in blocks, ListAdd(t, b) PROVE Marks'
    <3>1. pcp[t] # None
      BY <2>10 DEF ListAdd, Locals, LockDiscipline
    <3> QED
      BY <2>10, <2>b, <2>c, <2>d, <3>1, PlaceFacts DEF ListAdd, At, Marks
  <2>11. ASSUME NEW b \in blocks, FreeLock(t, b) PROVE Marks'
    BY <2>11, <2>b, <2>c, PlaceFacts DEF FreeLock, At, Marks
  <2>12. ASSUME NEW b \in blocks, PrepNewPage(t, b) PROVE Marks'
    <3>1. b.place = Hand(t) /\ blocks' = (blocks \ {b}) \cup {Moved(b, InUse)}
          /\ pageCount' = [pageCount EXCEPT ![b.page] = 1]
      BY <2>12 DEF PrepNewPage, At
    <3>2. \A o \in Orders : Block(b.page, o, FreeArea) \notin blocks
      <4>1. \A o : Block(b.page, o, FreeArea).page = b.page
                   /\ Block(b.page, o, FreeArea).place = FreeArea
        BY DEF Block
      <4> QED
        BY <2>f, <3>1, <4>1, PlaceFacts
    <3>3. pageOrder[b.page] = None
      BY <2>e, <3>2 DEF TypeOK, Marks, OrderMarks
    <3>4. pageOrder' = pageOrder
      BY <2>12, <2>e, <3>3 DEF PrepNewPage, TypeOK
    <3>5. OrderMarks' /\ Coalesced'
      BY <2>b, <3>1, <3>4, PlaceFacts
    <3>6. \A c : c \in At(InUse)' <=> c \in At(InUse) \/ c = Moved(b, InUse)
      BY <2>e, <3>1, PlaceFacts, MovedFacts DEF At
    <3>7. Moved(b, InUse).page = b.page
      BY <2>e, PlaceFacts, MovedFacts
    <3>8. CountMarks'
      BY <2>e, <3>1, <3>6, <3>7 DEF TypeOK, Marks, CountMarks
    <3> QED
      BY <3>5, <3>8 DEF Marks
  <2>13. CASE Detach(t)
    <3> DEFINE b == found[t]
    <3>1. b \in blocks /\ b.place = FreeArea
      BY <2>13 DEF Detach, Locals, ReadsHold, Reads, At
    <3>2. blocks' = (blocks \ {b}) \cup {Moved(b, Hand(t))} /\ pageCount' = pageCount
          /\ pageOrder' = [pageOrder EXCEPT ![b.page] = None]
      BY <2>13 DEF Detach
    <3> HIDE DEF b
    <3>3. \A c : c.place = FreeArea => (c \in blocks' <=> c \in blocks /\ c # b)
      BY <2>e, <3>1, <3>2, PlaceFacts, MovedFacts
    <3>4. CountMarks'
      BY <2>c, <3>1, <3>2, PlaceFacts
    <3> QED
      BY <3>1, <3>2, <3>3, <3>4, UnlistedMarks DEF Marks
  <2>14. ASSUME NEW b \in blocks, Expand(t, b) PROVE Marks'
    <3> DEFINE high == b.order - 1
               u == Block(b.page + Size[high], high, FreeArea)
               k == Block(b.page, high, Hand(t))
    <3>1. b.place = Hand(t) /\ b.order > 0 /\ blocks' = (blocks \ {b}) \cup {k, u}
          /\ pageCount' = pageCount /\ pageOrder' = [pageOrder EXCEPT ![u.page] = u.order]
      BY <2>14, <2>e, SizeFacts DEF Expand, At, Block, TypeOK, Orders
    <3>2. /\ u.page = b.page + Size[high] /\ u.order = high /\ u.place = FreeArea
          /\ k.place = Hand(t)
      BY DEF Block
    <3>3. BuddyOf(u.page, u.order) = b.page
      BY <2>e, <3>1, <3>2, HalfFacts DEF Geometry, AllPlaced
    <3> HIDE DEF u, k
    <3>4. Block(b.page, u.order, FreeArea) \notin blocks'
      <4> DEFINE g == Block(b.page, u.order, FreeArea)
      <4>1. g.page = b.page /\ g.place = FreeArea
        BY DEF Block
      <4>2. g \notin blocks
        BY <2>f, <3>1, <4>1, PlaceFacts
      <4>3. g # k
        BY <3>2, <4>1, PlaceFacts
      <4>4. g # u
        BY <2>e, <3>1, <3>2, <4>1, SizeFacts
      <4> QED
        BY <3>1, <4>2, <4>3, <4>4
    <3>5. \A c : c.place = FreeArea /\ c # u => (c \in blocks' <=> c \in blocks)
      BY <3>1, <3>2, PlaceFacts
    <3>6. \A c : c.place = InUse => (c \in blocks' <=> c \in blocks)
      BY <3>1, <3>2, PlaceFacts
    <3> QED
      BY <3>1, <3>2, <3>3, <3>4, <3>5, <3>6, ListedMarks, InUseUnchanged DEF Marks
  <2>15. ASSUME NEW b \in blocks, Join(t, b) PROVE Marks'
    <3> DEFINE g == Block(BuddyOf(b.page, b.order), b.order, FreeArea)
               j == Block(Combined(b.page, b.order), b.order + 1, Hand(t))
    <3>1. b.place = Hand(t) /\ g \in blocks /\ blocks' = (blocks \ {b, g}) \cup {j}
          /\ pageCount' = pageCount /\ pageOrder' = [pageOrder EXCEPT ![g.page] = None]
      BY <2>15 DEF Join, Locals, ReadsHold, Reads, Joinable, At, Block
    <3>2. g.place = FreeArea /\ j.place = Hand(t)
      BY DEF Block
    <3> HIDE DEF g, j
    <3>3. \A c : c.place = FreeArea => (c \in blocks' <=> c \in blocks /\ c # g)
      BY <3>1, <3>2, PlaceFacts
    <3>4. \A c : c.place = InUse => (c \in blocks' <=> c \in blocks)
      BY <3>1, <3>2, PlaceFacts
    <3> QED
      BY <3>1, <3>2, <3>3, <3>4, UnlistedMarks, InUseUnchanged DEF Marks
  <2>16. ASSUME NEW b \in blocks, Place(t, b) PROVE Marks'
    <3> DEFINE m == Moved(b, FreeArea)
    <3>1. b.place = Hand(t) /\ blocks' = (blocks \ {b}) \cup {m} /\ pageCount' = pageCount
          /\ pageOrder' = [pageOrder EXCEPT ![b.page] = b.order]
      BY <2>16 DEF Place, At
    <3>2. m.page = b.page /\ m.order = b.order /\ m.place = FreeArea
      BY <2>e, PlaceFacts, MovedFacts
    <3> HIDE DEF m
    <3>3. b.order < MaxOrder - 1 =>
            Block(BuddyOf(b.page, b.order), b.order, FreeArea) \notin blocks'
      <4> DEFINE g == Block(BuddyOf(b.page, b.order), b.order, FreeArea)
      <4>1. g.page = BuddyOf(b.page, b.order)
        BY DEF Block
      <4>2. b.order < MaxOrder - 1 => g \notin blocks
        BY <2>16 DEF Place, Locals, ReadsHold, Reads, Joinable
      <4>3. g # m
        <5>1. b.page % Size[b.order] = 0 /\ Size[b.order] \in Nat /\ Size[b.order] > 0
          BY <2>e, SizeFacts DEF Geometry, AllPlaced
        <5>2. BuddyOf(b.page, b.order) # b.page
          BY <2>e, <5>1, BuddyFacts
        <5> QED
          BY <3>2, <4>1, <5>2
      <4> QED
        BY <3>1, <4>2, <4>3
    <3>4. \A c : c.place = FreeArea /\ c # m => (c \in blocks' <=> c \in blocks)
      BY <3>1, <3>2, PlaceFacts
    <3>5. \A c : c.place = InUse => (c \in blocks' <=> c \in blocks)
      BY <3>1, <3>2, PlaceFacts
    <3> QED
      BY <3>1, <3>2, <3>3, <3>4, <3>5, ListedMarks, InUseUnchanged DEF Marks
  <2> QED
    BY <2>1, <2>2, <2>3, <2>4, <2>5, <2>6, <2>7, <2>8, <2>9, <2>10, <2>11, <2>12,
       <2>13, <2>14, <2>15, <2>16 DEF Call, Continue
<1> QED
  BY <1>1, <1>2

\* The lock and the interrupt flags are taken and given back in pairs.
LEMMA LockStep ==
    ASSUME IInv, [Next]_vars
    PROVE  LockDiscipline'
<1> USE DEF IInv, Locals
<1>1. CASE UNCHANGED vars
  BY <1>1 DEF vars, LockDiscipline
<1>2. CASE Next
  <2> SUFFICES ASSUME NEW t \in Contexts, Call(t) \/ Continue(t) PROVE LockDiscipline'
    BY <1>2 DEF Next
  <2> USE NoneAssumption DEF TypeOK, LockDiscipline, Goto
  <2>1. ASSUME NEW l \in Lists, AllocPage(t, l) PROVE LockDiscipline'
    BY <2>1 DEF AllocPage
  <2>2. ASSUME NEW o \in Orders, AllocPages(t, o) PROVE LockDiscipline'
    BY <2>2 DEF AllocPages
  <2>3. ASSUME NEW b \in blocks, GetPage(t, b) PROVE LockDiscipline'
    BY <2>3 DEF GetPage
  <2>4. ASSUME NEW b \in blocks, PutPage(t, b) PROVE LockDiscipline'
    BY <2>4 DEF PutPage
  <2>5. CASE RefillLock(t)
    BY <2>5 DEF RefillLock
  <2>6. CASE RefillUnlock(t)
    BY <2>6 DEF RefillUnlock
  <2>7. CASE TakeNone(t)
    BY <2>7 DEF TakeNone
  <2>8. CASE RmqueueFail(t)
    BY <2>8 DEF RmqueueFail
  <2>9. CASE DrainLock(t)
    BY <2>9 DEF DrainLock
  <2>10. CASE DrainUnlock(t)
    BY <2>10 DEF DrainUnlock
  <2>11. CASE Detach(t)
    BY <2>11 DEF Detach
  <2>12. ASSUME NEW l \in Lists, FreePage(t, l) PROVE LockDiscipline'
    BY <2>12 DEF FreePage
  <2>13. ASSUME NEW b \in blocks, FindFree(t, b) PROVE LockDiscipline'
    BY <2>13 DEF FindFree
  <2>14. ASSUME NEW b \in blocks, Expand(t, b) PROVE LockDiscipline'
    BY <2>14 DEF Expand
  <2>15. ASSUME NEW b \in blocks, RefillAdd(t, b) PROVE LockDiscipline'
    BY <2>15 DEF RefillAdd
  <2>16. ASSUME NEW b \in blocks, Take(t, b) PROVE LockDiscipline'
    BY <2>16 DEF Take
  <2>17. ASSUME NEW b \in blocks, RmqueueUnlock(t, b) PROVE LockDiscipline'
    BY <2>17 DEF RmqueueUnlock
  <2>18. ASSUME NEW b \in blocks, PrepNewPage(t, b) PROVE LockDiscipline'
    BY <2>18 DEF PrepNewPage
  <2>19. ASSUME NEW b \in blocks, Drain(t, b) PROVE LockDiscipline'
    BY <2>19 DEF Drain
  <2>20. ASSUME NEW b \in blocks, ListAdd(t, b) PROVE LockDiscipline'
    BY <2>20 DEF ListAdd
  <2>21. ASSUME NEW b \in blocks, FreeLock(t, b) PROVE LockDiscipline'
    BY <2>21 DEF FreeLock
  <2>22. ASSUME NEW b \in blocks, TestBuddy(t, b) PROVE LockDiscipline'
    BY <2>22 DEF TestBuddy
  <2>23. ASSUME NEW b \in blocks, Join(t, b) PROVE LockDiscipline'
    BY <2>23 DEF Join
  <2>24. ASSUME NEW b \in blocks, Place(t, b) PROVE LockDiscipline'
    BY <2>24 DEF Place
  <2> QED
    BY <2>1, <2>2, <2>3, <2>4, <2>5, <2>6, <2>7, <2>8, <2>9, <2>10, <2>11, <2>12,
       <2>13, <2>14, <2>15, <2>16, <2>17, <2>18, <2>19, <2>20, <2>21, <2>22, <2>23,
       <2>24 DEF Call, Continue
<1> QED
  BY <1>1, <1>2

\* What a context has read is out of reach of a step of another one: the hands
\* are private, and the free areas change only under the lock.
LEMMA OthersRead ==
    ASSUME IInv, NEW t \in Contexts,
           \A u \in Contexts \ {t} : pc'[u] = pc[u] /\ found'[u] = found[u],
           \A u \in Contexts \ {t} : \A c : c.place = Hand(u) => (c \in blocks' <=> c \in blocks),
           lock = t \/ \A c : c.place = FreeArea => (c \in blocks' <=> c \in blocks)
    PROVE  \A u \in Contexts \ {t} : Reads(u)'
<1> SUFFICES ASSUME NEW u \in Contexts \ {t} PROVE Reads(u)'
  OBVIOUS
<1>1. At(Hand(u))' = At(Hand(u))
  BY DEF At
<1>2. Reads(u)
  BY DEF IInv, Locals, ReadsHold
<1>3. pc[u] \in {"detach", "join", "place"} => lock = u
  BY DEF IInv, Locals, LockDiscipline
<1>4. CASE lock = t
  BY <1>1, <1>2, <1>3, <1>4 DEF Reads
<1>5. CASE \A c : c.place = FreeArea => (c \in blocks' <=> c \in blocks)
  <2>1. At(FreeArea)' = At(FreeArea)
    BY <1>5 DEF At
  <2>2. \A b : Joinable(b)' <=> Joinable(b)
    BY <1>5 DEF Joinable, Block
  <2> QED
    BY <1>1, <1>2, <2>1, <2>2 DEF Reads
<1> QED
  BY <1>4, <1>5

LEMMA AfterMove ==
    ASSUME blocks \subseteq Blocks, NEW b \in blocks, NEW pl \in Places,
           blocks' = (blocks \ {b}) \cup {Moved(b, pl)}, NEW ql
    PROVE  At(ql)' = (At(ql) \ {b}) \cup (IF pl = ql THEN {Moved(b, pl)} ELSE {})
  BY MovedFacts DEF At

\* What a context has read holds until it has used it.
LEMMA ReadsStep ==
    ASSUME IInv, [Next]_vars
    PROVE  ReadsHold'
<1> USE DEF IInv, Locals
<1>1. CASE UNCHANGED vars
  BY <1>1 DEF vars, ReadsHold, Reads, Joinable, At
<1>2. CASE Next
  <2> SUFFICES ASSUME NEW t \in Contexts, Call(t) \/ Continue(t) PROVE ReadsHold'
    BY <1>2 DEF Next
  <2>a. Reads(t) /\ pc \in [Contexts -> Labels] /\ found \in [Contexts -> Blocks \cup {None}]
    BY DEF ReadsHold, TypeOK
  <2>b. ASSUME Reads(t)',
               \A u \in Contexts \ {t} : pc'[u] = pc[u] /\ found'[u] = found[u],
               \A u \in Contexts \ {t} : \A c : c.place = Hand(u) => (c \in blocks' <=> c \in blocks),
               lock = t \/ \A c : c.place = FreeArea => (c \in blocks' <=> c \in blocks)
        PROVE  ReadsHold'
    BY <2>b, OthersRead DEF ReadsHold
  \* Steps that leave the blocks alone, and end where nothing is held or read.
  <2>c. ASSUME blocks' = blocks, found' = found, NEW label \in Labels, Goto(t, label),
               label \notin {"detach", "expand", "prep", "merge", "join", "place"},
               pc[t] \notin {"expand", "prep", "merge", "join", "place"}
        PROVE  ReadsHold'
    <3>1. pc'[t] = label /\ \A u \in Contexts \ {t} : pc'[u] = pc[u]
      BY <2>a, <2>c DEF Goto
    <3>2. Reads(t)'
      BY <2>a, <2>c, <3>1 DEF Reads, At
    <3> QED
      BY <2>b, <2>c, <3>1, <3>2
  \* Steps that move one block, in or out of the hand of t.
  <2>d. ASSUME NEW b \in blocks, NEW pl \in Places,
               blocks' = (blocks \ {b}) \cup {Moved(b, pl)},
               NEW label \in Labels, Goto(t, label),
               (b.place # FreeArea /\ pl # FreeArea) \/ lock = t,
               \A u \in Contexts \ {t} : found'[u] = found[u] /\ b.place # Hand(u) /\ pl # Hand(u),
               pl = Hand(t) => /\ At(Hand(t)) = {}
                               /\ label \in {"expand", "prep", "merge"},
               pl # Hand(t) => /\ At(Hand(t)) \subseteq {b}
                               /\ label \notin {"detach", "join", "place"}
        PROVE  ReadsHold'
    <3>1. pc'[t] = label /\ \A u \in Contexts \ {t} : pc'[u] = pc[u]
      BY <2>a, <2>d DEF Goto
    <3>2. \A ql : At(ql)' = (At(ql) \ {b}) \cup (IF pl = ql THEN {Moved(b, pl)} ELSE {})
      BY <2>d, AfterMove DEF TypeOK
    <3>3. Moved(b, pl).place = pl
      BY <2>d, MovedFacts DEF TypeOK
    <3>4. \A ql, c : ql # b.place /\ ql # pl /\ c.place = ql => (c \in blocks' <=> c \in blocks)
      BY <2>d, <3>3
    <3>5. Reads(t)'
      BY <2>d, <3>1, <3>2 DEF Reads
    <3> QED
      BY <2>b, <2>d, <3>1, <3>4, <3>5
  <2>e. \A b \in At(Hand(t)) : b \in blocks /\ At(Hand(t)) = {b} /\ b.place = Hand(t)
    BY <2>a DEF Reads, At
  <2>1. ASSUME NEW l \in Lists, AllocPage(t, l) \/ FreePage(t, l) PROVE ReadsHold'
    BY <2>1, <2>c DEF AllocPage, FreePage, Labels
  <2>2. ASSUME NEW o \in Orders, AllocPages(t, o) PROVE ReadsHold'
    BY <2>2, <2>c DEF AllocPages, Labels
  <2>3. ASSUME NEW b \in blocks, GetPage(t, b) PROVE ReadsHold'
    BY <2>3 DEF GetPage, ReadsHold, Reads, Joinable, At
  <2>4. ASSUME NEW b \in blocks, PutPage(t, b) PROVE ReadsHold'
    <3>1. CASE pageCount[b.page] = 1
      <4>1. At(Hand(t)) = {} /\ b.place = InUse /\ found' = found
        BY <2>4, <2>a DEF PutPage, Reads, At
      <4>2. /\ blocks' = (blocks \ {b}) \cup {Moved(b, Arg(t))}
            /\ Goto(t, IF b.order = 0 THEN "free_page" ELSE "free_lock")
        BY <2>4, <3>1 DEF PutPage
      <4> QED
        BY <2>4, <2>d, <4>1, <4>2, PlaceFacts DEF Labels
    <3>2. CASE pageCount[b.page] # 1
      BY <2>4, <3>2 DEF PutPage, ReadsHold, Reads, Joinable, At
    <3> QED
      BY <3>1, <3>2
  <2>5. CASE RefillLock(t) \/ RefillUnlock(t) \/ TakeNone(t) \/ RmqueueFail(t)
             \/ DrainLock(t) \/ DrainUnlock(t)
    BY <2>5, <2>c DEF RefillLock, RefillUnlock, TakeNone, RmqueueFail, DrainLock,
                      DrainUnlock, Labels
  <2>6. ASSUME NEW b \in blocks, FindFree(t, b) PROVE ReadsHold'
    <3>1. /\ blocks' = blocks /\ found' = [found EXCEPT ![t] = b] /\ b \in At(FreeArea)
          /\ pc' = [pc EXCEPT ![t] = "detach"] /\ At(Hand(t)) = {}
      BY <2>6, <2>a DEF FindFree, Smallest, Goto, Reads
    <3>2. Reads(t)'
      BY <2>a, <3>1 DEF Reads, At
    <3> QED
      BY <2>a, <2>b, <3>1, <3>2
  <2>7. CASE Detach(t)
    <3>1. found[t] \in blocks /\ found[t].place = FreeArea /\ At(Hand(t)) = {} /\ lock = t
      BY <2>7, <2>a DEF Detach, Reads, At, LockDiscipline
    <3>2. /\ blocks' = (blocks \ {found[t]}) \cup {Moved(found[t], Hand(t))}
          /\ \A u \in Contexts \ {t} : found'[u] = found[u]
          /\ Goto(t, "expand")
      BY <2>7, <2>a DEF Detach
    <3> QED
      BY <2>d, <3>1, <3>2, PlaceFacts DEF Labels
  <2>8. ASSUME NEW b \in blocks, Expand(t, b) PROVE ReadsHold'
    <3> DEFINE k == Block(b.page, b.order - 1, Hand(t))
               f == Block(b.page + Size[b.order - 1], b.order - 1, FreeArea)
    <3>1. /\ blocks' = (blocks \ {b}) \cup {k, f} /\ At(Hand(t)) = {b} /\ b.place = Hand(t)
          /\ found' = found /\ pc' = pc /\ pc[t] = "expand" /\ lock = t
      BY <2>8, <2>e DEF Expand, LockDiscipline
    <3>2. k.place = Hand(t) /\ f.place = FreeArea
      BY DEF Block
    <3> HIDE DEF k, f
    <3>3. At(Hand(t))' = {k}
      BY <3>1, <3>2, PlaceFacts DEF At
    <3>4. Reads(t)'
      BY <3>1, <3>3 DEF Reads
    <3>5. \A u \in Contexts \ {t} : \A c : c.place = Hand(u) => (c \in blocks' <=> c \in blocks)
      BY <3>1, <3>2, PlaceFacts
    <3> QED
      BY <2>b, <3>1, <3>4, <3>5
  <2>9. ASSUME NEW b \in blocks, RefillAdd(t, b) PROVE ReadsHold'
    <3>1. pcp[t] \in Lists /\ Goto(t, "refill") /\ found' = found
          /\ blocks' = (blocks \ {b}) \cup {Moved(b, Pcp(pcp[t]))}
          /\ At(Hand(t)) = {b} /\ b.place = Hand(t)
      BY <2>9, <2>e DEF RefillAdd, TypeOK
    <3> QED
      BY <2>9, <2>d, <3>1, PlaceFacts DEF Labels
  <2>10. ASSUME NEW b \in blocks, Take(t, b) \/ Drain(t, b) PROVE ReadsHold'
    <3>1. pcp[t] \in Lists /\ found' = found /\ b.place = Pcp(pcp[t]) /\ At(Hand(t)) = {}
          /\ blocks' = (blocks \ {b}) \cup {Moved(b, Hand(t))}
          /\ (Goto(t, "prep") \/ Goto(t, "merge"))
      BY <2>10, <2>a DEF Take, Drain, At, TypeOK, LockDiscipline, Reads
    <3> QED
      BY <2>10, <2>d, <3>1, PlaceFacts DEF Labels
  <2>11. ASSUME NEW b \in blocks, RmqueueUnlock(t, b) PROVE ReadsHold'
    <3>1. blocks' = blocks /\ found' = found /\ pc' = [pc EXCEPT ![t] = "prep"]
      BY <2>11 DEF RmqueueUnlock, Goto
    <3>2. Reads(t)'
      BY <2>a, <3>1 DEF Reads, At
    <3> QED
      BY <2>a, <2>b, <3>1, <3>2
  <2>12. ASSUME NEW b \in blocks, PrepNewPage(t, b) PROVE ReadsHold'
    <3>1. Goto(t, "idle") /\ found' = found
          /\ blocks' = (blocks \ {b}) \cup {Moved(b, InUse)}
          /\ At(Hand(t)) = {b} /\ b.place = Hand(t)
      BY <2>12, <2>e DEF PrepNewPage
    <3> QED
      BY <2>12, <2>d, <3>1, PlaceFacts DEF Labels
  <2>13. ASSUME NEW b \in blocks, ListAdd(t, b) PROVE ReadsHold'
    <3>1. pcp[t] \in Lists /\ found' = found /\ b.place = Arg(t) /\ At(Hand(t)) = {}
          /\ blocks' = (blocks \ {b}) \cup {Moved(b, Pcp(pcp[t]))} /\ Goto(t, "idle")
      BY <2>13, <2>a DEF ListAdd, At, TypeOK, LockDiscipline, Reads
    <3> QED
      BY <2>13, <2>d, <3>1, PlaceFacts DEF Labels
  <2>14. ASSUME NEW b \in blocks, FreeLock(t, b) PROVE ReadsHold'
    <3>1. found' = found /\ b.place = Arg(t) /\ At(Hand(t)) = {}
          /\ blocks' = (blocks \ {b}) \cup {Moved(b, Hand(t))} /\ Goto(t, "merge")
      BY <2>14, <2>a DEF FreeLock, At, Reads
    <3> QED
      BY <2>14, <2>d, <3>1, PlaceFacts DEF Labels
  <2>15. ASSUME NEW b \in blocks, TestBuddy(t, b) PROVE ReadsHold'
    <3>1. /\ blocks' = blocks /\ found' = found
          /\ pc' = [pc EXCEPT ![t] = IF CanMerge(b) THEN "join" ELSE "place"]
          /\ At(Hand(t)) = {b}
      BY <2>15, <2>e DEF TestBuddy, Goto
    <3>2. CanMerge(b) <=> Joinable(b)
      BY <2>15, CanMergeIsJoinable
    <3>3. Reads(t)'
      BY <2>a, <3>1, <3>2 DEF Reads, At, Joinable
    <3> QED
      BY <2>a, <2>b, <3>1, <3>3
  <2>16. ASSUME NEW b \in blocks, Join(t, b) PROVE ReadsHold'
    <3> DEFINE g == Block(BuddyOf(b.page, b.order), b.order, FreeArea)
               j == Block(Combined(b.page, b.order), b.order + 1, Hand(t))
    <3>1. /\ blocks' = (blocks \ {b, g}) \cup {j} /\ At(Hand(t)) = {b} /\ b.place = Hand(t)
          /\ found' = found /\ pc' = [pc EXCEPT ![t] = "merge"] /\ lock = t
      BY <2>16, <2>e DEF Join, LockDiscipline, Goto
    <3>2. j.place = Hand(t) /\ g.place = FreeArea
      BY DEF Block
    <3> HIDE DEF j, g
    <3>3. At(Hand(t))' = {j}
      BY <3>1, <3>2, PlaceFacts DEF At
    <3>4. Reads(t)'
      BY <2>a, <3>1, <3>3 DEF Reads
    <3>5. \A u \in Contexts \ {t} : \A c : c.place = Hand(u) => (c \in blocks' <=> c \in blocks)
      BY <3>1, <3>2, PlaceFacts
    <3> QED
      BY <2>a, <2>b, <3>1, <3>4, <3>5
  <2>17. ASSUME NEW b \in blocks, Place(t, b) PROVE ReadsHold'
    <3>1. /\ blocks' = (blocks \ {b}) \cup {Moved(b, FreeArea)} /\ At(Hand(t)) = {b}
          /\ b.place = Hand(t) /\ found' = found /\ lock = t
          /\ (Goto(t, "drain") \/ Goto(t, "idle"))
      BY <2>17, <2>e DEF Place, LockDiscipline
    <3> QED
      BY <2>17, <2>d, <3>1, PlaceFacts DEF Labels
  <2> QED
    BY <2>1, <2>2, <2>3, <2>4, <2>5, <2>6, <2>7, <2>8, <2>9, <2>10, <2>11, <2>12,
       <2>13, <2>14, <2>15, <2>16, <2>17 DEF Call, Continue
<1> QED
  BY <1>1, <1>2

\* Blocks of one size, aligned on it, do not overlap.
LEMMA AlignedDisjoint ==
    ASSUME NEW s \in Nat \ {0}, NEW p \in Nat, NEW q \in Nat, p # q, p % s = 0, q % s = 0
    PROVE  p + s <= q \/ q + s <= p
<1>1. PICK k \in Nat : p = k * s
  BY Z3
<1>2. PICK j \in Nat : q = j * s
  BY Z3
<1>3. k + 1 <= j \/ j + 1 <= k
  BY <1>1, <1>2
<1> QED
  BY <1>1, <1>2, <1>3

\* The states free_all_bootmem can leave.
LEMMA InitIInv == Init => IInv
<1> SUFFICES ASSUME Init PROVE IInv
  OBVIOUS
<1> DEFINE s == Size[BootOrder]
<1>a. PICK words \in SUBSET WholeWords :
        /\ blocks = {Block(p, BootOrder, InUse) : p \in words}
                      \cup {Block(p, 0, InUse) : p \in Singles(words)}
        /\ pageCount = [p \in Frames |-> IF p \in words \cup Singles(words) THEN 1 ELSE 0]
  BY DEF Init
<1>b. BootOrder \in Orders /\ s \in Nat \ {0} /\ 0 \in Orders /\ Size[0] = 1
  BY BoundsAssumption, SizeFacts, SizeAssumption DEF Orders
<1>c. \A p \in Frames : p \in Nat /\ p % 1 = 0 /\ p + 1 <= ZoneEnd
  BY ZoneAssumption DEF Frames
<1>d. \A p \in words : /\ p \in Frames /\ p % s = 0 /\ p + s <= ZoneEnd
                       /\ \A r \in Reserved : r < p \/ p + s <= r
  BY <1>a DEF WholeWords
<1>e. \A p \in Singles(words) : /\ p \in Frames \ Reserved
                                /\ \A q \in words : p < q \/ q + s <= p
  BY DEF Singles
<1>1. \A b \in blocks :
        \/ b = Block(b.page, BootOrder, InUse) /\ b.page \in words
           /\ b.order = BootOrder /\ b.place = InUse /\ End(b) = b.page + s
        \/ b = Block(b.page, 0, InUse) /\ b.page \in Singles(words)
           /\ b.order = 0 /\ b.place = InUse /\ End(b) = b.page + 1
  BY <1>a, <1>b DEF Block, End
<1>2. \A b \in blocks : b \in Blocks /\ b.place = InUse
  BY <1>1, <1>b, <1>d, <1>e, PlaceFacts DEF Block, Blocks
<1>3. \A p \in words \cup Singles(words) : \E b \in blocks : b.page = p
  <2>1. \A p, o : Block(p, o, InUse).page = p
    BY DEF Block
  <2> QED
    BY <1>a, <2>1
<1>4. TypeOK
  BY <1>2, <1>a, SizeFacts DEF Init, TypeOK, Labels
<1>5. NoOverlap
  <2> SUFFICES ASSUME NEW b \in blocks, NEW c \in blocks, b # c PROVE Disjoint(b, c)
    BY DEF NoOverlap
  <2>1. b.page \in Nat /\ c.page \in Nat
    BY <1>1, <1>c, <1>d, <1>e
  <2>2. CASE b.page \in words /\ b.order = BootOrder /\ End(b) = b.page + s
             /\ b = Block(b.page, BootOrder, InUse)
    <3>1. CASE c.page \in words /\ c = Block(c.page, BootOrder, InUse) /\ End(c) = c.page + s
      BY <1>b, <1>d, <2>1, <2>2, <3>1, AlignedDisjoint DEF Disjoint
    <3>2. CASE c.page \in Singles(words) /\ End(c) = c.page + 1
      BY <1>b, <1>d, <1>e, <2>1, <2>2, <3>2 DEF Disjoint
    <3> QED
      BY <1>1, <3>1, <3>2
  <2>3. CASE b.page \in Singles(words) /\ End(b) = b.page + 1 /\ b = Block(b.page, 0, InUse)
    <3>1. CASE c.page \in words /\ End(c) = c.page + s
      BY <1>b, <1>d, <1>e, <2>1, <2>3, <3>1 DEF Disjoint
    <3>2. CASE c.page \in Singles(words) /\ c = Block(c.page, 0, InUse) /\ End(c) = c.page + 1
      BY <2>1, <2>3, <3>2 DEF Disjoint
    <3> QED
      BY <1>1, <3>1, <3>2
  <2> QED
    BY <1>1, <2>2, <2>3
<1>6. AllPlaced
  <2> SUFFICES ASSUME NEW b \in blocks
               PROVE  /\ b.page % Size[b.order] = 0 /\ End(b) <= ZoneEnd
                      /\ \A r \in Reserved : r < b.page \/ End(b) <= r
    BY DEF AllPlaced
  <2>1. CASE b.page \in words /\ b.order = BootOrder /\ End(b) = b.page + s
    BY <1>d, <2>1
  <2>2. CASE b.page \in Singles(words) /\ b.order = 0 /\ End(b) = b.page + 1
    <3>1. b.page \in Nat /\ b.page % Size[0] = 0 /\ b.page + 1 <= ZoneEnd
      BY <1>b, <1>c, <1>e, <2>2
    <3>2. \A r \in Reserved : r \in Nat /\ r # b.page
      BY <1>c, <1>e, <2>2, ReservedAssumption
    <3> QED
      BY <2>2, <3>1, <3>2
  <2> QED
    BY <1>1, <2>1, <2>2
<1>7. NoFrameLost
  <2> SUFFICES ASSUME NEW p \in Frames \ Reserved
               PROVE  \E b \in blocks : b.page <= p /\ p < End(b)
    BY DEF NoFrameLost
  <2>1. CASE p \in Singles(words)
    <3>1. PICK b \in blocks : b = Block(p, 0, InUse)
      BY <1>a, <2>1
    <3>2. b.page = p /\ End(b) = p + 1
      BY <1>b, <3>1 DEF Block, End
    <3> QED
      BY <1>c, <3>2
  <2>2. CASE p \notin Singles(words)
    <3>1. PICK q \in words : ~(p < q) /\ ~(q + s <= p)
      BY <2>2 DEF Singles
    <3>2. PICK b \in blocks : b = Block(q, BootOrder, InUse)
      BY <1>a, <3>1
    <3>3. b.page = q /\ End(b) = q + s
      BY <1>b, <3>2 DEF Block, End
    <3> QED
      BY <1>b, <1>c, <1>d, <3>1, <3>3
  <2> QED
    BY <2>1, <2>2
<1>8. At(FreeArea) = {} /\ At(InUse) = blocks /\ \A t \in Contexts : At(Hand(t)) = {}
  BY <1>2, PlaceFacts DEF At
<1>9. \A p, o : Block(p, o, FreeArea) \notin blocks
  <2>1. \A p, o : Block(p, o, FreeArea).place = FreeArea
    BY DEF Block
  <2> QED
    BY <1>2, <2>1, PlaceFacts
<1>10. OrderMarks
  BY <1>9, NoneAssumption DEF Init, OrderMarks
<1>11. CountMarks
  BY <1>1, <1>3, <1>8, <1>a DEF CountMarks
<1>12. Coalesced
  BY <1>8 DEF Coalesced
<1>13. LockDiscipline
  BY NoneAssumption DEF Init, LockDiscipline
<1>14. ReadsHold
  BY <1>8 DEF Init, ReadsHold, Reads
<1> QED
  BY <1>4, <1>5, <1>6, <1>7, <1>10, <1>11, <1>12, <1>13, <1>14
     DEF IInv, Geometry, Marks, Locals

LEMMA IInvStep == IInv /\ [Next]_vars => IInv'
  BY TypeAndGeometryStep, MarksStep, LockStep, ReadsStep DEF IInv, Marks, Locals

\* The inductive invariant holds in every behaviour of the allocator.
THEOREM IInvHolds == Spec => []IInv
  BY InitIInv, IInvStep, PTL DEF Spec

\* Every variable of the allocator keeps its type.
THEOREM TypeCorrect == Spec => []TypeOK
  BY IInvHolds, PTL DEF IInv

\* No frame is ever in two blocks: buffered_rmqueue never hands out a page that
\* a caller, a list or another context has, in any interleaving.
THEOREM PartitionDisjoint == Spec => []NoOverlap
<1>1. IInv => NoOverlap
  BY DEF IInv, Geometry
<1> QED
  BY <1>1, IInvHolds, PTL

\* expand and __free_pages_bulk keep blocks aligned, in the zone and off the
\* reserved frames: their BUG_ONs never fire.
THEOREM BlocksWellPlaced == Spec => []AllPlaced
<1>1. IInv => AllPlaced
  BY DEF IInv, Geometry
<1> QED
  BY <1>1, IInvHolds, PTL

\* No path of the allocator loses a frame.
THEOREM NothingLost == Spec => []NoFrameLost
<1>1. IInv => NoFrameLost
  BY DEF IInv, Geometry
<1> QED
  BY <1>1, IInvHolds, PTL

\* The frames that boot gave up are partitioned into blocks that are where they may be.
THEOREM FramesPartitioned == Spec => []Partitioned
  BY PartitionDisjoint, BlocksWellPlaced, NothingLost, PTL DEF Partitioned

\* PG_private and page->private mark the heads of the free blocks and no other page.
THEOREM MarksMatchLists == Spec => []OrderMarks
<1>1. IInv => OrderMarks
  BY DEF IInv, Marks
<1> QED
  BY <1>1, IInvHolds, PTL

\* page_count is positive exactly for the head of a block in use.
THEOREM CountsMatchUse == Spec => []CountMarks
<1>1. IInv => CountMarks
  BY DEF IInv, Marks
<1> QED
  BY <1>1, IInvHolds, PTL

\* The free areas are fully merged whenever any context can look at them.
THEOREM AlwaysCoalesced == Spec => []Coalesced
<1>1. IInv => Coalesced
  BY DEF IInv, Marks
<1> QED
  BY <1>1, IInvHolds, PTL

\* The marks agree with the free areas, which are merged.
THEOREM MarksAgreeAlways == Spec => []MarksAgree
  BY MarksMatchLists, CountsMatchUse, AlwaysCoalesced, PTL DEF MarksAgree

\* zone->lock protects the free areas, and what was read under it stays true.
THEOREM LockProtects == Spec => [](LockDiscipline /\ ReadsHold)
<1>1. IInv => LockDiscipline /\ ReadsHold
  BY DEF IInv, Locals
<1> QED
  BY <1>1, IInvHolds, PTL

------------------------------------------------------------------------------
(****************************************************************************)
(* The allocator implements PageOwner.                                      *)
(****************************************************************************)
Extent(b) == [page |-> b.page, order |-> b.order]
OwnedBar  == {Extent(b) : b \in At(InUse)}

LEMMA ExtentFacts ==
    ASSUME TypeOK, NEW c \in blocks
    PROVE  /\ c \in Blocks /\ Extent(c) \in Owner!Extents
           /\ Owner!End(Extent(c)) = End(c)
           /\ Extent(c).page = c.page /\ Extent(c).order = c.order
  BY BlockFacts DEF TypeOK, Extent, Owner!Extents, Owner!Frames, Owner!Orders,
                    Frames, Orders, Owner!End, End

LEMMA InitOwned == Init => Owner!Init
<1> SUFFICES ASSUME Init PROVE Owner!Init
  OBVIOUS
<1> USE InitIInv DEF IInv, Geometry
<1>1. OwnedBar \in SUBSET Owner!Extents
  BY ExtentFacts DEF OwnedBar, At
<1>2. \A b \in At(InUse) : Owner!WellPlaced(Extent(b))
  BY ExtentFacts DEF At, AllPlaced, Owner!WellPlaced
<1>3. \A b, c \in At(InUse) : b # c => Owner!Disjoint(Extent(b), Extent(c))
  BY ExtentFacts DEF At, NoOverlap, Disjoint, Owner!Disjoint
<1> QED
  BY <1>1, <1>2, <1>3 DEF OwnedBar, Owner!Init, Extent

LEMMA OwnedStep ==
    ASSUME IInv, [Next]_vars
    PROVE  Owner!Next \/ UNCHANGED OwnedBar
<1> USE DEF IInv
<1>a. ASSUME blocks' = blocks PROVE UNCHANGED OwnedBar
  BY <1>a DEF OwnedBar, At
<1>b. ASSUME \A c : c.place = InUse => (c \in blocks' <=> c \in blocks)
      PROVE  UNCHANGED OwnedBar
  <2>1. At(InUse)' = At(InUse)
    BY <1>b DEF At
  <2> QED
    BY <2>1 DEF OwnedBar
<1>1. CASE UNCHANGED vars
  BY <1>1, <1>a DEF vars
<1>2. CASE Next
  <2> SUFFICES ASSUME NEW t \in Contexts, Call(t) \/ Continue(t)
               PROVE  Owner!Next \/ UNCHANGED OwnedBar
    BY <1>2 DEF Next
  <2>a. \A c \in blocks : /\ c \in Blocks /\ Extent(c) \in Owner!Extents
                          /\ Owner!End(Extent(c)) = End(c)
                          /\ Extent(c).page = c.page /\ Extent(c).order = c.order
    BY ExtentFacts
  <2>b. ASSUME NEW b \in blocks, NEW pl \in Places, b.place # InUse, pl # InUse,
               blocks' = (blocks \ {b}) \cup {Moved(b, pl)}
        PROVE  UNCHANGED OwnedBar
    BY <2>a, <2>b, <1>b, MovedFacts
  <2>c. pcp[t] # None => pcp[t] \in Lists
    BY DEF TypeOK
  <2>1. ASSUME NEW l \in Lists, AllocPage(t, l) \/ FreePage(t, l)
        PROVE  UNCHANGED OwnedBar
    BY <2>1, <1>a DEF AllocPage, FreePage
  <2>2. ASSUME NEW o \in Orders, AllocPages(t, o) PROVE UNCHANGED OwnedBar
    BY <2>2, <1>a DEF AllocPages
  <2>3. ASSUME NEW b \in blocks, GetPage(t, b) PROVE UNCHANGED OwnedBar
    BY <2>3, <1>a DEF GetPage
  \* The last reference is dropped: the block is released.
  <2>4. ASSUME NEW b \in blocks, PutPage(t, b) PROVE Owner!Next \/ UNCHANGED OwnedBar
    <3>1. CASE pageCount[b.page] = 1
      <4>1. b.place = InUse /\ blocks' = (blocks \ {b}) \cup {Moved(b, Arg(t))}
        BY <2>4, <3>1 DEF PutPage, At
      <4>2. At(InUse)' = At(InUse) \ {b}
        BY <4>1, AfterMove, PlaceFacts DEF TypeOK
      <4>3. \A c \in At(InUse) : Extent(c) = Extent(b) => c = b
        BY <2>a, OneBlockPerHead DEF At, TypeOK, Geometry
      <4>4. OwnedBar' = OwnedBar \ {Extent(b)}
        BY <4>2, <4>3 DEF OwnedBar
      <4>5. Extent(b) \in OwnedBar
        BY <4>1 DEF OwnedBar, At
      <4>6. Owner!Release(Extent(b))
        BY <4>4, <4>5 DEF Owner!Release, OwnedBar, Extent
      <4> QED
        BY <2>a, <4>6 DEF Owner!Next
    <3>2. CASE pageCount[b.page] # 1
      BY <2>4, <3>2, <1>a DEF PutPage
    <3> QED
      BY <3>1, <3>2
  <2>5. CASE RefillLock(t) \/ RefillUnlock(t) \/ TakeNone(t) \/ RmqueueFail(t)
             \/ DrainLock(t) \/ DrainUnlock(t)
    BY <2>5, <1>a DEF RefillLock, RefillUnlock, TakeNone, RmqueueFail, DrainLock, DrainUnlock
  <2>6. ASSUME NEW b \in blocks, FindFree(t, b) \/ RmqueueUnlock(t, b) \/ TestBuddy(t, b)
        PROVE  UNCHANGED OwnedBar
    BY <2>6, <1>a DEF FindFree, RmqueueUnlock, TestBuddy
  <2>7. CASE Detach(t)
    <3>1. found[t] \in blocks /\ found[t].place = FreeArea
      BY <2>7 DEF Detach, Locals, ReadsHold, Reads, At
    <3> QED
      BY <2>7, <2>b, <3>1, PlaceFacts DEF Detach
  <2>8. ASSUME NEW b \in blocks, RefillAdd(t, b) \/ Take(t, b) \/ Drain(t, b)
                                 \/ ListAdd(t, b) \/ FreeLock(t, b) \/ Place(t, b)
        PROVE  UNCHANGED OwnedBar
    <3>1. pc[t] \in {"take", "drain", "list_add"} => pcp[t] \in Lists
      BY <2>c DEF Locals, LockDiscipline
    <3>2. PICK pl \in Places : /\ b.place # InUse /\ pl # InUse
                               /\ blocks' = (blocks \ {b}) \cup {Moved(b, pl)}
      BY <2>8, <2>c, <3>1, PlaceFacts
         DEF RefillAdd, Take, Drain, ListAdd, FreeLock, Place, At
    <3> QED
      BY <3>2, <2>b
  <2>9. ASSUME NEW b \in blocks, Expand(t, b) PROVE UNCHANGED OwnedBar
    <3> DEFINE k == Block(b.page, b.order - 1, Hand(t))
               f == Block(b.page + Size[b.order - 1], b.order - 1, FreeArea)
    <3>1. blocks' = (blocks \ {b}) \cup {k, f} /\ b.place = Hand(t)
      BY <2>9 DEF Expand, At
    <3>2. k.place = Hand(t) /\ f.place = FreeArea
      BY DEF Block
    <3> HIDE DEF k, f
    <3> QED
      BY <1>b, <3>1, <3>2, PlaceFacts
  <2>10. ASSUME NEW b \in blocks, Join(t, b) PROVE UNCHANGED OwnedBar
    <3> DEFINE g == Block(BuddyOf(b.page, b.order), b.order, FreeArea)
               j == Block(Combined(b.page, b.order), b.order + 1, Hand(t))
    <3>1. blocks' = (blocks \ {b, g}) \cup {j} /\ b.place = Hand(t)
      BY <2>10 DEF Join, At
    <3>2. j.place = Hand(t) /\ g.place = FreeArea
      BY DEF Block
    <3> HIDE DEF g, j
    <3> QED
      BY <1>b, <3>1, <3>2, PlaceFacts
  \* The block is granted: it was in no caller's hands, so it is clear of all of them.
  <2>11. ASSUME NEW b \in blocks, PrepNewPage(t, b) PROVE Owner!Next
    <3>1. b.place = Hand(t) /\ blocks' = (blocks \ {b}) \cup {Moved(b, InUse)}
      BY <2>11 DEF PrepNewPage, At
    <3>2. At(InUse)' = At(InUse) \cup {Moved(b, InUse)}
      <4>1. At(InUse)' = (At(InUse) \ {b}) \cup {Moved(b, InUse)}
        BY <3>1, AfterMove, PlaceFacts DEF TypeOK
      <4>2. b \notin At(InUse)
        BY <3>1, PlaceFacts DEF At
      <4> QED
        BY <4>1, <4>2
    <3>3. Extent(Moved(b, InUse)) = Extent(b)
      BY <2>a, PlaceFacts, MovedFacts DEF Extent
    <3>4. OwnedBar' = OwnedBar \cup {Extent(b)}
      BY <3>2, <3>3 DEF OwnedBar
    <3>5. Owner!WellPlaced(Extent(b))
      BY <2>a DEF Owner!WellPlaced, Geometry, AllPlaced
    <3>6. \A c \in At(InUse) : Owner!Disjoint(Extent(b), Extent(c))
      <4> SUFFICES ASSUME NEW c \in At(InUse) PROVE Owner!Disjoint(Extent(b), Extent(c))
        OBVIOUS
      <4>1. c \in blocks /\ c # b
        BY <3>1, PlaceFacts DEF At
      <4>2. Disjoint(b, c)
        BY <4>1 DEF Geometry, NoOverlap
      <4> QED
        BY <2>a, <4>1, <4>2 DEF Disjoint, Owner!Disjoint
    <3>7. Owner!Grant(Extent(b))
      BY <3>4, <3>5, <3>6 DEF Owner!Grant, OwnedBar, Extent
    <3> QED
      BY <2>a, <3>7 DEF Owner!Next
  <2> QED
    BY <2>1, <2>2, <2>3, <2>4, <2>5, <2>6, <2>7, <2>8, <2>9, <2>10, <2>11
       DEF Call, Continue
<1> QED
  BY <1>1, <1>2

\* The allocator, with its lists, locks and loops, keeps the promise of PageOwner:
\* callers are given well placed blocks that nobody else has.
THEOREM Implements == Spec => Owned
<1>1. IInv /\ [Next]_vars => [Owner!Next]_OwnedBar
  BY OwnedStep
<1>2. OwnedBar = {[page |-> b.page, order |-> b.order] : b \in At(InUse)}
  BY DEF OwnedBar, Extent
<1> QED
  BY <1>1, InitOwned, IInvHolds, PTL DEF Spec, Owned, Owner!Spec, OwnedBar, Extent

------------------------------------------------------------------------------
(****************************************************************************)
(* The counters of the free areas.                                          *)
(****************************************************************************)
FreeFrames == {p \in Frames : \E b \in At(FreeArea) : b.page <= p /\ p < End(b)}
OfOrder(o) == {b \in At(FreeArea) : b.order = o}

\* What freePages is while t is at work on the free areas.
FreeCount(t) ==
    /\ pc[t] \in {"refill", "detach", "drain"} => freePages = Cardinality(FreeFrames)
    /\ pc[t] = "expand" =>
         \A b \in At(Hand(t)) : freePages = Cardinality(FreeFrames) + Size[b.order] - Size[want[t]]
    /\ pc[t] \in {"merge", "join", "place"} =>
         \A b \in At(Hand(t)) : freePages = Cardinality(FreeFrames) + Size[b.order]

FreeCounts ==
    /\ \A o \in Orders : nrFree[o] = Cardinality(OfOrder(o))
    /\ lock = None => freePages = Cardinality(FreeFrames)
    /\ \A t \in Contexts : FreeCount(t)

\* Blocks are finitely many: no two have the same head.
LEMMA FiniteBlocks ==
    ASSUME blocks \subseteq Blocks, NoOverlap, NEW S, S \subseteq blocks
    PROVE  IsFiniteSet(S) /\ Cardinality(S) \in Nat
<1> DEFINE f == [b \in S |-> b.page]
<1>1. IsFiniteSet(Frames)
  BY FS_Interval, ZoneAssumption DEF Frames
<1>2. f \in Injection(S, Frames)
  BY BlockFacts, OneBlockPerHead DEF Injection, IsInjective
<1>3. IsFiniteSet(S)
  <2> HIDE DEF f
  <2> QED
    BY <1>1, <1>2, FS_Injection
<1> QED
  BY <1>3, FS_CardinalityType

LEMMA FiniteFrames ==
    ASSUME NEW S, S \subseteq Frames
    PROVE  IsFiniteSet(S) /\ Cardinality(S) \in Nat
<1>1. IsFiniteSet(Frames)
  BY FS_Interval, ZoneAssumption DEF Frames
<1> QED
  BY <1>1, FS_Subset, FS_CardinalityType

\* The frames of a block, as a set.
LEMMA BlockFrames ==
    ASSUME NEW p \in Frames, NEW n \in Nat, n > 0, p + n <= ZoneEnd
    PROVE  /\ p..(p + n - 1) \subseteq Frames
           /\ IsFiniteSet(p..(p + n - 1)) /\ Cardinality(p..(p + n - 1)) = n
<1>1. p \in Nat /\ p \in Int /\ p + n - 1 \in Int /\ ~(p > p + n - 1) /\ (p + n - 1) - p + 1 = n
  BY ZoneAssumption DEF Frames
<1>2. IsFiniteSet(p..(p + n - 1)) /\ Cardinality(p..(p + n - 1)) = n
  <2> DEFINE q == p + n - 1
  <2>1. p \in Int /\ q \in Int /\ ~(p > q) /\ q - p + 1 = n
    BY <1>1
  <2> HIDE DEF q
  <2>2. IsFiniteSet(p..q) /\ Cardinality(p..q) = IF p > q THEN 0 ELSE q - p + 1
    BY <2>1, FS_Interval
  <2>3. IsFiniteSet(p..q) /\ Cardinality(p..q) = n
    BY <2>1, <2>2
  <2> QED
    BY <2>3 DEF q
<1>3. p..(p + n - 1) \subseteq Frames
  BY <1>1, ZoneAssumption DEF Frames
<1> QED
  BY <1>2, <1>3

\* A block more on the free lists.
LEMMA FreeAdded ==
    ASSUME TypeOK, TypeOK', Geometry, Geometry', NEW b \in blocks' \ blocks, b.place = FreeArea,
           \A c : c.place = FreeArea /\ c # b => (c \in blocks' <=> c \in blocks)
    PROVE  /\ Cardinality(FreeFrames)' = Cardinality(FreeFrames) + Size[b.order]
           /\ \A o \in Orders : Cardinality(OfOrder(o))' =
                Cardinality(OfOrder(o)) + (IF o = b.order THEN 1 ELSE 0)
<1>1. At(FreeArea)' = At(FreeArea) \cup {b} /\ b \notin At(FreeArea)
  BY DEF At
<1>2. b.page \in Frames /\ b.page \in Nat /\ Size[b.order] \in Nat /\ Size[b.order] > 0
      /\ End(b) = b.page + Size[b.order] /\ End(b) \in Nat /\ b.order \in Orders
  <2>1. b \in Blocks
    BY DEF TypeOK
  <2>2. b.page \in Frames /\ b.order \in Orders
    BY <2>1 DEF Blocks
  <2> QED
    BY <2>2, SizeFacts, ZoneAssumption DEF Frames, End
<1>3. End(b) <= ZoneEnd
  BY DEF Geometry, AllPlaced, End
<1> DEFINE S == b.page..(b.page + Size[b.order] - 1)
<1>4. S \subseteq Frames /\ IsFiniteSet(S) /\ Cardinality(S) = Size[b.order]
  BY <1>2, <1>3, BlockFrames
<1>5. FreeFrames' = FreeFrames \cup S
  <2>1. \A p \in Frames : p \in S <=> b.page <= p /\ p < End(b)
    BY <1>2, ZoneAssumption DEF Frames
  <2> QED
    BY <1>1, <1>4, <2>1 DEF FreeFrames, End
<1>6. FreeFrames \cap S = {}
  <2> SUFFICES ASSUME NEW p \in S, NEW c \in At(FreeArea), c.page <= p, p < End(c) PROVE FALSE
    BY DEF FreeFrames
  <2>1. c \in blocks' /\ c # b
    BY <1>1 DEF At
  <2>2. Disjoint(c, b)
    BY <2>1 DEF Geometry, NoOverlap, Disjoint, End
  <2>3. c.page \in Nat /\ End(c) \in Nat /\ p \in Nat
    BY <1>2, BlockFacts DEF At, TypeOK
  <2> QED
    BY <1>2, <2>2, <2>3 DEF Disjoint
<1>7. Cardinality(FreeFrames)' = Cardinality(FreeFrames) + Size[b.order]
  <2>1. IsFiniteSet(FreeFrames) /\ Cardinality(FreeFrames) \in Nat
    BY FiniteFrames DEF FreeFrames
  <2> HIDE DEF S
  <2>2. /\ IsFiniteSet(S)
        /\ Cardinality(FreeFrames \cup S)
             = Cardinality(FreeFrames) + Cardinality(S) - Cardinality(FreeFrames \cap S)
    BY <1>4, <2>1, FS_Union
  <2>3. Cardinality(FreeFrames \cap S) = 0
    BY <1>6, FS_EmptySet
  <2> QED
    BY <1>2, <1>4, <1>5, <2>1, <2>2, <2>3
<1>8. ASSUME NEW o \in Orders
      PROVE  Cardinality(OfOrder(o))' = Cardinality(OfOrder(o)) + (IF o = b.order THEN 1 ELSE 0)
  <2>1. IsFiniteSet(OfOrder(o)) /\ Cardinality(OfOrder(o)) \in Nat
    BY FiniteBlocks DEF OfOrder, At, TypeOK, Geometry
  <2>2. CASE o = b.order
    <3>1. OfOrder(o)' = OfOrder(o) \cup {b} /\ b \notin OfOrder(o)
      BY <1>1, <2>2 DEF OfOrder
    <3> QED
      BY <2>1, <2>2, <3>1, FS_AddElement
  <2>3. CASE o # b.order
    <3>1. OfOrder(o)' = OfOrder(o)
      BY <1>1, <2>3 DEF OfOrder
    <3> QED
      BY <2>1, <2>3, <3>1
  <2> QED
    BY <2>2, <2>3
<1> QED
  BY <1>7, <1>8

\* A block less.
LEMMA FreeRemoved ==
    ASSUME TypeOK, Geometry, NEW b \in blocks, b.place = FreeArea,
           \A c : c.place = FreeArea => (c \in blocks' <=> c \in blocks /\ c # b)
    PROVE  /\ Cardinality(FreeFrames)' = Cardinality(FreeFrames) - Size[b.order]
           /\ \A o \in Orders : Cardinality(OfOrder(o))' =
                Cardinality(OfOrder(o)) - (IF o = b.order THEN 1 ELSE 0)
<1>1. At(FreeArea)' = At(FreeArea) \ {b} /\ b \in At(FreeArea)
  BY DEF At
<1>2. b.page \in Frames /\ b.page \in Nat /\ Size[b.order] \in Nat /\ Size[b.order] > 0
      /\ End(b) = b.page + Size[b.order] /\ End(b) \in Nat /\ b.order \in Orders
  BY BlockFacts DEF TypeOK
<1>3. End(b) <= ZoneEnd
  BY DEF Geometry, AllPlaced
<1> DEFINE S == b.page..(b.page + Size[b.order] - 1)
<1>4. S \subseteq Frames /\ IsFiniteSet(S) /\ Cardinality(S) = Size[b.order]
  BY <1>2, <1>3, BlockFrames
<1>a. \A p \in Frames : p \in S <=> b.page <= p /\ p < End(b)
  BY <1>2, ZoneAssumption DEF Frames
<1>5. S \subseteq FreeFrames
  BY <1>1, <1>4, <1>a DEF FreeFrames
<1>6. FreeFrames' = FreeFrames \ S
  <2>1. ASSUME NEW c \in At(FreeArea), c # b, NEW p \in S PROVE ~ (c.page <= p /\ p < End(c))
    <3>1. Disjoint(c, b)
      BY <2>1 DEF Geometry, NoOverlap, At
    <3>2. c.page \in Nat /\ End(c) \in Nat /\ p \in Nat
      BY <1>2, BlockFacts DEF At, TypeOK
    <3> QED
      BY <1>2, <3>1, <3>2 DEF Disjoint
  <2> HIDE DEF S
  <2>2. ASSUME NEW p \in FreeFrames' PROVE p \in FreeFrames \ S
    BY <1>1, <2>1, <2>2 DEF FreeFrames, End
  <2>3. ASSUME NEW p \in FreeFrames \ S PROVE p \in FreeFrames'
    <3>1. PICK c \in At(FreeArea) : c.page <= p /\ p < End(c)
      BY DEF FreeFrames
    <3>2. c # b
      BY <1>a, <3>1 DEF FreeFrames
    <3> QED
      BY <1>1, <3>1, <3>2 DEF FreeFrames, End
  <2> QED
    BY <2>2, <2>3
<1>7. Cardinality(FreeFrames)' = Cardinality(FreeFrames) - Size[b.order]
  <2>1. IsFiniteSet(FreeFrames) /\ Cardinality(FreeFrames) \in Nat
    BY FiniteFrames DEF FreeFrames
  <2>2. FreeFrames \cap S = S
    BY <1>5
  <2> HIDE DEF S
  <2>3. Cardinality(FreeFrames \ S) = Cardinality(FreeFrames) - Cardinality(S)
    BY <2>1, <2>2, FS_Difference
  <2> QED
    BY <1>4, <1>6, <2>1, <2>3
<1>8. ASSUME NEW o \in Orders
      PROVE  Cardinality(OfOrder(o))' = Cardinality(OfOrder(o)) - (IF o = b.order THEN 1 ELSE 0)
  <2>1. IsFiniteSet(OfOrder(o)) /\ Cardinality(OfOrder(o)) \in Nat
    BY FiniteBlocks DEF OfOrder, At, TypeOK, Geometry
  <2>2. CASE o = b.order
    <3>1. OfOrder(o)' = OfOrder(o) \ {b} /\ b \in OfOrder(o)
      BY <1>1, <2>2 DEF OfOrder
    <3> QED
      BY <2>1, <2>2, <3>1, FS_RemoveElement
  <2>3. CASE o # b.order
    <3>1. OfOrder(o)' = OfOrder(o)
      BY <1>1, <2>3 DEF OfOrder
    <3> QED
      BY <2>1, <2>3, <3>1
  <2> QED
    BY <2>2, <2>3
<1> QED
  BY <1>7, <1>8

LEMMA FreeSame ==
    ASSUME \A c : c.place = FreeArea => (c \in blocks' <=> c \in blocks)
    PROVE  FreeFrames' = FreeFrames /\ \A o : OfOrder(o)' = OfOrder(o)
  BY DEF FreeFrames, OfOrder, At, End

\* A step of t: what it is to show, when it has the lock or leaves the free areas alone.
LEMMA FreeCountsFrom ==
    ASSUME IInv, FreeCounts, NEW t \in Contexts,
           \A u \in Contexts \ {t} : pc'[u] = pc[u] /\ want'[u] = want[u],
           \A u \in Contexts \ {t} : \A c : c.place = Hand(u) => (c \in blocks' <=> c \in blocks),
           \/ lock \in {None, t}
           \/ freePages' = freePages /\ FreeFrames' = FreeFrames,
           \A o \in Orders : nrFree'[o] = Cardinality(OfOrder(o))',
           lock' = None => freePages' = Cardinality(FreeFrames)',
           FreeCount(t)'
    PROVE  FreeCounts'
<1> SUFFICES ASSUME NEW u \in Contexts \ {t} PROVE FreeCount(u)'
  BY DEF FreeCounts
<1>1. pc[u] \in {"refill", "detach", "expand", "drain", "merge", "join", "place"} => lock = u
  BY DEF IInv, Locals, LockDiscipline
<1>2. At(Hand(u))' = At(Hand(u))
  BY DEF At
<1>3. CASE lock \in {None, t}
  BY <1>1, <1>3, NoneAssumption DEF FreeCount
<1>4. CASE freePages' = freePages /\ FreeFrames' = FreeFrames
  BY <1>2, <1>4 DEF FreeCount, FreeCounts
<1> QED
  BY <1>3, <1>4

\* The counters of the free areas, step by step.
LEMMA FreeCountsStep ==
    ASSUME IInv, FreeCounts, [Next]_vars, TypeOK', Geometry'
    PROVE  FreeCounts'
<1> USE DEF IInv, Locals
<1>1. CASE UNCHANGED vars
  BY <1>1 DEF vars, FreeCounts, FreeCount, FreeFrames, OfOrder, At, End
<1>2. CASE Next
  <2> SUFFICES ASSUME NEW t \in Contexts, Call(t) \/ Continue(t) PROVE FreeCounts'
    BY <1>2 DEF Next
  <2>a. /\ pc \in [Contexts -> Labels] /\ want \in [Contexts -> Orders] /\ want[t] \in Orders
        /\ Size[want[t]] \in Nat
        /\ freePages \in Int /\ Cardinality(FreeFrames) \in Nat
    BY SizeFacts, FiniteFrames DEF TypeOK, FreeFrames
  <2>b. \A o \in Orders : nrFree[o] = Cardinality(OfOrder(o)) /\ nrFree[o] \in Int
    BY DEF FreeCounts, TypeOK
  <2>c. FreeCount(t) /\ (lock = None => freePages = Cardinality(FreeFrames))
    BY DEF FreeCounts
  <2>d. \A b \in At(Hand(t)) : /\ b \in blocks /\ At(Hand(t)) = {b} /\ b.place = Hand(t)
                               /\ Size[b.order] \in Nat /\ b.order \in Orders
    <3> SUFFICES ASSUME NEW b \in At(Hand(t))
                 PROVE  /\ b \in blocks /\ At(Hand(t)) = {b} /\ b.place = Hand(t)
                        /\ Size[b.order] \in Nat /\ b.order \in Orders
      OBVIOUS
    <3>1. b \in blocks /\ b.place = Hand(t) /\ At(Hand(t)) = {b}
      BY DEF ReadsHold, Reads, At
    <3> QED
      BY <3>1, BlockFacts DEF TypeOK
  \* Steps that leave the free areas and their counters alone.
  <2>e. ASSUME freePages' = freePages, nrFree' = nrFree,
               \A c : c.place = FreeArea => (c \in blocks' <=> c \in blocks),
               \A u \in Contexts \ {t} : pc'[u] = pc[u] /\ want'[u] = want[u],
               \A u \in Contexts \ {t} : \A c : c.place = Hand(u) => (c \in blocks' <=> c \in blocks),
               lock' = None => lock = None \/ freePages = Cardinality(FreeFrames),
               FreeCount(t)'
        PROVE  FreeCounts'
    <3>1. FreeFrames' = FreeFrames /\ \A o : OfOrder(o)' = OfOrder(o)
      BY <2>e, FreeSame
    <3>2. /\ \A o \in Orders : nrFree'[o] = Cardinality(OfOrder(o))'
          /\ lock' = None => freePages' = Cardinality(FreeFrames)'
      BY <2>b, <2>c, <2>e, <3>1
    <3> QED
      BY <2>e, <3>1, <3>2, FreeCountsFrom
  <2>f. ASSUME NEW label, Goto(t, label), want' = want
        PROVE  /\ pc'[t] = label
               /\ \A u \in Contexts \ {t} : pc'[u] = pc[u] /\ want'[u] = want[u]
    BY <2>a, <2>f DEF Goto
  \* A block moves, neither from a free area nor to one.
  <2>g. ASSUME NEW b \in blocks, NEW pl \in Places, b.place # FreeArea, pl # FreeArea,
               blocks' = (blocks \ {b}) \cup {Moved(b, pl)}
        PROVE  /\ \A c : c.place = FreeArea => (c \in blocks' <=> c \in blocks)
               /\ \A u \in Contexts : b.place # Hand(u) /\ pl # Hand(u) =>
                    \A c : c.place = Hand(u) => (c \in blocks' <=> c \in blocks)
    BY <2>g, MoveElsewhere, PlaceFacts DEF TypeOK
  <2>h. pcp[t] # None => /\ Pcp(pcp[t]) \in Places /\ Pcp(pcp[t]) # FreeArea
                         /\ \A u \in Contexts : Pcp(pcp[t]) # Hand(u)
    BY PlaceFacts DEF TypeOK
  <2>1. ASSUME NEW l \in Lists, AllocPage(t, l) \/ FreePage(t, l) PROVE FreeCounts'
    <3>1. PICK label \in {"refill_lock", "take", "drain_lock", "list_add"} : Goto(t, label)
      BY <2>1 DEF AllocPage, FreePage
    <3> QED
      BY <2>1, <2>e, <2>f, <3>1 DEF AllocPage, FreePage, FreeCount
  <2>2. ASSUME NEW o \in Orders, AllocPages(t, o) PROVE FreeCounts'
    <3>1. pc'[t] = "rmqueue" /\ \A u \in Contexts \ {t} : pc'[u] = pc[u] /\ want'[u] = want[u]
      BY <2>2, <2>a DEF AllocPages, Goto
    <3> QED
      BY <2>2, <2>e, <3>1 DEF AllocPages, FreeCount
  <2>3. ASSUME NEW b \in blocks, GetPage(t, b) PROVE FreeCounts'
    BY <2>3, <2>e DEF GetPage, FreeCount
  <2>4. ASSUME NEW b \in blocks, PutPage(t, b) PROVE FreeCounts'
    <3>1. CASE pageCount[b.page] = 1
      <4>1. PICK label \in {"free_page", "free_lock"} : Goto(t, label)
        BY <2>4, <3>1 DEF PutPage
      <4>2. blocks' = (blocks \ {b}) \cup {Moved(b, Arg(t))} /\ b.place = InUse
        BY <2>4, <3>1 DEF PutPage, At
      <4>3. /\ \A c : c.place = FreeArea => (c \in blocks' <=> c \in blocks)
            /\ \A u \in Contexts : \A c : c.place = Hand(u) => (c \in blocks' <=> c \in blocks)
        BY <2>g, <4>2, PlaceFacts
      <4> QED
        BY <2>4, <2>e, <2>f, <4>1, <4>3 DEF PutPage, FreeCount
    <3>2. CASE pageCount[b.page] # 1
      BY <2>4, <2>e, <3>2 DEF PutPage, FreeCount
    <3> QED
      BY <3>1, <3>2
  <2>5. CASE RefillLock(t) \/ DrainLock(t)
    <3>1. PICK label \in {"refill", "drain"} : Goto(t, label)
      BY <2>5 DEF RefillLock, DrainLock
    <3>2. /\ blocks' = blocks /\ nrFree' = nrFree /\ freePages' = freePages /\ want' = want
          /\ lock = None
      BY <2>5 DEF RefillLock, DrainLock
    <3>3. FreeFrames' = FreeFrames
      BY <3>2, FreeSame
    <3> QED
      BY <2>c, <2>e, <2>f, <3>1, <3>2, <3>3 DEF FreeCount
  <2>6. CASE RefillUnlock(t) \/ DrainUnlock(t)
    <3>1. PICK label \in {"take", "list_add"} : Goto(t, label)
      BY <2>6 DEF RefillUnlock, DrainUnlock
    <3>2. /\ blocks' = blocks /\ nrFree' = nrFree /\ freePages' = freePages /\ want' = want
          /\ pc[t] \in {"refill", "drain"}
      BY <2>6 DEF RefillUnlock, DrainUnlock
    <3> QED
      BY <2>c, <2>e, <2>f, <3>1, <3>2 DEF FreeCount
  <2>7. CASE TakeNone(t) \/ RmqueueFail(t)
    <3>1. PICK label \in {"rmqueue", "idle"} : Goto(t, label)
      BY <2>7 DEF TakeNone, RmqueueFail
    <3>2. pc'[t] = label /\ \A u \in Contexts \ {t} : pc'[u] = pc[u] /\ want'[u] = want[u]
      BY <2>7, <2>a, <3>1 DEF TakeNone, RmqueueFail, Goto
    <3> QED
      BY <2>7, <2>e, <3>1, <3>2 DEF TakeNone, RmqueueFail, FreeCount
  <2>8. ASSUME NEW b \in blocks, FindFree(t, b) PROVE FreeCounts'
    <3>1. /\ blocks' = blocks /\ nrFree' = nrFree /\ freePages' = freePages /\ want' = want
          /\ lock = None \/ pc[t] = "refill"
      BY <2>8 DEF FindFree
    <3>2. FreeFrames' = FreeFrames
      BY <3>1, FreeSame
    <3>3. pc'[t] = "detach"
      BY <2>8, <2>a DEF FindFree, Goto
    <3>4. FreeCount(t)'
      BY <2>c, <3>1, <3>2, <3>3 DEF FreeCount
    <3>5. lock' = t /\ Goto(t, "detach")
      BY <2>8 DEF FindFree
    <3>6. \A u \in Contexts \ {t} : pc'[u] = pc[u] /\ want'[u] = want[u]
      BY <2>f, <3>1, <3>5
    <3>7. lock' # None
      BY <3>5, NoneAssumption
    <3> QED
      BY <2>e, <3>1, <3>4, <3>6, <3>7
  <2>9. CASE Detach(t)
    <3> DEFINE b == found[t]
    <3>1. /\ b \in blocks /\ b.place = FreeArea /\ At(Hand(t)) = {} /\ lock = t
          /\ freePages = Cardinality(FreeFrames)
      BY <2>9, <2>c DEF Detach, ReadsHold, Reads, At, LockDiscipline, FreeCount
    <3>2. /\ blocks' = (blocks \ {b}) \cup {Moved(b, Hand(t))}
          /\ nrFree' = [nrFree EXCEPT ![b.order] = @ - 1]
          /\ freePages' = freePages - Size[want[t]]
          /\ Goto(t, "expand") /\ want' = want /\ lock' = lock
      BY <2>9 DEF Detach
    <3> HIDE DEF b
    <3>3. b \in Blocks /\ b.order \in Orders /\ Size[b.order] \in Nat
      BY <3>1, BlockFacts DEF TypeOK
    <3>4. /\ Moved(b, Hand(t)).place = Hand(t) /\ Moved(b, Hand(t)).order = b.order
      BY <3>3, PlaceFacts, MovedFacts
    <3>5. \A c : c.place = FreeArea => (c \in blocks' <=> c \in blocks /\ c # b)
      BY <3>2, <3>4, PlaceFacts
    <3>6. /\ Cardinality(FreeFrames)' = Cardinality(FreeFrames) - Size[b.order]
          /\ \A o \in Orders : Cardinality(OfOrder(o))' =
                Cardinality(OfOrder(o)) - (IF o = b.order THEN 1 ELSE 0)
      BY <3>1, <3>5, FreeRemoved
    <3>7. \A o \in Orders : nrFree'[o] = Cardinality(OfOrder(o))'
      BY <2>b, <3>2, <3>3, <3>6 DEF TypeOK
    <3>8. At(Hand(t))' = {Moved(b, Hand(t))}
      BY <3>1, <3>2, <3>4, PlaceFacts DEF At
    <3>9. pc'[t] = "expand" /\ want'[t] = want[t]
          /\ \A u \in Contexts \ {t} : pc'[u] = pc[u] /\ want'[u] = want[u]
      BY <2>f, <3>2
    <3>10. FreeCount(t)'
      BY <2>a, <3>1, <3>2, <3>3, <3>4, <3>6, <3>8, <3>9 DEF FreeCount
    <3>11. \A u \in Contexts \ {t} : \A c : c.place = Hand(u) => (c \in blocks' <=> c \in blocks)
      BY <3>1, <3>2, <3>4, PlaceFacts
    <3> QED
      BY <3>1, <3>2, <3>7, <3>9, <3>10, <3>11, FreeCountsFrom, NoneAssumption
  <2>10. ASSUME NEW b \in blocks, Expand(t, b) PROVE FreeCounts'
    <3> DEFINE k == Block(b.page, b.order - 1, Hand(t))
               f == Block(b.page + Size[b.order - 1], b.order - 1, FreeArea)
    <3>1. /\ blocks' = (blocks \ {b}) \cup {k, f} /\ b \in At(Hand(t)) /\ b.order > want[t]
          /\ nrFree' = [nrFree EXCEPT ![b.order - 1] = @ + 1]
          /\ freePages' = freePages /\ pc' = pc /\ want' = want /\ lock' = lock
          /\ pc[t] = "expand" /\ lock = t
      BY <2>10 DEF Expand, LockDiscipline
    <3>2. /\ k.place = Hand(t) /\ k.order = b.order - 1
          /\ f.place = FreeArea /\ f.order = b.order - 1
      BY DEF Block
    <3> HIDE DEF k, f
    <3>3. /\ b.order \in Orders /\ b.order > 0 /\ b.order - 1 \in Orders
          /\ Size[b.order] = 2 * Size[b.order - 1] /\ Size[b.order - 1] \in Nat
      BY <2>a, <2>d, <3>1, SizeFacts
    <3>4. f \in blocks' \ blocks
      <4> SUFFICES ASSUME f \in blocks PROVE FALSE
        BY <3>1
      <4>1. f # b /\ Disjoint(f, b)
        BY <2>d, <3>1, <3>2, PlaceFacts DEF Geometry, NoOverlap
      <4>2. f.page = b.page + Size[b.order - 1]
        BY DEF f, Block
      <4>3. b.page \in Nat /\ End(b) = b.page + Size[b.order] /\ f.page \in Nat
            /\ f.page < End(f) /\ End(f) \in Nat /\ Size[b.order - 1] > 0
        BY <3>3, BlockFacts, SizeFacts DEF TypeOK
      <4> QED
        BY <3>3, <4>1, <4>2, <4>3 DEF Disjoint
    <3>5. \A c : c.place = FreeArea /\ c # f => (c \in blocks' <=> c \in blocks)
      BY <2>d, <3>1, <3>2, PlaceFacts
    <3>6. /\ Cardinality(FreeFrames)' = Cardinality(FreeFrames) + Size[f.order]
          /\ \A o \in Orders : Cardinality(OfOrder(o))' =
                Cardinality(OfOrder(o)) + (IF o = f.order THEN 1 ELSE 0)
      BY <3>2, <3>4, <3>5, FreeAdded
    <3>7. \A o \in Orders : nrFree'[o] = Cardinality(OfOrder(o))'
      BY <2>b, <3>1, <3>2, <3>3, <3>6 DEF TypeOK
    <3>8. At(Hand(t))' = {k}
      BY <2>d, <3>1, <3>2, PlaceFacts DEF At
    <3>9. freePages = Cardinality(FreeFrames) + Size[b.order] - Size[want[t]]
      BY <2>c, <3>1 DEF FreeCount
    <3>10. FreeCount(t)'
      BY <2>a, <3>1, <3>2, <3>3, <3>6, <3>8, <3>9 DEF FreeCount
    <3>11. \A u \in Contexts \ {t} : \A c : c.place = Hand(u) => (c \in blocks' <=> c \in blocks)
      BY <2>d, <3>1, <3>2, PlaceFacts
    <3> QED
      BY <3>1, <3>7, <3>10, <3>11, FreeCountsFrom, NoneAssumption
  <2>11. ASSUME NEW b \in blocks, RefillAdd(t, b) PROVE FreeCounts'
    <3>1. /\ blocks' = (blocks \ {b}) \cup {Moved(b, Pcp(pcp[t]))} /\ b \in At(Hand(t))
          /\ b.order = want[t] /\ freePages' = freePages /\ nrFree' = nrFree /\ want' = want
          /\ pcp[t] # None /\ Goto(t, "refill") /\ lock' = lock /\ pc[t] = "expand"
      BY <2>11 DEF RefillAdd
    <3>2. /\ \A c : c.place = FreeArea => (c \in blocks' <=> c \in blocks)
          /\ \A u \in Contexts \ {t} : \A c : c.place = Hand(u) => (c \in blocks' <=> c \in blocks)
      BY <2>d, <2>g, <2>h, <3>1, PlaceFacts
    <3>3. freePages = Cardinality(FreeFrames)
      BY <2>a, <2>c, <3>1 DEF FreeCount
    <3>4. FreeFrames' = FreeFrames
      BY <3>2, FreeSame
    <3>5. FreeCount(t)'
      BY <2>f, <3>1, <3>3, <3>4 DEF FreeCount
    <3> QED
      BY <2>e, <2>f, <3>1, <3>2, <3>3, <3>5
  <2>12. ASSUME NEW b \in blocks, Take(t, b) PROVE FreeCounts'
    <3>1. /\ blocks' = (blocks \ {b}) \cup {Moved(b, Hand(t))} /\ b.place = Pcp(pcp[t])
          /\ pcp[t] # None /\ Goto(t, "prep")
      BY <2>12 DEF Take, At, LockDiscipline
    <3>2. /\ \A c : c.place = FreeArea => (c \in blocks' <=> c \in blocks)
          /\ \A u \in Contexts \ {t} : \A c : c.place = Hand(u) => (c \in blocks' <=> c \in blocks)
      BY <2>g, <2>h, <3>1, PlaceFacts
    <3> QED
      BY <2>12, <2>e, <2>f, <3>1, <3>2 DEF Take, FreeCount
  <2>13. ASSUME NEW b \in blocks, RmqueueUnlock(t, b) PROVE FreeCounts'
    <3>1. /\ blocks' = blocks /\ b \in At(Hand(t)) /\ pc[t] = "expand" /\ b.order = want[t]
          /\ freePages' = freePages /\ nrFree' = nrFree /\ want' = want /\ Goto(t, "prep")
      BY <2>13 DEF RmqueueUnlock
    <3>2. freePages = Cardinality(FreeFrames)
      BY <2>a, <2>c, <3>1 DEF FreeCount
    <3> QED
      BY <2>e, <2>f, <3>1, <3>2 DEF FreeCount
  <2>14. ASSUME NEW b \in blocks, PrepNewPage(t, b) PROVE FreeCounts'
    <3>1. /\ blocks' = (blocks \ {b}) \cup {Moved(b, InUse)} /\ b.place = Hand(t)
          /\ Goto(t, "idle") /\ want' = [want EXCEPT ![t] = 0]
      BY <2>14 DEF PrepNewPage, At
    <3>2. /\ \A c : c.place = FreeArea => (c \in blocks' <=> c \in blocks)
          /\ \A u \in Contexts \ {t} : \A c : c.place = Hand(u) => (c \in blocks' <=> c \in blocks)
      BY <2>g, <3>1, PlaceFacts
    <3>3. pc'[t] = "idle" /\ \A u \in Contexts \ {t} : pc'[u] = pc[u] /\ want'[u] = want[u]
      BY <2>a, <3>1 DEF Goto
    <3> QED
      BY <2>14, <2>e, <3>2, <3>3 DEF PrepNewPage, FreeCount
  <2>15. ASSUME NEW b \in blocks, ListAdd(t, b) PROVE FreeCounts'
    <3>1. /\ blocks' = (blocks \ {b}) \cup {Moved(b, Pcp(pcp[t]))} /\ b.place = Arg(t)
          /\ pcp[t] # None /\ Goto(t, "idle")
      BY <2>15 DEF ListAdd, At, LockDiscipline
    <3>2. /\ \A c : c.place = FreeArea => (c \in blocks' <=> c \in blocks)
          /\ \A u \in Contexts \ {t} : \A c : c.place = Hand(u) => (c \in blocks' <=> c \in blocks)
      BY <2>g, <2>h, <3>1, PlaceFacts
    <3> QED
      BY <2>15, <2>e, <2>f, <3>1, <3>2 DEF ListAdd, FreeCount
  \* Drain and FreeLock raise freePages by the block they take in hand.
  <2>16. ASSUME NEW b \in blocks, Drain(t, b) \/ FreeLock(t, b) PROVE FreeCounts'
    <3>1. /\ blocks' = (blocks \ {b}) \cup {Moved(b, Hand(t))}
          /\ freePages' = freePages + Size[b.order]
          /\ nrFree' = nrFree /\ want' = want /\ Goto(t, "merge") /\ lock' = t
          /\ At(Hand(t)) = {} /\ freePages = Cardinality(FreeFrames) /\ lock \in {None, t}
      BY <2>16, <2>c DEF Drain, FreeLock, LockDiscipline, ReadsHold, Reads, FreeCount
    <3>2. b.place # FreeArea /\ \A u \in Contexts : b.place # Hand(u)
      BY <2>16, <2>h, PlaceFacts DEF Drain, FreeLock, At, LockDiscipline
    <3>3. Moved(b, Hand(t)).order = b.order /\ Moved(b, Hand(t)).place = Hand(t)
      BY BlockFacts, MovedFacts, PlaceFacts DEF TypeOK
    <3>4. At(Hand(t))' = {Moved(b, Hand(t))}
      BY <3>1, <3>2, <3>3 DEF At
    <3>5. /\ \A c : c.place = FreeArea => (c \in blocks' <=> c \in blocks)
          /\ \A u \in Contexts \ {t} : \A c : c.place = Hand(u) => (c \in blocks' <=> c \in blocks)
      BY <2>g, <3>1, <3>2, PlaceFacts
    <3>6. FreeFrames' = FreeFrames /\ \A o : OfOrder(o)' = OfOrder(o)
      BY <3>5, FreeSame
    <3>7. FreeCount(t)'
      BY <2>a, <2>f, <3>1, <3>3, <3>4, <3>6 DEF FreeCount
    <3> QED
      BY <2>b, <2>f, <3>1, <3>5, <3>6, <3>7, FreeCountsFrom, NoneAssumption
  <2>17. ASSUME NEW b \in blocks, TestBuddy(t, b) PROVE FreeCounts'
    <3>1. PICK label \in {"join", "place"} : Goto(t, label)
      BY <2>17 DEF TestBuddy
    <3>2. /\ blocks' = blocks /\ nrFree' = nrFree /\ freePages' = freePages /\ want' = want
          /\ lock' = lock /\ pc[t] = "merge"
      BY <2>17 DEF TestBuddy
    <3>3. FreeFrames' = FreeFrames /\ At(Hand(t))' = At(Hand(t))
      BY <3>2, FreeSame DEF At
    <3>4. FreeCount(t)'
      BY <2>c, <2>f, <3>1, <3>2, <3>3 DEF FreeCount
    <3> QED
      BY <2>e, <2>f, <3>1, <3>2, <3>4
  <2>18. ASSUME NEW b \in blocks, Join(t, b) PROVE FreeCounts'
    <3> DEFINE g == Block(BuddyOf(b.page, b.order), b.order, FreeArea)
               j == Block(Combined(b.page, b.order), b.order + 1, Hand(t))
    <3>1. /\ blocks' = (blocks \ {b, g}) \cup {j} /\ b \in At(Hand(t)) /\ g \in blocks
          /\ b.order < MaxOrder - 1 /\ nrFree' = [nrFree EXCEPT ![b.order] = @ - 1]
          /\ freePages' = freePages /\ Goto(t, "merge") /\ want' = want /\ lock' = lock
          /\ pc[t] = "join" /\ lock = t
      BY <2>18 DEF Join, LockDiscipline, ReadsHold, Reads, Joinable
    <3>2. /\ g.place = FreeArea /\ g.order = b.order
          /\ j.place = Hand(t) /\ j.order = b.order + 1
      BY DEF Block
    <3> HIDE DEF g, j
    <3>3. Size[b.order + 1] = 2 * Size[b.order]
      BY <2>d, <3>1, SizeFacts
    <3>4. \A c : c.place = FreeArea => (c \in blocks' <=> c \in blocks /\ c # g)
      BY <2>d, <3>1, <3>2, PlaceFacts
    <3>5. /\ Cardinality(FreeFrames)' = Cardinality(FreeFrames) - Size[g.order]
          /\ \A o \in Orders : Cardinality(OfOrder(o))' =
                Cardinality(OfOrder(o)) - (IF o = g.order THEN 1 ELSE 0)
      BY <3>1, <3>2, <3>4, FreeRemoved
    <3>6. \A o \in Orders : nrFree'[o] = Cardinality(OfOrder(o))'
      BY <2>b, <2>d, <3>1, <3>2, <3>5 DEF TypeOK
    <3>7. At(Hand(t))' = {j}
      BY <2>d, <3>1, <3>2, PlaceFacts DEF At
    <3>8. freePages = Cardinality(FreeFrames) + Size[b.order]
      BY <2>c, <3>1 DEF FreeCount
    <3>9. FreeCount(t)'
      BY <2>a, <2>d, <2>f, <3>1, <3>2, <3>3, <3>5, <3>7, <3>8 DEF FreeCount
    <3>10. \A u \in Contexts \ {t} : \A c : c.place = Hand(u) => (c \in blocks' <=> c \in blocks)
      BY <2>d, <3>1, <3>2, PlaceFacts
    <3> QED
      BY <2>f, <3>1, <3>6, <3>9, <3>10, FreeCountsFrom, NoneAssumption
  <2>19. ASSUME NEW b \in blocks, Place(t, b) PROVE FreeCounts'
    <3> DEFINE m == Moved(b, FreeArea)
    <3>1. /\ blocks' = (blocks \ {b}) \cup {m} /\ b \in At(Hand(t)) /\ pc[t] = "place"
          /\ nrFree' = [nrFree EXCEPT ![b.order] = @ + 1]
          /\ freePages' = freePages /\ want' = want /\ lock = t
      BY <2>19 DEF Place, LockDiscipline
    <3>2. m.place = FreeArea /\ m.order = b.order /\ m.page = b.page
      BY <2>d, <3>1, BlockFacts, MovedFacts, PlaceFacts DEF TypeOK
    <3>3. PICK label \in {"drain", "idle"} : Goto(t, label)
      BY <2>19 DEF Place
    <3> HIDE DEF m
    <3>4. m \in blocks' \ blocks
      <4>1. m # b /\ (m \in blocks => m = b)
        BY <2>d, <3>1, <3>2, PlaceFacts, OneBlockPerHead DEF TypeOK, Geometry
      <4> QED
        BY <3>1, <4>1
    <3>5. \A c : c.place = FreeArea /\ c # m => (c \in blocks' <=> c \in blocks)
      BY <2>d, <3>1, <3>2, PlaceFacts
    <3>6. /\ Cardinality(FreeFrames)' = Cardinality(FreeFrames) + Size[m.order]
          /\ \A o \in Orders : Cardinality(OfOrder(o))' =
                Cardinality(OfOrder(o)) + (IF o = m.order THEN 1 ELSE 0)
      BY <3>2, <3>4, <3>5, FreeAdded
    <3>7. \A o \in Orders : nrFree'[o] = Cardinality(OfOrder(o))'
      BY <2>b, <2>d, <3>1, <3>2, <3>6 DEF TypeOK
    <3>8. freePages' = Cardinality(FreeFrames)'
      BY <2>a, <2>c, <2>d, <3>1, <3>2, <3>6 DEF FreeCount
    <3>9. FreeCount(t)'
      BY <2>f, <3>1, <3>3, <3>8 DEF FreeCount
    <3>10. \A u \in Contexts \ {t} : \A c : c.place = Hand(u) => (c \in blocks' <=> c \in blocks)
      BY <2>d, <3>1, <3>2, PlaceFacts
    <3>11. \A u \in Contexts \ {t} : pc'[u] = pc[u] /\ want'[u] = want[u]
      BY <2>f, <3>1, <3>3
    <3> QED
      BY <3>1, <3>7, <3>8, <3>9, <3>10, <3>11, FreeCountsFrom
  <2> QED
    BY <2>1, <2>2, <2>3, <2>4, <2>5, <2>6, <2>7, <2>8, <2>9, <2>10, <2>11, <2>12,
       <2>13, <2>14, <2>15, <2>16, <2>17, <2>18, <2>19 DEF Call, Continue
<1> QED
  BY <1>1, <1>2

LEMMA InitFreeCounts == Init => FreeCounts
<1> SUFFICES ASSUME Init PROVE FreeCounts
  OBVIOUS
<1>1. At(FreeArea) = {}
  <2>1. \A p, o : Block(p, o, InUse).place = InUse
    BY DEF Block
  <2> QED
    BY <2>1, PlaceFacts DEF Init, At
<1>2. FreeFrames = {} /\ \A o : OfOrder(o) = {}
  BY <1>1 DEF FreeFrames, OfOrder
<1> QED
  BY <1>2, FS_EmptySet DEF Init, FreeCounts, FreeCount

------------------------------------------------------------------------------
(****************************************************************************)
(* The counts of the per-CPU lists.                                         *)
(****************************************************************************)
\* Pages on the list t is at work on that its count does not tell of.
Uncounted(t) ==
    IF pc[t] \in {"refill", "detach", "expand"} THEN ret[t]
    ELSE IF pc[t] = "drain" THEN - ret[t]
    ELSE IF pc[t] \in {"merge", "join", "place"} THEN - ret[t] - 1
    ELSE 0

NoneMoved(t) == pc[t] \in {"refill_lock", "take", "drain_lock", "list_add"} \/ pcp[t] = None

\* Interrupts are off on the CPU of a list in use: nobody else works on one of its lists.
OneAtACpu ==
    \A t, u \in Contexts : pcp[t] # None /\ pcp[u] # None /\ pcp[t][1] = pcp[u][1] => t = u

ListCounts ==
    /\ OneAtACpu
    /\ \A t \in Contexts : NoneMoved(t) => ret[t] = 0
    /\ \A t \in Contexts : pcp[t] # None =>
         Cardinality(At(Pcp(pcp[t]))) = pcpCount[pcp[t]] + Uncounted(t)
    /\ PcpAccounting

\* A step of t on its list l, which nobody else has.
LEMMA OwnList ==
    ASSUME TypeOK, ListCounts, NEW t \in Contexts, NEW l \in Lists,
           pcp[t] \in {None, l}, pcp'[t] \in {None, l},
           \A u \in Contexts \ {t} : /\ pc'[u] = pc[u] /\ pcp'[u] = pcp[u] /\ ret'[u] = ret[u]
                                     /\ pcp[u] # None => pcp[u][1] # l[1],
           \A k \in Lists \ {l} : pcpCount'[k] = pcpCount[k] /\ At(Pcp(k))' = At(Pcp(k)),
           NoneMoved(t)' => ret'[t] = 0,
           pcp'[t] = None => pcpCount'[l] = Cardinality(At(Pcp(l)))',
           pcp'[t] = l => Cardinality(At(Pcp(l)))' = pcpCount'[l] + Uncounted(t)'
    PROVE  ListCounts'
<1>1. l # None
  BY NoneAssumption
<1>2. OneAtACpu'
  BY <1>1 DEF ListCounts, OneAtACpu
<1>3. \A u \in Contexts : NoneMoved(u)' => ret'[u] = 0
  BY DEF ListCounts, NoneMoved
<1>4. ASSUME NEW u \in Contexts, pcp'[u] # None
      PROVE  Cardinality(At(Pcp(pcp[u])))' = pcpCount'[pcp'[u]] + Uncounted(u)'
  <2>1. CASE u = t
    BY <1>4, <2>1
  <2>2. CASE u # t
    <3>1. pcp'[u] = pcp[u] /\ pcp[u] \in Lists \ {l} /\ Uncounted(u)' = Uncounted(u)
      BY <1>4, <2>2 DEF TypeOK, Uncounted
    <3>2. Cardinality(At(Pcp(pcp[u]))) = pcpCount[pcp[u]] + Uncounted(u)
      BY <1>4, <3>1 DEF ListCounts
    <3>3. At(Pcp(pcp[u]))' = At(Pcp(pcp[u]))
      BY <3>1 DEF At, Pcp
    <3> QED
      BY <3>1, <3>2, <3>3
  <2> QED
    BY <2>1, <2>2
<1>5. ASSUME NEW k \in Lists, \A u \in Contexts : pcp'[u] # k
      PROVE  pcpCount'[k] = Cardinality(At(Pcp(k)))'
  <2>1. CASE k = l
    BY <1>5, <2>1
  <2>2. CASE k # l
    <3>1. \A u \in Contexts : pcp[u] # k
      BY <1>1, <1>5, <2>2, NoneAssumption
    <3> QED
      BY <2>2, <3>1 DEF ListCounts, PcpAccounting
  <2> QED
    BY <2>1, <2>2
<1> QED
  BY <1>2, <1>3, <1>4, <1>5 DEF ListCounts, PcpAccounting

\* A step that leaves the lists alone.
LEMMA ListsAlone ==
    ASSUME TypeOK, ListCounts, NEW t \in Contexts,
           pcp' = pcp, pcpCount' = pcpCount, ret' = ret,
           \A u \in Contexts \ {t} : pc'[u] = pc[u],
           \A k \in Lists : At(Pcp(k))' = At(Pcp(k)),
           pcp[t] # None => Uncounted(t)' = Uncounted(t) /\ (NoneMoved(t)' => NoneMoved(t))
    PROVE  ListCounts'
<1>1. \A u \in Contexts : NoneMoved(u)' => ret'[u] = 0
  BY DEF ListCounts, NoneMoved
<1>2. ASSUME NEW u \in Contexts, pcp'[u] # None
      PROVE  Cardinality(At(Pcp(pcp[u])))' = pcpCount'[pcp'[u]] + Uncounted(u)'
  <2>1. PICK l : l = pcp[u]
    OBVIOUS
  <2>2. l \in Lists /\ l = pcp'[u] /\ Uncounted(u)' = Uncounted(u)
    BY <1>2, <2>1 DEF TypeOK, Uncounted
  <2>3. At(Pcp(l))' = At(Pcp(l))
    BY <2>2
  <2>4. Cardinality(At(Pcp(l))) = pcpCount[l] + Uncounted(u)
    BY <1>2, <2>1 DEF ListCounts
  <2>5. Cardinality(At(Pcp(l)))' = pcpCount'[l] + Uncounted(u)'
    BY <2>2, <2>3, <2>4
  <2> QED
    BY <2>2, <2>5
<1> QED
  BY <1>1, <1>2 DEF ListCounts, OneAtACpu, PcpAccounting

\* A move neither from a per-CPU list nor to one.
LEMMA MoveOffLists ==
    ASSUME blocks \subseteq Blocks, NEW b \in blocks, NEW pl \in Places,
           \A k \in Lists : b.place # Pcp(k) /\ pl # Pcp(k),
           blocks' = (blocks \ {b}) \cup {Moved(b, pl)}
    PROVE  \A k \in Lists : At(Pcp(k))' = At(Pcp(k))
  BY MovedFacts DEF At

\* A move from list l, or to it.
LEMMA MoveOnList ==
    ASSUME TypeOK, Geometry, NEW b \in blocks, NEW pl \in Places, NEW l \in Lists,
           blocks' = (blocks \ {b}) \cup {Moved(b, pl)}
    PROVE  /\ Cardinality(At(Pcp(l))) \in Nat
           /\ b.place = Pcp(l) /\ pl # Pcp(l) =>
                Cardinality(At(Pcp(l)))' = Cardinality(At(Pcp(l))) - 1
           /\ b.place # Pcp(l) /\ pl = Pcp(l) =>
                Cardinality(At(Pcp(l)))' = Cardinality(At(Pcp(l))) + 1
           /\ \A k \in Lists \ {l} : b.place # Pcp(k) /\ pl # Pcp(k) =>
                At(Pcp(k))' = At(Pcp(k))
<1> DEFINE A == At(Pcp(l))
           m == Moved(b, pl)
<1>1. b \in Blocks /\ m.place = pl /\ m.page = b.page /\ m.order = b.order
  BY BlockFacts, MovedFacts DEF TypeOK
<1>2. IsFiniteSet(A) /\ Cardinality(A) \in Nat
  BY FiniteBlocks DEF At, TypeOK, Geometry
<1>3. A' = (A \ {b}) \cup (IF pl = Pcp(l) THEN {m} ELSE {})
  BY AfterMove DEF TypeOK
<1>4. m \in blocks => m = b
  BY <1>1, OneBlockPerHead DEF TypeOK, Geometry
<1>5. ASSUME b.place = Pcp(l), pl # Pcp(l) PROVE Cardinality(A)' = Cardinality(A) - 1
  <2>1. A' = A \ {b} /\ b \in A
    BY <1>3, <1>5 DEF At
  <2> HIDE DEF A
  <2> QED
    BY <1>2, <2>1, FS_RemoveElement
<1>6. ASSUME b.place # Pcp(l), pl = Pcp(l) PROVE Cardinality(A)' = Cardinality(A) + 1
  <2>1. A' = A \cup {m} /\ m \notin A
    BY <1>1, <1>3, <1>4, <1>6 DEF At
  <2> HIDE DEF A, m
  <2> QED
    BY <1>2, <2>1, FS_AddElement
<1>7. \A k \in Lists \ {l} : b.place # Pcp(k) /\ pl # Pcp(k) => At(Pcp(k))' = At(Pcp(k))
  <2> SUFFICES ASSUME NEW k \in Lists \ {l}, b.place # Pcp(k), pl # Pcp(k)
               PROVE  At(Pcp(k))' = At(Pcp(k))
    OBVIOUS
  <2> QED
    BY <1>1 DEF At
<1> QED
  BY <1>2, <1>5, <1>6, <1>7

\* The counts of the per-CPU lists, step by step.
LEMMA ListCountsStep ==
    ASSUME IInv, ListCounts, [Next]_vars
    PROVE  ListCounts'
<1> USE DEF IInv, Locals
<1>1. CASE UNCHANGED vars
  BY <1>1 DEF vars, ListCounts, OneAtACpu, NoneMoved, Uncounted, PcpAccounting, At
<1>2. CASE Next
  <2> SUFFICES ASSUME NEW t \in Contexts, Call(t) \/ Continue(t) PROVE ListCounts'
    BY <1>2 DEF Next
  <2>a. /\ pc \in [Contexts -> Labels] /\ pcp \in [Contexts -> Lists \cup {None}]
        /\ ret \in [Contexts -> Nat] /\ pcpCount \in [Lists -> Int]
        /\ pc[t] \in Labels /\ ret[t] \in Nat
    BY DEF TypeOK
  <2>b. \A u \in Contexts \ {t} : pcp[u] # None /\ pcp[t] # None => pcp[u][1] # pcp[t][1]
    BY DEF ListCounts, OneAtACpu
  <2>c. pcp[t] # None => /\ pcp[t] \in Lists /\ Pcp(pcp[t]) \in Places
                         /\ Cardinality(At(Pcp(pcp[t]))) = pcpCount[pcp[t]] + Uncounted(t)
    BY PlaceFacts DEF TypeOK, ListCounts
  <2>d. /\ NoneMoved(t) => ret[t] = 0
        /\ \A l \in Lists : (\A u \in Contexts : pcp[u] # l) => pcpCount[l] = Cardinality(At(Pcp(l)))
    BY DEF ListCounts, PcpAccounting
  <2>e. \A k, l \in Lists : Pcp(k) = Pcp(l) => k = l
    BY DEF Pcp
  <2>f. \A b \in At(Hand(t)) : b \in blocks /\ b.place = Hand(t)
    BY DEF At
  \* Steps that leave the blocks alone, and the list.
  <2>g. ASSUME blocks' = blocks, pcp' = pcp, pcpCount' = pcpCount, ret' = ret,
               NEW label, Goto(t, label),
               pcp[t] # None => Uncounted(t)' = Uncounted(t) /\ (NoneMoved(t)' => NoneMoved(t))
        PROVE  ListCounts'
    <3>1. \A u \in Contexts \ {t} : pc'[u] = pc[u]
      BY <2>a, <2>g DEF Goto
    <3>2. \A k \in Lists : At(Pcp(k))' = At(Pcp(k))
      BY <2>g DEF At
    <3> QED
      BY <2>g, <3>1, <3>2, ListsAlone
  \* A block moves between other places.
  <2>h. ASSUME NEW b \in blocks, NEW pl \in Places,
               \A k \in Lists : b.place # Pcp(k) /\ pl # Pcp(k),
               blocks' = (blocks \ {b}) \cup {Moved(b, pl)},
               pcp' = pcp, pcpCount' = pcpCount, ret' = ret,
               NEW label, Goto(t, label),
               pcp[t] # None => Uncounted(t)' = Uncounted(t) /\ (NoneMoved(t)' => NoneMoved(t))
        PROVE  ListCounts'
    <3>1. \A u \in Contexts \ {t} : pc'[u] = pc[u]
      BY <2>a, <2>h DEF Goto
    <3>2. \A k \in Lists : At(Pcp(k))' = At(Pcp(k))
      BY <2>h, MoveOffLists DEF TypeOK
    <3> QED
      BY <2>h, <3>1, <3>2, ListsAlone
  <2>1. ASSUME NEW l \in Lists, AllocPage(t, l) \/ FreePage(t, l) PROVE ListCounts'
    <3>1. PICK label \in {"refill_lock", "take", "drain_lock", "list_add"} : Goto(t, label)
      BY <2>1 DEF AllocPage, FreePage
    <3>2. /\ CpuFree(l) /\ pcp' = [pcp EXCEPT ![t] = l] /\ pcp[t] = None
          /\ blocks' = blocks /\ pcpCount' = pcpCount /\ ret' = ret
      BY <2>1 DEF AllocPage, FreePage, LockDiscipline
    <3>3. \A u \in Contexts : pcp[u] # l
      BY <3>2, NoneAssumption DEF CpuFree
    <3>4. /\ pc'[t] = label /\ pcp'[t] = l
          /\ \A u \in Contexts \ {t} : pc'[u] = pc[u] /\ pcp'[u] = pcp[u] /\ ret'[u] = ret[u]
      BY <2>a, <3>1, <3>2 DEF Goto
    <3>5. \A k \in Lists : At(Pcp(k))' = At(Pcp(k))
      BY <3>2 DEF At
    <3>6. ret[t] = 0 /\ pcpCount[l] = Cardinality(At(Pcp(l))) /\ Uncounted(t)' = 0
      BY <2>d, <3>1, <3>2, <3>3, <3>4 DEF NoneMoved, Uncounted
    <3>7. Cardinality(At(Pcp(l)))' = pcpCount'[l] + Uncounted(t)'
      BY <2>a, <3>2, <3>5, <3>6
    <3> QED
      BY <3>2, <3>4, <3>5, <3>6, <3>7, OwnList, NoneAssumption DEF CpuFree
  <2>2. ASSUME NEW o \in Orders, AllocPages(t, o) PROVE ListCounts'
    BY <2>2, <2>g DEF AllocPages, LockDiscipline
  <2>3. ASSUME NEW b \in blocks, GetPage(t, b) PROVE ListCounts'
    BY <2>3, ListsAlone DEF GetPage, At, LockDiscipline
  <2>4. ASSUME NEW b \in blocks, PutPage(t, b) PROVE ListCounts'
    <3>1. pcp[t] = None /\ pcp' = pcp /\ pcpCount' = pcpCount /\ ret' = ret
      BY <2>4 DEF PutPage, LockDiscipline
    <3>2. CASE pageCount[b.page] = 1
      <4>1. PICK label \in {"free_page", "free_lock"} : Goto(t, label)
        BY <2>4, <3>2 DEF PutPage
      <4>2. blocks' = (blocks \ {b}) \cup {Moved(b, Arg(t))} /\ b.place = InUse
        BY <2>4, <3>2 DEF PutPage, At
      <4>3. \A k \in Lists : b.place # Pcp(k) /\ Arg(t) # Pcp(k)
        BY <4>2, PlaceFacts DEF Arg, Pcp
      <4> QED
        BY <2>h, <3>1, <4>1, <4>2, <4>3, PlaceFacts
    <3>3. CASE pageCount[b.page] # 1
      BY <2>4, <3>1, <3>3, ListsAlone DEF PutPage, At
    <3> QED
      BY <3>2, <3>3
  <2>5. CASE RefillLock(t) \/ DrainLock(t)
    <3>1. PICK label \in {"refill", "drain"} : Goto(t, label)
      BY <2>5 DEF RefillLock, DrainLock
    <3>2. /\ blocks' = blocks /\ pcp' = pcp /\ pcpCount' = pcpCount /\ ret' = ret
          /\ pc[t] \in {"refill_lock", "drain_lock"} /\ pc'[t] = label
      BY <2>5, <2>a, <3>1 DEF RefillLock, DrainLock, Goto
    <3>3. Uncounted(t)' = Uncounted(t) /\ NoneMoved(t)
      BY <2>d, <3>1, <3>2 DEF NoneMoved, Uncounted
    <3> QED
      BY <2>g, <3>1, <3>2, <3>3
  <2>6. CASE RefillUnlock(t) \/ DrainUnlock(t)
    <3>0. PICK l : l = pcp[t]
      OBVIOUS
    <3>1. PICK label \in {"take", "list_add"} : Goto(t, label)
      BY <3>0, <2>6 DEF RefillUnlock, DrainUnlock
    <3>2. /\ blocks' = blocks /\ pcp' = pcp /\ ret' = [ret EXCEPT ![t] = 0]
          /\ l # None
          /\ \/ pc[t] = "refill" /\ pcpCount' = [pcpCount EXCEPT ![l] = @ + ret[t]]
             \/ pc[t] = "drain" /\ pcpCount' = [pcpCount EXCEPT ![l] = @ - ret[t]]
      BY <3>0, <2>6 DEF RefillUnlock, DrainUnlock, LockDiscipline
    <3>3. l \in Lists /\ Cardinality(At(Pcp(l))) = pcpCount[l] + Uncounted(t)
      BY <3>0, <2>c, <3>2
    <3>4. pcpCount'[l] = pcpCount[l] + Uncounted(t) /\ \A k \in Lists \ {l} : pcpCount'[k] = pcpCount[k]
      BY <2>a, <3>2, <3>3 DEF Uncounted
    <3>5. /\ pc'[t] = label /\ pcp'[t] = l /\ ret'[t] = 0 /\ Uncounted(t)' = 0
          /\ \A u \in Contexts \ {t} : pc'[u] = pc[u] /\ pcp'[u] = pcp[u] /\ ret'[u] = ret[u]
      BY <3>0, <2>a, <3>1, <3>2 DEF Goto, Uncounted
    <3>6. \A k \in Lists : At(Pcp(k))' = At(Pcp(k))
      BY <3>2 DEF At
    <3>7. Cardinality(At(Pcp(l)))' = pcpCount'[l] + Uncounted(t)'
      BY <2>a, <3>3, <3>4, <3>5, <3>6 DEF Uncounted
    <3> QED
      BY <3>0, <2>b, <3>2, <3>3, <3>4, <3>5, <3>6, <3>7, OwnList, NoneAssumption
  <2>7. CASE TakeNone(t)
    <3>0. PICK l : l = pcp[t]
      OBVIOUS
    <3>1. /\ blocks' = blocks /\ pcp' = [pcp EXCEPT ![t] = None] /\ pcpCount' = pcpCount
          /\ ret' = ret /\ pc[t] = "take" /\ l # None /\ Goto(t, "rmqueue")
      BY <3>0, <2>7 DEF TakeNone, LockDiscipline
    <3>2. l \in Lists /\ Cardinality(At(Pcp(l))) = pcpCount[l] + 0
      BY <3>0, <2>c, <3>1 DEF Uncounted
    <3>3. /\ pcp'[t] = None /\ ret'[t] = 0
          /\ \A u \in Contexts \ {t} : pc'[u] = pc[u] /\ pcp'[u] = pcp[u] /\ ret'[u] = ret[u]
      BY <2>a, <2>d, <3>1 DEF Goto, NoneMoved
    <3>4. \A k \in Lists : At(Pcp(k))' = At(Pcp(k))
      BY <3>1 DEF At
    <3>5. pcpCount'[l] = Cardinality(At(Pcp(l)))'
      BY <2>a, <3>1, <3>2, <3>4
    <3> QED
      BY <3>0, <2>b, <3>1, <3>2, <3>3, <3>4, <3>5, OwnList, NoneAssumption
  <2>8. CASE RmqueueFail(t)
    BY <2>8, <2>g DEF RmqueueFail, LockDiscipline
  <2>9. ASSUME NEW b \in blocks, FindFree(t, b) PROVE ListCounts'
    <3>1. /\ blocks' = blocks /\ pcp' = pcp /\ pcpCount' = pcpCount /\ ret' = ret
          /\ pc[t] = "refill" \/ pcp[t] = None
          /\ Goto(t, "detach") /\ pc'[t] = "detach"
      BY <2>9, <2>a DEF FindFree, LockDiscipline, Goto
    <3>2. pcp[t] # None => Uncounted(t)' = Uncounted(t) /\ ~NoneMoved(t)'
      BY <3>1 DEF Uncounted, NoneMoved
    <3> QED
      BY <2>g, <3>1, <3>2
  <2>10. CASE Detach(t)
    <3> DEFINE b == found[t]
    <3>1. /\ b \in blocks /\ b.place = FreeArea
          /\ blocks' = (blocks \ {b}) \cup {Moved(b, Hand(t))}
          /\ pcp' = pcp /\ pcpCount' = pcpCount /\ ret' = ret
          /\ Goto(t, "expand") /\ pc[t] = "detach" /\ pc'[t] = "expand"
      BY <2>10, <2>a DEF Detach, ReadsHold, Reads, At, Goto
    <3> HIDE DEF b
    <3>2. pcp[t] # None => Uncounted(t)' = Uncounted(t) /\ ~NoneMoved(t)'
      BY <3>1 DEF Uncounted, NoneMoved
    <3> QED
      BY <2>h, <3>1, <3>2, PlaceFacts
  <2>11. ASSUME NEW b \in blocks, Expand(t, b) PROVE ListCounts'
    <3> DEFINE k == Block(b.page, b.order - 1, Hand(t))
               f == Block(b.page + Size[b.order - 1], b.order - 1, FreeArea)
    <3>1. /\ blocks' = (blocks \ {b}) \cup {k, f} /\ b.place = Hand(t) /\ pc' = pc
          /\ pcp' = pcp /\ pcpCount' = pcpCount /\ ret' = ret
      BY <2>11, <2>f DEF Expand
    <3>2. k.place = Hand(t) /\ f.place = FreeArea
      BY DEF Block
    <3> HIDE DEF k, f
    <3>3. \A l \in Lists : At(Pcp(l))' = At(Pcp(l))
      BY <3>1, <3>2, PlaceFacts DEF At
    <3> QED
      BY <3>1, <3>3, ListsAlone DEF Uncounted, NoneMoved
  <2>12. ASSUME NEW b \in blocks, RefillAdd(t, b) PROVE ListCounts'
    <3>0. PICK l : l = pcp[t]
      OBVIOUS
    <3>1. /\ blocks' = (blocks \ {b}) \cup {Moved(b, Pcp(l))} /\ b.place = Hand(t)
          /\ pcp' = pcp /\ pcpCount' = pcpCount /\ ret' = [ret EXCEPT ![t] = @ + 1]
          /\ l # None /\ pc[t] = "expand" /\ Goto(t, "refill")
      BY <3>0, <2>12, <2>f DEF RefillAdd
    <3>2. l \in Lists /\ Pcp(l) \in Places /\ Cardinality(At(Pcp(l))) = pcpCount[l] + ret[t]
      BY <3>0, <2>c, <3>1 DEF Uncounted
    <3>3. /\ pc'[t] = "refill" /\ pcp'[t] = l /\ ret'[t] = ret[t] + 1
          /\ \A u \in Contexts \ {t} : pc'[u] = pc[u] /\ pcp'[u] = pcp[u] /\ ret'[u] = ret[u]
      BY <3>0, <2>a, <3>1 DEF Goto
    <3>4. b.place # Pcp(l) /\ \A k \in Lists \ {l} : b.place # Pcp(k) /\ Pcp(l) # Pcp(k)
      BY <2>e, <3>1, <3>2, PlaceFacts
    <3>5. /\ Cardinality(At(Pcp(l)))' = Cardinality(At(Pcp(l))) + 1
          /\ \A k \in Lists \ {l} : At(Pcp(k))' = At(Pcp(k))
      BY <3>1, <3>2, <3>4, MoveOnList
    <3>6. Cardinality(At(Pcp(l)))' = pcpCount'[l] + Uncounted(t)' /\ ~NoneMoved(t)'
      BY <2>a, <3>1, <3>2, <3>3, <3>5, NoneAssumption DEF Uncounted, NoneMoved
    <3> QED
      BY <3>0, <2>b, <3>1, <3>2, <3>3, <3>5, <3>6, OwnList, NoneAssumption
  <2>13. ASSUME NEW b \in blocks, Take(t, b) PROVE ListCounts'
    <3>0. PICK l : l = pcp[t]
      OBVIOUS
    <3>1. /\ blocks' = (blocks \ {b}) \cup {Moved(b, Hand(t))} /\ b.place = Pcp(l)
          /\ pcp' = [pcp EXCEPT ![t] = None] /\ pcpCount' = [pcpCount EXCEPT ![l] = @ - 1]
          /\ ret' = ret /\ l # None /\ pc[t] = "take" /\ Goto(t, "prep")
      BY <3>0, <2>13 DEF Take, At, LockDiscipline
    <3>2. l \in Lists /\ Pcp(l) \in Places /\ Cardinality(At(Pcp(l))) = pcpCount[l] + 0
      BY <3>0, <2>c, <3>1 DEF Uncounted
    <3>3. /\ pcp'[t] = None /\ ret'[t] = 0
          /\ \A u \in Contexts \ {t} : pc'[u] = pc[u] /\ pcp'[u] = pcp[u] /\ ret'[u] = ret[u]
      BY <2>a, <2>d, <3>1 DEF Goto, NoneMoved
    <3>4. Hand(t) # Pcp(l) /\ \A k \in Lists \ {l} : b.place # Pcp(k) /\ Hand(t) # Pcp(k)
      BY <2>e, <3>1, <3>2, PlaceFacts
    <3>5. /\ Cardinality(At(Pcp(l)))' = Cardinality(At(Pcp(l))) - 1
          /\ \A k \in Lists \ {l} : At(Pcp(k))' = At(Pcp(k))
      BY <3>1, <3>2, <3>4, MoveOnList, PlaceFacts
    <3>6. /\ pcpCount'[l] = Cardinality(At(Pcp(l)))'
          /\ \A k \in Lists \ {l} : pcpCount'[k] = pcpCount[k]
      BY <2>a, <3>1, <3>2, <3>5
    <3> QED
      BY <3>0, <2>b, <3>1, <3>2, <3>3, <3>5, <3>6, OwnList, NoneAssumption
  <2>14. ASSUME NEW b \in blocks, RmqueueUnlock(t, b) PROVE ListCounts'
    BY <2>14, <2>g DEF RmqueueUnlock
  <2>15. ASSUME NEW b \in blocks, PrepNewPage(t, b) PROVE ListCounts'
    BY <2>15, <2>f, <2>h, PlaceFacts DEF PrepNewPage, LockDiscipline
  <2>16. ASSUME NEW b \in blocks, Drain(t, b) PROVE ListCounts'
    <3>0. PICK l : l = pcp[t]
      OBVIOUS
    <3>1. /\ blocks' = (blocks \ {b}) \cup {Moved(b, Hand(t))} /\ b.place = Pcp(l)
          /\ pcp' = pcp /\ pcpCount' = pcpCount
          /\ ret' = ret /\ l # None /\ pc[t] = "drain" /\ Goto(t, "merge")
      BY <3>0, <2>16 DEF Drain, At, LockDiscipline
    <3>2. l \in Lists /\ Pcp(l) \in Places /\ Cardinality(At(Pcp(l))) = pcpCount[l] + (- ret[t])
      BY <3>0, <2>c, <3>1 DEF Uncounted
    <3>3. /\ pc'[t] = "merge" /\ pcp'[t] = l /\ ret'[t] = ret[t]
          /\ \A u \in Contexts \ {t} : pc'[u] = pc[u] /\ pcp'[u] = pcp[u] /\ ret'[u] = ret[u]
      BY <3>0, <2>a, <3>1 DEF Goto
    <3>4. Hand(t) # Pcp(l) /\ \A k \in Lists \ {l} : b.place # Pcp(k) /\ Hand(t) # Pcp(k)
      BY <2>e, <3>1, <3>2, PlaceFacts
    <3>5. /\ Cardinality(At(Pcp(l)))' = Cardinality(At(Pcp(l))) - 1
          /\ \A k \in Lists \ {l} : At(Pcp(k))' = At(Pcp(k))
      BY <3>1, <3>2, <3>4, MoveOnList, PlaceFacts
    <3>6. Cardinality(At(Pcp(l)))' = pcpCount'[l] + Uncounted(t)' /\ ~NoneMoved(t)'
      BY <2>a, <3>1, <3>2, <3>3, <3>5, NoneAssumption DEF Uncounted, NoneMoved
    <3> QED
      BY <3>0, <2>b, <3>1, <3>2, <3>3, <3>5, <3>6, OwnList, NoneAssumption
  <2>17. ASSUME NEW b \in blocks, ListAdd(t, b) PROVE ListCounts'
    <3>0. PICK l : l = pcp[t]
      OBVIOUS
    <3>1. /\ blocks' = (blocks \ {b}) \cup {Moved(b, Pcp(l))} /\ b.place = Arg(t)
          /\ pcp' = [pcp EXCEPT ![t] = None] /\ pcpCount' = [pcpCount EXCEPT ![l] = @ + 1]
          /\ ret' = ret /\ l # None /\ pc[t] = "list_add" /\ Goto(t, "idle")
      BY <3>0, <2>17 DEF ListAdd, At, LockDiscipline
    <3>2. l \in Lists /\ Pcp(l) \in Places /\ Cardinality(At(Pcp(l))) = pcpCount[l] + 0
      BY <3>0, <2>c, <3>1 DEF Uncounted
    <3>3. /\ pcp'[t] = None /\ ret'[t] = 0
          /\ \A u \in Contexts \ {t} : pc'[u] = pc[u] /\ pcp'[u] = pcp[u] /\ ret'[u] = ret[u]
      BY <2>a, <2>d, <3>1 DEF Goto, NoneMoved
    <3>4. b.place # Pcp(l) /\ \A k \in Lists \ {l} : b.place # Pcp(k) /\ Pcp(l) # Pcp(k)
      BY <2>e, <3>1, <3>2 DEF Arg, Pcp
    <3>5. /\ Cardinality(At(Pcp(l)))' = Cardinality(At(Pcp(l))) + 1
          /\ \A k \in Lists \ {l} : At(Pcp(k))' = At(Pcp(k))
      BY <3>1, <3>2, <3>4, MoveOnList
    <3>6. /\ pcpCount'[l] = Cardinality(At(Pcp(l)))'
          /\ \A k \in Lists \ {l} : pcpCount'[k] = pcpCount[k]
      BY <2>a, <3>1, <3>2, <3>5
    <3> QED
      BY <3>0, <2>b, <3>1, <3>2, <3>3, <3>5, <3>6, OwnList, NoneAssumption
  <2>18. ASSUME NEW b \in blocks, FreeLock(t, b) PROVE ListCounts'
    <3>1. /\ blocks' = (blocks \ {b}) \cup {Moved(b, Hand(t))} /\ b.place = Arg(t)
          /\ pcp' = pcp /\ pcpCount' = pcpCount /\ ret' = ret /\ pcp[t] = None
          /\ Goto(t, "merge")
      BY <2>18 DEF FreeLock, At, LockDiscipline
    <3>2. \A k \in Lists : b.place # Pcp(k) /\ Hand(t) # Pcp(k)
      BY <3>1 DEF Arg, Pcp, Hand
    <3> QED
      BY <2>h, <3>1, <3>2, PlaceFacts
  <2>19. ASSUME NEW b \in blocks, TestBuddy(t, b) PROVE ListCounts'
    <3>1. PICK label \in {"join", "place"} : Goto(t, label)
      BY <2>19 DEF TestBuddy
    <3>2. /\ blocks' = blocks /\ pcp' = pcp /\ pcpCount' = pcpCount /\ ret' = ret
          /\ pc[t] = "merge" /\ pc'[t] = label
      BY <2>19, <2>a, <3>1 DEF TestBuddy, Goto
    <3>3. pcp[t] # None => Uncounted(t)' = Uncounted(t) /\ ~NoneMoved(t)'
      BY <3>1, <3>2 DEF Uncounted, NoneMoved
    <3> QED
      BY <2>g, <3>1, <3>2, <3>3
  <2>20. ASSUME NEW b \in blocks, Join(t, b) PROVE ListCounts'
    <3> DEFINE g == Block(BuddyOf(b.page, b.order), b.order, FreeArea)
               j == Block(Combined(b.page, b.order), b.order + 1, Hand(t))
    <3>1. /\ blocks' = (blocks \ {b, g}) \cup {j} /\ b.place = Hand(t)
          /\ pcp' = pcp /\ pcpCount' = pcpCount /\ ret' = ret
          /\ pc[t] = "join" /\ pc' = [pc EXCEPT ![t] = "merge"]
      BY <2>20, <2>f DEF Join, Goto
    <3>2. g.place = FreeArea /\ j.place = Hand(t)
      BY DEF Block
    <3> HIDE DEF g, j
    <3>3. \A l \in Lists : At(Pcp(l))' = At(Pcp(l))
      BY <3>1, <3>2, PlaceFacts DEF At
    <3>4. pcp[t] # None => Uncounted(t)' = Uncounted(t) /\ ~NoneMoved(t)'
      BY <2>a, <3>1 DEF Uncounted, NoneMoved
    <3> QED
      BY <2>a, <3>1, <3>3, <3>4, ListsAlone
  <2>21. ASSUME NEW b \in blocks, Place(t, b) PROVE ListCounts'
    <3>1. /\ blocks' = (blocks \ {b}) \cup {Moved(b, FreeArea)} /\ b.place = Hand(t)
          /\ pcp' = pcp /\ pcpCount' = pcpCount /\ pc[t] = "place"
      BY <2>21, <2>f DEF Place
    <3>2. CASE pcp[t] = None
      <4>1. ret' = ret /\ Goto(t, "idle")
        BY <2>21, <3>2 DEF Place
      <4> QED
        BY <2>h, <3>1, <3>2, <4>1, PlaceFacts
    <3>3. CASE pcp[t] # None
      <4>0. PICK l : l = pcp[t]
        OBVIOUS
      <4>1. ret' = [ret EXCEPT ![t] = @ + 1] /\ pc' = [pc EXCEPT ![t] = "drain"]
        BY <4>0, <2>21, <3>3 DEF Place, Goto
      <4>2. l \in Lists /\ Cardinality(At(Pcp(l))) = pcpCount[l] + (- ret[t] - 1)
        BY <4>0, <2>c, <3>1, <3>3 DEF Uncounted
      <4>3. /\ pc'[t] = "drain" /\ pcp'[t] = l /\ ret'[t] = ret[t] + 1
            /\ \A u \in Contexts \ {t} : pc'[u] = pc[u] /\ pcp'[u] = pcp[u] /\ ret'[u] = ret[u]
        BY <4>0, <2>a, <3>1, <4>1
      <4>4. \A k \in Lists : At(Pcp(k))' = At(Pcp(k))
        BY <3>1, MoveOffLists, PlaceFacts DEF TypeOK
      <4>5. Cardinality(At(Pcp(l)))' = pcpCount'[l] + Uncounted(t)' /\ ~NoneMoved(t)'
        BY <2>a, <3>1, <4>2, <4>3, <4>4, NoneAssumption DEF Uncounted, NoneMoved
      <4> QED
        BY <4>0, <2>b, <3>1, <4>2, <4>3, <4>4, <4>5, OwnList, NoneAssumption
    <3> QED
      BY <3>2, <3>3
  <2> QED
    BY <2>1, <2>2, <2>3, <2>4, <2>5, <2>6, <2>7, <2>8, <2>9, <2>10, <2>11, <2>12,
       <2>13, <2>14, <2>15, <2>16, <2>17, <2>18, <2>19, <2>20, <2>21 DEF Call, Continue
<1> QED
  BY <1>1, <1>2

LEMMA InitListCounts == Init => ListCounts
<1> SUFFICES ASSUME Init PROVE ListCounts
  OBVIOUS
<1>1. \A k \in Lists : At(Pcp(k)) = {}
  <2>1. \A p, o : Block(p, o, InUse).place = InUse
    BY DEF Block
  <2> QED
    BY <2>1, PlaceFacts DEF Init, At
<1> QED
  BY <1>1, FS_EmptySet DEF Init, ListCounts, OneAtACpu, NoneMoved, PcpAccounting

\* With the counters: still inductive.
Counted == FreeCounts /\ ListCounts

\* The counters are what is free, but for what the context in the middle of a step has moved.
THEOREM CountedHolds == Spec => []Counted
<1>1. Init => Counted
  BY InitFreeCounts, InitListCounts DEF Counted
<1>2. IInv /\ IInv' /\ Counted /\ [Next]_vars => Counted'
  BY FreeCountsStep, ListCountsStep DEF Counted, IInv
<1> QED
  BY <1>1, <1>2, IInvHolds, PTL DEF Spec

\* nr_free is the length of each free list, free_pages the number of frames on them
\* whenever zone->lock is free, and a per-CPU list nobody is at work on has as many
\* pages as its count says.
THEOREM CountersAgreeAlways == Spec => []CountersAgree
<1>1. Counted => CountersAgree
  BY DEF Counted, FreeCounts, ListCounts, CountersAgree, Accounting, OfOrder, FreeFrames
<1> QED
  BY <1>1, CountedHolds, PTL

------------------------------------------------------------------------------
(****************************************************************************)
(* Why a request fails.                                                     *)
(****************************************************************************)
\* A set of natural numbers that is not empty has a least element.
LEMMA LeastElement ==
    ASSUME NEW S, S \subseteq Nat, S # {}
    PROVE  \E m \in S : \A k \in S : m <= k
<1>1. PICK m \in S : \A k \in S : ~ (<<k, m>> \in OpToRel(<, Nat))
  BY NatLessThanWellFounded, WFMin
<1>2. \A k \in S : ~(k < m)
  BY <1>1, Zenon DEF OpToRel
<1> QED
  BY <1>2

\* Sizes are powers of two: each is a multiple of the smaller ones.
LEMMA SizeMultiple ==
    ASSUME NEW o \in Orders, NEW k \in Orders, o <= k
    PROVE  \E m \in Nat : Size[k] = m * Size[o]
<1> DEFINE Bad == {j \in Orders : o <= j /\ ~ \E m \in Nat : Size[j] = m * Size[o]}
<1>1. SUFFICES ASSUME Bad # {} PROVE FALSE
  OBVIOUS
<1>2. Bad \subseteq Nat
  BY SizeFacts
<1>3. PICK j \in Bad : \A i \in Bad : j <= i
  <2> HIDE DEF Bad
  <2> QED
    BY <1>1, <1>2, LeastElement
<1>4. j \in Orders /\ o <= j /\ j \in Nat /\ o \in Nat /\ Size[j] \in Nat /\ Size[o] \in Nat
  BY SizeFacts
<1>5. CASE j = o
  <2>1. Size[j] = 1 * Size[o]
    BY <1>4, <1>5
  <2> QED
    BY <2>1
<1>6. CASE j # o
  <2>1. j - 1 \in Orders /\ o <= j - 1 /\ Size[j] = 2 * Size[j - 1] /\ ~(j <= j - 1)
    BY <1>4, <1>6, SizeFacts
  <2>2. j - 1 \notin Bad
    <3> HIDE DEF Bad
    <3> QED
      BY <1>3, <2>1
  <2>3. PICK m \in Nat : Size[j - 1] = m * Size[o]
    BY <2>1, <2>2
  <2>4. Size[j] = (2 * m) * Size[o] /\ 2 * m \in Nat
    BY <1>4, <2>1, <2>3
  <2> QED
    BY <2>4
<1> QED
  BY <1>5, <1>6

LEMMA AlignedOnLess ==
    ASSUME NEW o \in Orders, NEW k \in Orders, o <= k, NEW p \in Nat, p % Size[k] = 0
    PROVE  p % Size[o] = 0
<1>1. Size[o] \in Nat \ {0} /\ Size[k] \in Nat \ {0}
  BY SizeFacts
<1>2. PICK m \in Nat : Size[k] = m * Size[o]
  BY SizeMultiple
<1>3. PICK j \in Nat : p = j * Size[k]
  <2> DEFINE s == Size[k]
  <2>1. s \in Nat \ {0} /\ p % s = 0
    BY <1>1
  <2> HIDE DEF s
  <2>2. \E j \in Nat : p = j * s
    BY <2>1, Z3
  <2> QED
    BY <2>2 DEF s
<1>4. p = (j * m) * Size[o] /\ j * m \in Nat
  <2> DEFINE s == Size[o]
  <2>1. p = j * (m * s) /\ s \in Nat
    BY <1>1, <1>2, <1>3
  <2> HIDE DEF s
  <2>2. p = (j * m) * s /\ j * m \in Nat
    BY <2>1
  <2> QED
    BY <2>2 DEF s
<1> QED
  BY <1>1, <1>4, MultipleFacts

LEMMA AlignedIsMultiple ==
    ASSUME NEW s \in Nat \ {0}, NEW p \in Nat, p % s = 0
    PROVE  \E k \in Nat : p = k * s
  BY Z3

\* What starts inside an aligned run of frames, aligned on a size that divides its own,
\* ends inside it.
LEMMA InsideRun ==
    ASSUME NEW s \in Nat \ {0}, NEW p \in Nat, NEW e \in Nat, NEW q \in Nat,
           p % s = 0, e % s = 0, q % s = 0
    PROVE  /\ q < e => q + s <= e
           /\ p < q + s => p <= q
<1>1. PICK i \in Nat : p = i * s
  BY AlignedIsMultiple
<1>2. PICK j \in Nat : e = j * s
  BY AlignedIsMultiple
<1>3. PICK k \in Nat : q = k * s
  BY AlignedIsMultiple
<1>4. q < e => q + s <= e
  <2> SUFFICES ASSUME q < e PROVE q + s <= e
    OBVIOUS
  <2>1. k < j
    BY <1>2, <1>3
  <2>2. (k + 1) * s <= j * s
    BY <2>1
  <2> QED
    BY <1>2, <1>3, <2>2
<1>5. p < q + s => p <= q
  <2> SUFFICES ASSUME p < q + s PROVE p <= q
    OBVIOUS
  <2>1. i < k + 1
    BY <1>1, <1>3
  <2>2. i * s <= k * s
    BY <2>1
  <2> QED
    BY <1>1, <1>3, <2>2
<1> QED
  BY <1>4, <1>5

Covers(b, q) == b.page <= q /\ q < End(b)

LEMMA BuddyAligned ==
    ASSUME NEW p \in Nat, NEW o \in Orders, p % Size[o] = 0
    PROVE  BuddyOf(p, o) % Size[o] = 0
<1> DEFINE s == Size[o]
<1>1. s \in Nat /\ s > 0
  BY SizeFacts
<1>2. (p \div s) % 2 = 0 => (p + s) % s = 0
  BY <1>1, EvenMultiple
<1>3. (p \div s) % 2 # 0 => (p - s) % s = 0
  BY <1>1, OddMultiple
<1> QED
  BY <1>2, <1>3 DEF BuddyOf

\* If an aligned run of 2^w frames is free in blocks of smaller orders, two of them are
\* buddies: a block of least order among them, and its other half.
LEMMA NoFreeRun ==
    ASSUME IInv, NEW w \in Orders, NoneFree(w), NEW p \in Frames, p % Size[w] = 0,
           \A q \in p..(p + Size[w] - 1) : \E b \in At(FreeArea) : Covers(b, q)
    PROVE  FALSE
<1> DEFINE n == Size[w]
           inRun == {b \in At(FreeArea) : \E q \in p..(p + n - 1) : Covers(b, q)}
<1>1. n \in Nat \ {0} /\ p \in Nat /\ w \in Nat
  BY SizeFacts, ZoneAssumption DEF Frames
<1>2. PICK b \in inRun : \A c \in inRun : b.order <= c.order
  <2> DEFINE orders == {c.order : c \in inRun}
  <2>1. p \in p..(p + n - 1)
    BY <1>1
  <2>2. inRun # {}
    BY <2>1
  <2>3. orders \subseteq Nat
    BY BlockFacts, SizeFacts DEF At, IInv, TypeOK
  <2>4. orders # {}
    BY <2>2
  <2>5. PICK m \in orders : \A k \in orders : m <= k
    <3> HIDE DEF orders
    <3> QED
      BY <2>3, <2>4, LeastElement
  <2> QED
    BY <2>5
<1> DEFINE o == b.order
           s == Size[o]
           q == BuddyOf(b.page, o)
           j == Combined(b.page, o)
<1>3. /\ b \in blocks /\ b.place = FreeArea /\ b.page \in Nat /\ o \in Orders /\ o \in Nat
      /\ s \in Nat \ {0} /\ End(b) = b.page + s /\ b.page % s = 0
      /\ b = Block(b.page, o, FreeArea)
  BY BlockFacts, SizeFacts DEF At, IInv, TypeOK, Geometry, AllPlaced
<1>4. o < w /\ o < MaxOrder - 1 /\ o + 1 \in Orders /\ o + 1 <= w /\ Size[o + 1] = 2 * s
  <2>1. o < w
    BY <1>2 DEF NoneFree
  <2>2. MaxOrder \in Nat
    BY SizeAssumption
  <2> QED
    BY <1>1, <1>3, <2>1, <2>2, SizeFacts DEF Orders
<1>5. /\ p % s = 0 /\ n % s = 0 /\ (p + n) % s = 0
      /\ p % (2 * s) = 0 /\ (p + n) % (2 * s) = 0
  <2>1. n % n = 0 /\ (p + n) % n = 0
    <3>1. PICK k \in Nat : p = k * n
      BY <1>1, AlignedIsMultiple
    <3>2. p + n = (k + 1) * n /\ n = 1 * n
      BY <1>1, <3>1
    <3> HIDE DEF n
    <3>3. ((k + 1) * n) % n = 0 /\ (1 * n) % n = 0
      BY <1>1, MultipleFacts
    <3> QED
      BY <3>2, <3>3
  <2>2. p % s = 0 /\ n % s = 0 /\ (p + n) % s = 0
    BY <1>1, <1>3, <1>4, <2>1, AlignedOnLess
  <2>3. p % Size[o + 1] = 0 /\ (p + n) % Size[o + 1] = 0
    <3>1. PICK k \in Orders : k = o + 1 /\ k <= w
      BY <1>4
    <3>2. p % Size[k] = 0 /\ (p + n) % Size[k] = 0
      BY <1>1, <2>1, <3>1, AlignedOnLess
    <3> QED
      BY <3>1, <3>2
  <2> QED
    BY <1>4, <2>2, <2>3
\* The block, and with it the pair it belongs to, lies inside the run.
<1>6. p <= b.page /\ b.page < p + n
  <2>1. PICK f \in p..(p + n - 1) : Covers(b, f)
    BY <1>2
  <2>2. p < b.page + s /\ b.page < p + n
    BY <1>1, <1>3, <2>1 DEF Covers
  <2>3. p < b.page + s => p <= b.page
    BY <1>1, <1>3, <1>5, InsideRun
  <2> QED
    BY <2>2, <2>3
<1>7. /\ q \in Nat /\ j \in Nat /\ j % (2 * s) = 0
      /\ \/ j = b.page /\ q = b.page + s
         \/ j = q /\ q = b.page - s
  BY <1>3, BuddyFacts
<1>8. p <= j /\ j + 2 * s <= p + n
  <2> DEFINE d == 2 * s
             e == p + n
  <2>1. d \in Nat \ {0} /\ e \in Nat /\ p % d = 0 /\ e % d = 0 /\ j % d = 0
    BY <1>1, <1>3, <1>5, <1>7
  <2>2. j < e /\ p < j + d
    BY <1>1, <1>3, <1>6, <1>7
  <2> HIDE DEF d, e, j
  <2>3. j + d <= e /\ p <= j
    BY <1>1, <1>7, <2>1, <2>2, InsideRun
  <2> QED
    BY <2>3 DEF d, e
<1>9. q \in p..(p + n - 1)
  BY <1>1, <1>3, <1>7, <1>8
<1>10. PICK c \in inRun : Covers(c, q)
  <2>1. PICK c \in At(FreeArea) : Covers(c, q)
    BY <1>9
  <2> QED
    BY <1>9, <2>1
<1>11. /\ c \in blocks /\ c.place = FreeArea /\ c.page \in Nat /\ c.order \in Orders
       /\ Size[c.order] \in Nat \ {0} /\ End(c) = c.page + Size[c.order]
       /\ c.page % Size[c.order] = 0 /\ c = Block(c.page, c.order, FreeArea)
       /\ c.order \in Nat /\ o <= c.order /\ c.page <= q /\ q < End(c)
  BY <1>2, <1>10, BlockFacts, SizeFacts DEF At, IInv, TypeOK, Geometry, AllPlaced, Covers
<1>12. CASE c.order = o
  <2>1. q % s = 0
    BY <1>3, <1>7, BuddyAligned
  <2>2. c.page = q
    <3>1. c.page # q => c.page + s <= q \/ q + s <= c.page
      BY <1>3, <1>7, <1>11, <1>12, <2>1, AlignedDisjoint
    <3> QED
      BY <1>3, <1>7, <1>11, <1>12, <3>1
  <2> QED
    BY <1>3, <1>4, <1>11, <1>12, <2>2 DEF IInv, Marks, Coalesced, At
<1>13. CASE c.order # o
  <2> DEFINE d == 2 * s
  <2>1. c.page % Size[o + 1] = 0 /\ o + 1 <= c.order /\ c.order \in Orders
    <3>0. o + 1 <= c.order
      BY <1>3, <1>11, <1>13
    <3>1. PICK k \in Orders : k = o + 1 /\ k <= c.order
      BY <1>4, <3>0
    <3>2. c.page % Size[k] = 0
      BY <1>11, <3>1, AlignedOnLess
    <3> QED
      BY <1>11, <3>1, <3>2
  <2>2. PICK m \in Nat : Size[c.order] = m * Size[o + 1]
    BY <1>4, <2>1, SizeMultiple
  <2>3. d \in Nat \ {0} /\ c.page % d = 0 /\ j % d = 0 /\ End(c) = c.page + m * d /\ End(c) \in Nat
    BY <1>3, <1>4, <1>7, <1>11, <2>1, <2>2
  <2>4. End(c) % d = 0
    <3> HIDE DEF d
    <3>1. PICK k \in Nat : c.page = k * d
      BY <1>11, <2>3, AlignedIsMultiple
    <3>2. End(c) = (k + m) * d /\ k + m \in Nat
      BY <2>3, <3>1
    <3> QED
      BY <2>3, <3>2, MultipleFacts
  <2>5. j < End(c) /\ c.page < j + d
    BY <1>3, <1>7, <1>11
  <2>6. j + d <= End(c) /\ c.page <= j
    <3> HIDE DEF d, j
    <3> QED
      BY <1>7, <1>11, <2>3, <2>4, <2>5, InsideRun
  <2>7. c.page <= b.page /\ b.page < End(c) /\ b # c
    BY <1>3, <1>7, <1>11, <1>13, <2>6
  <2>8. Disjoint(b, c)
    BY <1>3, <1>11, <2>7 DEF IInv, Geometry, NoOverlap
  <2> QED
    BY <1>3, <1>11, <2>7, <2>8 DEF Disjoint
<1> QED
  BY <1>12, <1>13

\* A request fails only for fragmentation: when buffered_rmqueue returns NULL there is
\* no aligned run of free frames of the size asked for, however it may be cut up.
THEOREM FailureMeansFragmented == Spec => FailsOnlyWhenFragmented
<1> DEFINE A == \A t \in Contexts : RmqueueFail(t) =>
                  ~ \E p \in Frames :
                      /\ p % Size[want[t]] = 0
                      /\ \A q \in p..(p + Size[want[t]] - 1) :
                           \E b \in At(FreeArea) : b.page <= q /\ q < End(b)
<1>1. IInv => A
  <2> SUFFICES ASSUME IInv, NEW t \in Contexts, RmqueueFail(t), NEW p \in Frames,
                      p % Size[want[t]] = 0,
                      \A q \in p..(p + Size[want[t]] - 1) :
                           \E b \in At(FreeArea) : b.page <= q /\ q < End(b)
               PROVE  FALSE
    OBVIOUS
  <2>1. want[t] \in Orders /\ NoneFree(want[t])
    BY DEF IInv, TypeOK, RmqueueFail
  <2>2. \A q \in p..(p + Size[want[t]] - 1) : \E b \in At(FreeArea) : Covers(b, q)
    BY DEF Covers
  <2> QED
    BY <2>1, <2>2, NoFreeRun
<1>2. IInv /\ [Next]_vars => [A]_vars
  BY <1>1
<1> HIDE DEF A
<1>3. Spec => [][A]_vars
  BY <1>2, IInvHolds, PTL DEF Spec
<1> QED
  BY <1>3 DEF A, FailsOnlyWhenFragmented
==============================================================================
