-------------------------- MODULE Boot_Kmap_proofs --------------------------
(****************************************************************************)
(* The boot, for every layout, command line and sequence of boot-time       *)
(* calls; then permanent mappings, which kmap_init makes possible, for any  *)
(* number of tasks, pages and slots.                                        *)
(****************************************************************************)
EXTENDS Boot, Kmap, FiniteSetTheorems, FunctionTheorems, SequenceTheorems, WellFoundedInduction,
        NaturalsInduction, TLAPS

(****************************************************************************)
(* Whole pages.                                                             *)
(****************************************************************************)
LEMMA Widths == /\ PageSize \in Nat /\ PageSize > 1
                /\ ByteBits \in Nat \ {0} /\ LongBits \in Nat \ {0}
  BY WidthAssumption, BootAssumption

LEMMA DivBounds ==
    ASSUME NEW x \in Int, NEW n \in Nat \ {0}
    PROVE  /\ x \div n \in Int /\ n * (x \div n) <= x /\ x < n * (x \div n) + n
           /\ x >= 0 => x \div n \in Nat
  OBVIOUS

\* A quotient is at least what can be multiplied back, and no more.
LEMMA DivAtLeast ==
    ASSUME NEW x \in Int, NEW n \in Nat \ {0}, NEW q \in Int
    PROVE  q <= x \div n <=> q * n <= x
<1>1. PICK d \in Int : d = x \div n
  OBVIOUS
<1>2. n * d <= x /\ x < n * d + n
  BY <1>1
<1>3. CASE q <= d
  <2>1. q * n <= d * n
    BY <1>3
  <2> QED
    BY <1>1, <1>2, <1>3, <2>1
<1>4. CASE q >= d + 1
  <2>1. q * n >= (d + 1) * n
    BY <1>4
  <2> QED
    BY <1>1, <1>2, <1>4, <2>1
<1> QED
  BY <1>3, <1>4

LEMMA RoundUpAtMost ==
    ASSUME NEW x \in Int, NEW n \in Nat \ {0}, NEW q \in Int
    PROVE  /\ RoundUp(x, n) \in Int
           /\ RoundUp(x, n) <= q <=> x <= q * n
<1>1. PICK d \in Int : d = (x + n - 1) \div n
  OBVIOUS
<1>2. q + 1 <= d <=> (q + 1) * n <= x + n - 1
  BY <1>1, DivAtLeast
<1>3. (q + 1) * n = q * n + n
  OBVIOUS
<1> QED
  BY <1>1, <1>2, <1>3 DEF RoundUp

\* Where a page starts.
At(f) == f * PageSize

\* Pages are ordered as their numbers.
LEMMA PageOrder ==
    ASSUME NEW a \in Int, NEW b \in Int
    PROVE  /\ At(a) \in Int /\ At(b) \in Int
           /\ a <= b <=> At(a) <= At(b)
           /\ a < b <=> At(a) < At(b)
<1>1. PICK p \in Nat \ {0} : p = PageSize
  BY Widths
<1>2. a <= b => a * p <= b * p
  BY <1>1
<1>3. a + 1 <= b => a * p + p <= b * p
  <2>1. (a + 1) * p = a * p + p
    OBVIOUS
  <2>2. a + 1 <= b => (a + 1) * p <= b * p
    OBVIOUS
  <2> QED
    BY <2>1, <2>2
<1>4. b + 1 <= a => b * p + p <= a * p
  <2>1. (b + 1) * p = b * p + p
    OBVIOUS
  <2>2. b + 1 <= a => (b + 1) * p <= a * p
    OBVIOUS
  <2> QED
    BY <2>1, <2>2
<1>5. a * p \in Int /\ b * p \in Int
  OBVIOUS
<1>6. a <= b <=> a * p <= b * p
  BY <1>1, <1>2, <1>4, <1>5
<1>7. a < b <=> a * p < b * p
  BY <1>1, <1>2, <1>3, <1>4, <1>5
<1> QED
  BY <1>1, <1>5, <1>6, <1>7 DEF At

LEMMA PageSums ==
    ASSUME NEW a \in Int, NEW b \in Int
    PROVE  At(a + b) = At(a) + At(b)
<1>1. PICK p \in Nat \ {0} : p = PageSize
  BY Widths
<1> QED
  BY <1>1 DEF At

LEMMA PageEdges ==
    ASSUME NEW f \in Int
    PROVE  /\ At(f) \in Int /\ At(f + 1) = At(f) + PageSize /\ At(f - 1) = At(f) - PageSize
           /\ f >= 0 => At(f) \in Nat
           /\ At(0) = 0
<1>1. At(1) = PageSize /\ At(-1) = 0 - PageSize /\ At(0) = 0
  BY Widths DEF At
<1>2. At(f + 1) = At(f) + At(1) /\ At(f + -1) = At(f) + At(-1)
  BY PageSums
<1>3. f + -1 = f - 1 /\ At(f) \in Int /\ (f >= 0 => At(f) >= At(0))
  BY PageOrder
<1> QED
  BY <1>1, <1>2, <1>3, Widths

LEMMA Pagewise ==
    ASSUME NEW x \in Int, NEW q \in Int
    PROVE  /\ Frame(x) \in Int /\ PagesUp(x) \in Int
           /\ q <= Frame(x) <=> At(q) <= x
           /\ PagesUp(x) <= q <=> x <= At(q)
<1>1. Frame(x) \in Int /\ PagesUp(x) \in Int
  BY Widths, DivBounds, RoundUpAtMost DEF Frame, PagesUp
<1>2. q <= Frame(x) <=> q * PageSize <= x
  BY Widths, DivAtLeast DEF Frame
<1>3. PagesUp(x) <= q <=> x <= q * PageSize
  BY Widths, RoundUpAtMost DEF PagesUp
<1> QED
  BY <1>1, <1>2, <1>3 DEF At

LEMMA PageOf ==
    ASSUME NEW x \in Int
    PROVE  /\ Frame(x) \in Int /\ At(Frame(x)) <= x /\ x < At(Frame(x) + 1)
           /\ PagesUp(x) \in Int /\ x <= At(PagesUp(x)) /\ At(PagesUp(x) - 1) < x
           /\ x >= 0 => Frame(x) \in Nat /\ PagesUp(x) \in Nat
<1>1. PICK f \in Int, g \in Int : f = Frame(x) /\ g = PagesUp(x)
  BY Pagewise
<1>2. At(f) <= x /\ x <= At(g)
  BY <1>1, Pagewise
<1>3. ~ (At(f + 1) <= x)
  <2>1. f + 1 \in Int /\ ~(f + 1 <= f)
    OBVIOUS
  <2> QED
    BY <1>1, <2>1, Pagewise
<1>4. ~ (x <= At(g - 1))
  <2>1. g - 1 \in Int /\ ~(g <= g - 1)
    OBVIOUS
  <2> QED
    BY <1>1, <2>1, Pagewise
<1>5. At(f + 1) \in Int /\ At(g - 1) \in Int
  BY PageEdges
<1>6. ASSUME x >= 0 PROVE f >= 0 /\ g >= 0
  <2>1. 0 <= f
    BY <1>1, <1>6, Pagewise, PageEdges
  <2>2. At(-1) < 0
    BY PageOrder, PageEdges
  <2>3. -1 \in Int /\ ~ (x <= At(-1))
    BY <1>6, <2>2, PageEdges
  <2>4. ~ (g <= -1)
    BY <1>1, <2>3, Pagewise
  <2> QED
    BY <2>1, <2>4
<1> QED
  BY <1>1, <1>2, <1>3, <1>4, <1>5, <1>6

LEMMA InTouched ==
    ASSUME NEW s \in Int, NEW z \in Int
    PROVE  /\ Touched(s, z) \subseteq Int /\ Within(s, z) \subseteq Int
           /\ \A f \in Int :
                /\ f \in Touched(s, z) <=> s < At(f) + PageSize /\ At(f) < s + z
                /\ f \in Within(s, z) <=> s <= At(f) /\ At(f) + PageSize <= s + z
<1>1. Frame(s) \in Int /\ PagesUp(s + z) \in Int /\ PagesUp(s) \in Int /\ Frame(s + z) \in Int
  BY PageOf
<1>2. Touched(s, z) \subseteq Int /\ Within(s, z) \subseteq Int
  BY <1>1 DEF Touched, Within
<1>3. ASSUME NEW f \in Int
      PROVE  /\ f \in Touched(s, z) <=> s < At(f) + PageSize /\ At(f) < s + z
             /\ f \in Within(s, z) <=> s <= At(f) /\ At(f) + PageSize <= s + z
  <2>1. f + 1 <= Frame(s) <=> At(f + 1) <= s
    BY Pagewise
  <2>2. PagesUp(s + z) <= f <=> s + z <= At(f)
    BY Pagewise
  <2>3. PagesUp(s) <= f <=> s <= At(f)
    BY Pagewise
  <2>4. f + 1 <= Frame(s + z) <=> At(f + 1) <= s + z
    BY Pagewise
  <2>5. At(f) \in Int /\ At(f + 1) = At(f) + PageSize
    BY PageEdges
  <2> QED
    BY <1>1, <2>1, <2>2, <2>3, <2>4, <2>5, Widths DEF Touched, Within
<1> QED
  BY <1>2, <1>3

(****************************************************************************)
(* Blocks of bytes.                                                         *)
(****************************************************************************)
Sized(b) == b.start \in Nat /\ b.size \in Nat \ {0}

LEMMA ApartSym == \A a, b : Apart(a, b) <=> Apart(b, a)
  BY DEF Apart

\* Blocks that overlap touch a page together.
LEMMA PagesApart ==
    ASSUME NEW a, NEW b, Sized(a), Sized(b), TouchedBy(a) \cap TouchedBy(b) = {}
    PROVE  Apart(a, b)
<1>1. PICK s \in Nat, t \in Nat, y \in Nat, z \in Nat :
         s = a.start /\ t = b.start /\ y = a.size /\ z = b.size /\ y # 0 /\ z # 0
  BY DEF Sized
<1>2. SUFFICES ASSUME s < t + z, t < s + y PROVE FALSE
  BY <1>1 DEF Apart
<1>3. PICK x \in Nat : s <= x /\ t <= x /\ x < s + y /\ x < t + z
  <2>1. CASE s <= t
    BY <2>1, <1>1, <1>2
  <2>2. CASE t <= s
    BY <2>2, <1>1, <1>2
  <2> QED
    BY <2>1, <2>2
<1>4. PICK f \in Nat : f = Frame(x)
  BY PageOf
<1>5. At(f) <= x /\ x < At(f) + PageSize /\ At(f) \in Int
  BY <1>4, PageOf, PageEdges, Widths
<1>6. f \in Touched(s, y) /\ f \in Touched(t, z)
  <2>1. s < At(f) + PageSize /\ At(f) < s + y /\ t < At(f) + PageSize /\ At(f) < t + z
    BY <1>3, <1>5, Widths
  <2> QED
    BY <2>1, InTouched
<1> QED
  BY <1>1, <1>6 DEF TouchedBy

\* A page that lies wholly in a block is touched by no block apart from it.
LEMMA WithinApart ==
    ASSUME NEW a, NEW b, Sized(a), Sized(b), Apart(a, b)
    PROVE  Within(a.start, a.size) \cap TouchedBy(b) = {}
<1>1. PICK s \in Nat, t \in Nat, y \in Nat, z \in Nat :
         s = a.start /\ t = b.start /\ y = a.size /\ z = b.size
  BY DEF Sized
<1>2. SUFFICES ASSUME NEW f \in Int, f \in Within(s, y), f \in Touched(t, z) PROVE FALSE
  BY <1>1, InTouched DEF TouchedBy
<1>3. PICK u \in Int : u = At(f)
  BY PageEdges
<1>4. s <= u /\ u + PageSize <= s + y /\ t < u + PageSize /\ u < t + z
  BY <1>2, <1>3, InTouched
<1> QED
  BY <1>1, <1>4, Widths DEF Apart

LEMMA WithinTouched ==
    ASSUME NEW a, Sized(a) PROVE Within(a.start, a.size) \subseteq TouchedBy(a)
<1>1. PICK s \in Nat, y \in Nat : s = a.start /\ y = a.size
  BY DEF Sized
<1>2. SUFFICES ASSUME NEW f \in Int, f \in Within(s, y) PROVE f \in Touched(s, y)
  BY <1>1, InTouched DEF TouchedBy
<1>3. PICK u \in Int : u = At(f)
  BY PageEdges
<1>4. s <= u /\ u + PageSize <= s + y
  BY <1>2, <1>3, InTouched
<1>5. s < u + PageSize /\ u < s + y
  BY <1>4, Widths
<1> QED
  BY <1>3, <1>5, InTouched

(****************************************************************************)
(* The node's bitmap, and what it knows of.                                 *)
(****************************************************************************)
Bootmems ==
    [start : Nat, end : Nat, node_bootmem_map : Nat, reserved : SUBSET Int,
     last_pos : Nat, last_offset : Nat, bug : BOOLEAN]

Clear(d) == (d.start..(d.end - 1)) \ d.reserved

\* What is left of the page in which the last allocation ended.
Rest(d) == [start |-> At(d.last_pos) + d.last_offset, size |-> PageSize - d.last_offset]

\* Clear frames are memory, those of blocks in use are reserved, and nobody has the tail.
Ready(d, used, ram) ==
    /\ d \in Bootmems
    /\ Clear(d) \subseteq ram
    /\ \A b \in used : Sized(b) /\ TouchedBy(b) \subseteq d.reserved
    /\ d.last_offset # 0 =>
         /\ d.last_offset < PageSize
         /\ d.last_pos \in ram \cap d.reserved
         /\ \A b \in used : Apart(Rest(d), b)

\* A block taken from the node: it is nobody else's, and its pages are reserved.
Serves(d, got, used, ram, size, align) ==
    LET a == [start |-> got.addr, size |-> size] IN
    /\ got.addr \in Nat /\ got.addr % align = 0
    /\ \A b \in used : Apart(a, b)
    /\ TouchedBy(a) \subseteq ram
    /\ got.bd \in Bootmems
    /\ got.bd.start = d.start /\ got.bd.end = d.end
    /\ got.bd.node_bootmem_map = d.node_bootmem_map /\ got.bd.bug = d.bug
    /\ got.bd.reserved = d.reserved \cup TouchedBy(a)
    /\ got.bd.last_offset # 0 =>
         /\ got.bd.last_offset < PageSize
         /\ got.bd.last_pos \in ram \cap got.bd.reserved
         /\ \A b \in used : Apart(Rest(got.bd), b)
         /\ Apart(Rest(got.bd), a)

\* The search gives clear frames of the node.
LEMMA FoundRun ==
    ASSUME NEW d \in Bootmems, NEW n \in Nat, NEW z, PagesUp(z) = n, Runs(d, n) # {}
    PROVE  /\ Find(d, z) \in Nat /\ d.start <= Find(d, z) /\ Find(d, z) + n <= d.end
           /\ Find(d, z) <= d.end - 1
           /\ \A f \in Find(d, z)..(Find(d, z) + n - 1) : f \in Clear(d)
<1>1. Runs(d, n) \subseteq Nat
  BY DEF Runs, Bootmems
<1>2. \E m \in Runs(d, n) : \A k \in Runs(d, n) : m <= k
  <2> DEFINE S == Runs(d, n)
  <2>1. S \subseteq Nat /\ S # {}
    BY <1>1
  <2> HIDE DEF S
  <2>2. PICK m \in S : \A k \in S : ~ (<<k, m>> \in OpToRel(<, Nat))
    BY <2>1, NatLessThanWellFounded, WFMin
  <2>3. \A k \in S : ~(k < m)
    BY <2>1, <2>2, Zenon DEF OpToRel
  <2>4. \A k \in S : m <= k
    BY <2>1, <2>3
  <2> QED
    BY <2>4 DEF S
<1>3. Find(d, z) \in Runs(d, n)
  BY <1>2 DEF Find
<1>4. PICK i : i = Find(d, z)
  OBVIOUS
<1>5. i \in Nat /\ d.start <= i /\ i <= d.end - 1 /\ i + n <= d.end /\ i..(i + n - 1) \cap d.reserved = {}
       /\ d.start \in Nat /\ d.end \in Nat
  BY <1>3, <1>4 DEF Runs, Bootmems
<1>6. \A f \in i..(i + n - 1) : f \in d.start..(d.end - 1) /\ f \notin d.reserved
  BY <1>5
<1> QED
  BY <1>4, <1>5, <1>6 DEF Clear

LEMMA RunPages ==
    ASSUME NEW z \in Nat \ {0}
    PROVE  PagesUp(z) \in Nat \ {0} /\ z <= At(PagesUp(z)) /\ At(PagesUp(z) - 1) < z
<1>1. PICK n \in Nat : n = PagesUp(z) /\ z <= At(n) /\ At(n - 1) < z
  BY PageOf
<1>2. n # 0
  BY <1>1, PageEdges
<1> QED
  BY <1>1, <1>2

\* A number of bytes from the start of a page.
LEMMA TouchedRun ==
    ASSUME NEW i \in Nat, NEW z \in Nat
    PROVE  Touched(At(i), z) = i..(i + PagesUp(z) - 1)
<1>1. PICK n \in Nat, u \in Nat : n = PagesUp(z) /\ u = At(i)
  <2>1. PagesUp(z) \in Nat /\ At(i) \in Nat
    BY PageOf, PageEdges
  <2> QED
    BY <2>1
<1>2. ASSUME NEW f \in Int
      PROVE  f \in Touched(u, z) <=> f \in i..(i + n - 1)
  <2>1. PICK v \in Int, x \in Int : v = At(f) /\ x = At(f - i)
    BY PageEdges
  <2>2. f \in Touched(u, z) <=> u < v + PageSize /\ v < u + z
    BY <2>1, InTouched
  <2>3. i < f + 1 <=> u < v + PageSize
    <3>1. f + 1 \in Int /\ At(f + 1) = v + PageSize
      BY <2>1, PageEdges
    <3>2. i < f + 1 <=> At(i) < At(f + 1)
      BY PageOrder
    <3> QED
      BY <1>1, <3>1, <3>2
  <2>4. n <= f - i <=> z <= x
    <3>1. PICK q \in Int : q = f - i
      OBVIOUS
    <3>2. z \in Int /\ x = At(q)
      BY <2>1, <3>1
    <3>3. PagesUp(z) <= q <=> z <= At(q)
      BY <3>1, <3>2, Pagewise
    <3> QED
      BY <1>1, <3>1, <3>2, <3>3
  <2>5. v = u + x
    <3>1. At(i + (f - i)) = At(i) + At(f - i)
      BY PageSums
    <3>2. i + (f - i) = f
      OBVIOUS
    <3> QED
      BY <3>1, <3>2, <1>1, <2>1
  <2> QED
    BY <2>2, <2>3, <2>4, <2>5
<1>3. Touched(u, z) \subseteq Int /\ i..(i + n - 1) \subseteq Int
  BY InTouched
<1>4. Touched(u, z) = i..(i + n - 1)
  BY <1>2, <1>3
<1> QED
  BY <1>1, <1>4

LEMMA AlignDivides ==
    ASSUME NEW al \in {CacheBytes, PageSize}
    PROVE  /\ al \in Nat \ {0} /\ \E k \in Nat : PageSize = k * al
           /\ \A i \in Nat : At(i) % al = 0
<1>1. al \in Nat \ {0} /\ PageSize % al = 0
  <2>1. PageSize % PageSize = 0
    <3>1. PICK p \in Nat \ {0} : p = PageSize
      BY Widths
    <3>2. p % p = 0
      BY <3>1
    <3> QED
      BY <3>1, <3>2
  <2>2. CacheBytes \in Nat \ {0} /\ PageSize % CacheBytes = 0 /\ PageSize \in Nat \ {0}
    BY BootAssumption, Widths
  <2> QED
    BY <2>1, <2>2
<1>2. PICK p \in Nat : p = PageSize
  BY Widths
<1>3. PICK k \in Nat : p = k * al
  <2>1. PICK k \in Nat : k = p \div al
    BY <1>1, DivBounds
  <2>2. p = al * k + (p % al)
    BY <1>1, <2>1
  <2>3. p = k * al
    BY <1>1, <1>2, <2>2
  <2> QED
    BY <2>3
<1>4. ASSUME NEW i \in Nat PROVE At(i) % al = 0
  <2>1. PICK j \in Nat : j = i * k
    OBVIOUS
  <2>2. At(i) = j * al
    BY <1>1, <1>2, <1>3, <2>1 DEF At
  <2>3. (j * al) % al = 0
    BY <1>1
  <2> QED
    BY <2>2, <2>3
<1> QED
  BY <1>1, <1>2, <1>3, <1>4

\* The pages of a block, and how far into the last it goes.
LEMMA LastPage ==
    ASSUME NEW z \in Nat \ {0}
    PROVE  /\ z % PageSize \in 0..(PageSize - 1)
           /\ z % PageSize # 0 => z = At(PagesUp(z) - 1) + (z % PageSize)
<1>1. PICK p \in Nat \ {0}, o \in Nat, k \in Int : p = PageSize /\ o = z % p /\ k = z \div p
  BY Widths
<1>2. z = p * k + o /\ o < p
  BY <1>1
<1>3. At(k) = p * k
  BY <1>1 DEF At
<1>4. PICK n \in Nat : n = PagesUp(z) /\ z <= At(n) /\ At(n - 1) < z
  BY RunPages
<1>5. ASSUME o # 0 PROVE k = n - 1
  <2>1. At(k) < At(n) /\ At(n - 1) < At(k) + p
    BY <1>2, <1>3, <1>4, <1>5, PageEdges
  <2>2. At(n - 1) < At(k + 1)
    BY <2>1, <1>1, PageEdges
  <2>3. k < n /\ n - 1 < k + 1
    BY <2>1, <2>2, PageOrder
  <2> QED
    BY <2>3
<1> QED
  BY <1>1, <1>2, <1>3, <1>4, <1>5

\* The end of a page touches that page only.
LEMMA TouchedEnd ==
    ASSUME NEW f \in Int, NEW o \in Nat, o < PageSize
    PROVE  Touched(At(f) + o, PageSize - o) \subseteq {f}
<1>1. PICK u \in Int, p \in Nat : u = At(f) /\ p = PageSize
  BY PageEdges, Widths
<1>2. Touched(u + o, p - o) \subseteq Int
  BY InTouched
<1>3. ASSUME NEW g \in Int, g \in Touched(u + o, p - o) PROVE g = f
  <2>1. PICK v \in Int : v = At(g)
    BY PageEdges
  <2>2. u + o < v + p /\ v < (u + o) + (p - o)
    BY <1>1, <1>3, <2>1, InTouched
  <2>3. u < v + p /\ v < u + p
    BY <2>2
  <2>4. At(f) < At(g + 1) /\ At(g) < At(f + 1)
    BY <1>1, <2>1, <2>3, PageEdges
  <2>5. f < g + 1 /\ g < f + 1
    BY <2>4, PageOrder
  <2> QED
    BY <2>5
<1> QED
  BY <1>1, <1>2, <1>3

\* An allocation that starts a page.
LEMMA FreshServes ==
    ASSUME NEW d, NEW used, NEW ram, NEW z \in Nat \ {0}, NEW al \in {CacheBytes, PageSize},
           Ready(d, used, ram), Runs(d, PagesUp(z)) # {}
    PROVE  Serves(d, Fresh(d, Find(d, z), z), used, ram, z, al)
<1>1. d \in Bootmems /\ Clear(d) \subseteq ram
  BY DEF Ready
<1>2. PICK n \in Nat \ {0} : n = PagesUp(z) /\ z <= At(n) /\ At(n - 1) < z
  BY RunPages
<1>3. PICK i \in Nat : i = Find(d, z) /\ \A f \in i..(i + n - 1) : f \in Clear(d)
  BY <1>1, <1>2, FoundRun
<1> DEFINE got == Fresh(d, i, z)
           a   == [start |-> At(i), size |-> z]
<1>4. At(i) \in Nat
  BY PageEdges
<1>5. TouchedBy(a) = i..(i + n - 1) /\ Sized(a)
  BY <1>2, <1>4, TouchedRun DEF TouchedBy, Sized
<1>6. TouchedBy(a) \subseteq Clear(d) /\ TouchedBy(a) \cap d.reserved = {}
  BY <1>3, <1>5 DEF Clear
<1>7. \A b \in used : Sized(b) /\ TouchedBy(b) \subseteq d.reserved
  BY DEF Ready
<1>8. \A b \in used : Apart(a, b)
  BY <1>5, <1>6, <1>7, PagesApart
<1>9. PICK o \in Nat : o = z % PageSize /\ o < PageSize
  BY Widths
<1>10. got = [addr |-> At(i),
              bd |-> [d EXCEPT !.reserved = @ \cup i..(i + n - 1), !.last_pos = i + n - 1, !.last_offset = o]]
  BY <1>2, <1>9 DEF Fresh, Granted, At
<1>11. /\ got.addr = At(i)
       /\ got.bd \in Bootmems /\ got.bd.start = d.start /\ got.bd.end = d.end
       /\ got.bd.node_bootmem_map = d.node_bootmem_map /\ got.bd.bug = d.bug
       /\ got.bd.reserved = d.reserved \cup i..(i + n - 1)
       /\ got.bd.last_pos = i + n - 1 /\ got.bd.last_offset = o
  <2>1. i..(i + n - 1) \subseteq Int /\ i + n - 1 \in Nat
    OBVIOUS
  <2> HIDE DEF got
  <2> QED
    BY <1>1, <1>10, <2>1 DEF Bootmems
<1>12. ASSUME o # 0
       PROVE  /\ i + n - 1 \in ram \cap got.bd.reserved
              /\ \A b \in used : Apart(Rest(got.bd), b)
              /\ Apart(Rest(got.bd), a)
  <2>1. i + n - 1 \in i..(i + n - 1)
    OBVIOUS
  <2>2. i + n - 1 \in ram
    BY <2>1, <1>1, <1>3
  <2>3. PICK f \in Nat : f = i + n - 1
    OBVIOUS
  <2>4. PICK u \in Nat : u = At(f)
    BY PageEdges
  <2>5. Rest(got.bd) = [start |-> u + o, size |-> PageSize - o]
    BY <1>11, <2>3, <2>4 DEF Rest
  <2>6. PICK r : r = [start |-> u + o, size |-> PageSize - o]
    OBVIOUS
  <2>7. Sized(r) /\ r.start = u + o /\ r.size = PageSize - o
    BY <1>9, <2>6, Widths DEF Sized
  <2>8. TouchedBy(r) \subseteq {f}
    BY <2>4, <2>7, <1>9, TouchedEnd DEF TouchedBy
  <2>9. f \in Clear(d) /\ f \notin d.reserved
    BY <1>3, <2>1, <2>3 DEF Clear
  <2>10. \A b \in used : Apart(r, b)
    BY <1>7, <2>7, <2>8, <2>9, PagesApart
  <2>11. Apart(r, a)
    <3>1. z = At(n - 1) + o
      <4>1. z % PageSize # 0
        BY <1>9, <1>12
      <4> QED
        BY <1>2, <1>9, <4>1, LastPage
    <3>2. At(i + (n - 1)) = At(i) + At(n - 1) /\ i + (n - 1) = f /\ At(n - 1) \in Int
      <4>1. PICK m \in Int : m = n - 1
        OBVIOUS
      <4>2. At(i + m) = At(i) + At(m)
        BY PageSums
      <4>3. At(m) \in Int
        BY PageEdges
      <4> QED
        BY <2>3, <4>1, <4>2, <4>3
    <3>7. a.start + a.size = u + o
      BY <3>1, <3>2, <2>4, <1>4
    <3> QED
      BY <2>7, <3>7, <1>4 DEF Apart
  <2> QED
    BY <1>11, <2>1, <2>2, <2>5, <2>6, <2>10, <2>11
<1>13. At(i) % al = 0
  BY AlignDivides
<1> HIDE DEF got
<1>14. PICK g : g = got
  OBVIOUS
<1>15. Serves(d, g, used, ram, z, al)
  <2>1. [start |-> g.addr, size |-> z] = a
    BY <1>11, <1>14
  <2>2. TouchedBy(a) \subseteq ram
    BY <1>1, <1>6
  <2> HIDE DEF a
  <2> QED
    BY <1>4, <1>5, <1>8, <1>9, <1>11, <1>12, <1>13, <1>14, <2>1, <2>2 DEF Serves
<1> QED
  BY <1>3, <1>14, <1>15 DEF got

\* A part of a block is apart from what the block is apart from.
LEMMA PartApart ==
    ASSUME NEW r, NEW a, NEW b, Sized(r), a.start \in Nat, a.size \in Nat, Sized(b), Apart(r, b),
           r.start <= a.start, a.start + a.size <= r.start + r.size
    PROVE  Apart(a, b)
  BY DEF Sized, Apart

LEMMA AlignFacts ==
    ASSUME NEW al \in {CacheBytes, PageSize}, NEW o \in Nat, o < PageSize
    PROVE  /\ Align(o, al) \in Nat /\ o <= Align(o, al) /\ Align(o, al) <= PageSize
           /\ \A i \in Nat : (At(i) + Align(o, al)) % al = 0
<1>1. al \in Nat \ {0} /\ \A i \in Nat : At(i) % al = 0
  BY AlignDivides
<1>2. PICK k \in Nat : PageSize = k * al
  BY AlignDivides
<1>3. PICK q \in Int : q = RoundUp(o, al)
  BY <1>1, RoundUpAtMost
<1>4. o <= q * al
  BY <1>1, <1>3, RoundUpAtMost
<1>5. q <= k
  BY <1>1, <1>2, <1>3, RoundUpAtMost, Widths
<1>6. q >= 0
  <2>1. -1 \in Int /\ (-1) * al < 0
    BY <1>1
  <2>2. ~ (q <= -1)
    BY <1>1, <1>3, <2>1, RoundUpAtMost
  <2> QED
    BY <2>2
<1>7. q * al \in Nat /\ q * al <= k * al
  BY <1>1, <1>5, <1>6
<1>8. Align(o, al) = q * al
  BY <1>3 DEF Align
<1>9. ASSUME NEW i \in Nat PROVE (At(i) + q * al) % al = 0
  <2>1. PICK c \in Nat : At(i) = c * al
    <3>1. PICK u \in Nat : u = At(i)
      BY PageEdges
    <3>2. PICK c \in Nat : c = u \div al
      BY <1>1, DivBounds
    <3>3. u = al * c + (u % al) /\ u % al = 0
      BY <1>1, <3>1, <3>2
    <3>4. u = c * al
      BY <1>1, <3>3
    <3> QED
      BY <3>1, <3>4
  <2>2. PICK e \in Nat : e = c + q
    BY <1>6
  <2>3. c * al + q * al = e * al
    BY <1>1, <1>6, <2>2
  <2>4. (e * al) % al = 0
    BY <1>1
  <2> QED
    BY <2>1, <2>3, <2>4
<1> QED
  BY <1>2, <1>4, <1>7, <1>8, <1>9

\* The end of a page that was clear is apart from what was in use.
LEMMA ClearEnd ==
    ASSUME NEW d, NEW used, NEW ram, NEW f \in Int, NEW o \in Nat, o < PageSize,
           Ready(d, used, ram), f \in Clear(d), f >= 0
    PROVE  \A b \in used : Apart([start |-> At(f) + o, size |-> PageSize - o], b)
<1>1. PICK u \in Nat : u = At(f)
  BY PageEdges
<1>2. PICK r : r = [start |-> u + o, size |-> PageSize - o]
  OBVIOUS
<1>3. Sized(r) /\ r.start = u + o /\ r.size = PageSize - o
  BY <1>2, Widths DEF Sized
<1>4. TouchedBy(r) \subseteq {f}
  BY <1>1, <1>3, TouchedEnd DEF TouchedBy
<1>5. f \notin d.reserved
  BY DEF Clear
<1>6. \A b \in used : Sized(b) /\ TouchedBy(b) \subseteq d.reserved
  BY DEF Ready
<1> QED
  BY <1>1, <1>2, <1>3, <1>4, <1>5, <1>6, PagesApart

GrantedTo(g, d, a, ps, pos, o) ==
    /\ g.addr = a
    /\ g.bd \in Bootmems /\ g.bd.start = d.start /\ g.bd.end = d.end
    /\ g.bd.node_bootmem_map = d.node_bootmem_map /\ g.bd.bug = d.bug
    /\ g.bd.reserved = d.reserved \cup ps
    /\ g.bd.last_pos = pos /\ g.bd.last_offset = o

LEMMA GrantedFacts ==
    ASSUME NEW d \in Bootmems, NEW a, NEW ps, ps \subseteq Int, NEW pos \in Nat, NEW o \in Nat
    PROVE  GrantedTo(Granted(d, a, ps, pos, o), d, a, ps, pos, o % PageSize)
<1>1. PICK m \in Nat : m = o % PageSize
  BY Widths
<1>2. PICK g : g = [addr |-> a, bd |-> [d EXCEPT !.reserved = @ \cup ps, !.last_pos = pos, !.last_offset = m]]
  OBVIOUS
<1>3. g.bd = [d EXCEPT !.reserved = @ \cup ps, !.last_pos = pos, !.last_offset = m] /\ g.addr = a
  BY <1>2
<1>4. GrantedTo(g, d, a, ps, pos, m)
  BY <1>3 DEF GrantedTo, Bootmems
<1> QED
  BY <1>1, <1>2, <1>4 DEF Granted

\* An allocation that fits in the page where the last one ended.
LEMMA SmallServes ==
    ASSUME NEW d, NEW used, NEW ram, NEW z \in Nat \ {0}, NEW al \in {CacheBytes, PageSize},
           NEW o \in Nat, o = Align(d.last_offset, al), o + z < PageSize,
           Ready(d, used, ram), d.last_offset # 0
    PROVE  Serves(d, Granted(d, At(d.last_pos) + o, {}, d.last_pos, o + z), used, ram, z, al)
<1>1. /\ d \in Bootmems /\ d.last_offset \in Nat /\ d.last_pos \in Nat
      /\ d.last_offset < PageSize /\ d.last_pos \in ram \cap d.reserved
      /\ \A b \in used : Sized(b) /\ Apart(Rest(d), b)
  BY DEF Ready, Bootmems
<1>2. PICK f \in Nat, u \in Nat, lo \in Nat : f = d.last_pos /\ u = At(f) /\ lo = d.last_offset
  <2>1. At(d.last_pos) \in Nat
    BY <1>1, PageEdges
  <2> QED
    BY <1>1, <2>1
<1>3. lo <= o /\ (u + o) % al = 0
  BY <1>1, <1>2, AlignFacts
<1>4. PICK r : r = [start |-> u + lo, size |-> PageSize - lo]
  OBVIOUS
<1>5. r = Rest(d) /\ Sized(r) /\ r.start = u + lo /\ r.size = PageSize - lo
  BY <1>1, <1>2, <1>4, Widths DEF Rest, Sized
<1>6. PICK a : a = [start |-> u + o, size |-> z]
  OBVIOUS
<1>7. PICK t : t = [start |-> u + (o + z), size |-> PageSize - (o + z)]
  OBVIOUS
<1>8. /\ Sized(a) /\ Sized(t) /\ a.start = u + o /\ a.size = z
      /\ t.start = u + (o + z) /\ t.size = PageSize - (o + z)
  BY <1>6, <1>7, Widths DEF Sized
<1>9. \A b \in used : Apart(a, b) /\ Apart(t, b)
  <2>1. /\ r.start <= a.start /\ a.start + a.size <= r.start + r.size
        /\ r.start <= t.start /\ t.start + t.size <= r.start + r.size
    BY <1>3, <1>5, <1>8, Widths
  <2>2. a.start \in Nat /\ a.size \in Nat /\ t.start \in Nat /\ t.size \in Nat
    BY <1>8 DEF Sized
  <2> QED
    BY <1>1, <1>5, <2>1, <2>2, PartApart
<1>10. Apart(t, a)
  BY <1>8 DEF Apart
<1>11. TouchedBy(a) \subseteq {f}
  <2>1. PICK e \in Nat : e = PageSize - o /\ z <= e
    BY Widths
  <2>2. Touched(u + o, e) \subseteq {f}
    BY <1>2, <2>1, TouchedEnd, Widths
  <2>3. Touched(u + o, z) \subseteq Touched(u + o, e)
    <3>1. Touched(u + o, z) \subseteq Int
      BY InTouched
    <3>2. ASSUME NEW g \in Int, g \in Touched(u + o, z) PROVE g \in Touched(u + o, e)
      <4>1. PICK v \in Int : v = At(g)
        BY PageEdges
      <4>2. u + o < v + PageSize /\ v < (u + o) + z
        BY <3>2, <4>1, InTouched
      <4>3. v < (u + o) + e
        BY <2>1, <4>2
      <4> QED
        BY <4>1, <4>2, <4>3, InTouched
    <3> QED
      BY <3>1, <3>2
  <2> QED
    BY <1>8, <2>2, <2>3 DEF TouchedBy
<1>12. (o + z) % PageSize = o + z
  BY Widths
<1>13. PICK got : got = Granted(d, u + o, {}, f, o + z)
  OBVIOUS
<1>14. /\ got.addr = u + o
       /\ got.bd \in Bootmems /\ got.bd.start = d.start /\ got.bd.end = d.end
       /\ got.bd.node_bootmem_map = d.node_bootmem_map /\ got.bd.bug = d.bug
       /\ got.bd.reserved = d.reserved
       /\ got.bd.last_pos = f /\ got.bd.last_offset = o + z
  <2>1. GrantedTo(got, d, u + o, {}, f, o + z)
    BY <1>1, <1>2, <1>12, <1>13, GrantedFacts
  <2> QED
    BY <2>1 DEF GrantedTo
<1>15. d.reserved = d.reserved \cup TouchedBy(a)
  BY <1>1, <1>2, <1>11
<1>16. Rest(got.bd) = t
  BY <1>2, <1>7, <1>14 DEF Rest
<1>17. [start |-> got.addr, size |-> z] = a
  BY <1>6, <1>14
<1>18. TouchedBy(a) \subseteq ram /\ f \in ram \cap got.bd.reserved
  BY <1>1, <1>2, <1>11, <1>14
<1>19. Serves(d, got, used, ram, z, al)
  BY <1>3, <1>9, <1>10, <1>14, <1>15, <1>16, <1>17, <1>18, Widths DEF Serves
<1> QED
  BY <1>2, <1>13, <1>19

\* Two blocks in a row, each apart from a block, are apart from it together.
LEMMA RowApart ==
    ASSUME NEW x \in Nat, NEW y \in Nat, NEW z \in Nat, NEW b, Sized(b),
           Apart([start |-> x, size |-> y], b), Apart([start |-> x + y, size |-> z], b)
    PROVE  Apart([start |-> x, size |-> y + z], b)
  BY DEF Sized, Apart

LEMMA PagesMonotone ==
    ASSUME NEW x \in Int, NEW y \in Int, x <= y
    PROVE  PagesUp(x) <= PagesUp(y) /\ Frame(x) <= Frame(y)
<1>1. PICK m \in Int, n \in Int : m = PagesUp(y) /\ n = Frame(x)
  BY PageOf
<1>2. y <= At(m) /\ At(n) <= x /\ At(m) \in Int /\ At(n) \in Int
  BY <1>1, PageOf, PageEdges
<1>3. x <= At(m) /\ At(n) <= y
  BY <1>2
<1> QED
  BY <1>1, <1>3, Pagewise

\* What the last page does not hold goes into the n pages behind it, from i on.
GoesOn(d, z, al, o, rest, i, n) ==
    /\ z \in Nat \ {0} /\ al \in {CacheBytes, PageSize}
    /\ o \in Nat /\ o = Align(d.last_offset, al) /\ o + z >= PageSize
    /\ rest \in Nat /\ rest = z - (PageSize - o)
    /\ i \in Nat /\ i = d.last_pos + 1 /\ n \in Nat /\ n = PagesUp(rest)
    /\ \A f \in i..(i + n - 1) : f \in Clear(d)

\* An allocation that continues where the last one ended and goes on in the pages behind.
LEMMA LongServes ==
    ASSUME NEW d, NEW used, NEW ram, NEW z, NEW al, NEW o, NEW rest, NEW i, NEW n,
           GoesOn(d, z, al, o, rest, i, n), Ready(d, used, ram), d.last_offset # 0
    PROVE  Serves(d, Granted(d, At(d.last_pos) + o, i..(i + n - 1), i + n - 1, rest), used, ram, z, al)
<1> USE DEF GoesOn
<1>0. i \in Int /\ rest \in Int /\ n \in Int
  OBVIOUS
<1>1. /\ d \in Bootmems /\ d.last_offset \in Nat /\ d.last_pos \in Nat
      /\ d.last_offset < PageSize /\ d.last_pos \in ram \cap d.reserved /\ Clear(d) \subseteq ram
      /\ \A b \in used : Sized(b) /\ Apart(Rest(d), b) /\ TouchedBy(b) \subseteq d.reserved
  BY DEF Ready, Bootmems
<1>2. PICK f \in Nat, u \in Nat, lo \in Nat : f = d.last_pos /\ u = At(f) /\ lo = d.last_offset
  <2>1. At(d.last_pos) \in Nat
    BY <1>1, PageEdges
  <2> QED
    BY <1>1, <2>1
<1>3. lo <= o /\ o <= PageSize /\ (u + o) % al = 0
  BY <1>1, <1>2, AlignFacts
<1>4. PICK v \in Nat : v = At(i) /\ v = u + PageSize /\ i = f + 1
  <2>1. At(f + 1) = u + PageSize /\ i = f + 1
    BY <1>2, PageEdges
  <2> QED
    BY <2>1, Widths
<1>5. PICK a : a = [start |-> u + o, size |-> z]
  OBVIOUS
<1>6. Sized(a) /\ a.start = u + o /\ a.size = z /\ a.start + a.size = v + rest /\ z = (PageSize - o) + rest
  BY <1>3, <1>4, <1>5, Widths DEF Sized
<1>7. PICK e \in Nat : e = PageSize - o
  BY <1>3, Widths
<1>8. ASSUME NEW b \in used PROVE Apart(a, b)
  <2>1. Sized(b) /\ Apart(Rest(d), b) /\ TouchedBy(b) \subseteq d.reserved
    BY <1>1
  <2>2. Rest(d) = [start |-> u + lo, size |-> PageSize - lo]
    BY <1>2 DEF Rest
  <2>3. Apart([start |-> u + o, size |-> e], b)
    BY <1>1, <1>2, <1>3, <1>7, <2>1, <2>2, Widths DEF Apart, Sized
  <2>4. Apart([start |-> v, size |-> rest], b)
    <3>1. CASE rest = 0
      BY <1>1, <1>2, <1>4, <3>1, <2>1, <2>2, Widths DEF Apart, Sized
    <3>2. CASE rest # 0
      <4>1. PICK c : c = [start |-> v, size |-> rest]
        OBVIOUS
      <4>2. Sized(c) /\ c.start = v /\ c.size = rest
        BY <3>2, <4>1 DEF Sized
      <4>3. TouchedBy(c) = i..(i + n - 1)
        <5>1. Touched(At(i), rest) = i..(i + PagesUp(rest) - 1)
          BY TouchedRun
        <5> QED
          BY <1>4, <4>2, <5>1 DEF TouchedBy
      <4>4. TouchedBy(c) \cap TouchedBy(b) = {}
        BY <2>1, <4>3 DEF Clear
      <4> QED
        BY <2>1, <4>1, <4>2, <4>4, PagesApart
    <3> QED
      BY <3>1, <3>2
  <2>5. v = (u + o) + e
    BY <1>3, <1>4, <1>7, Widths
  <2>6. PICK x \in Nat : x = u + o
    OBVIOUS
  <2>7. Apart([start |-> x, size |-> e + rest], b)
    BY <2>1, <2>3, <2>4, <2>5, <2>6, RowApart
  <2>8. a = [start |-> x, size |-> e + rest]
    BY <1>5, <1>6, <1>7, <2>6
  <2> QED
    BY <2>7, <2>8
<1>9. TouchedBy(a) \subseteq {f} \cup i..(i + n - 1) /\ i..(i + n - 1) \subseteq TouchedBy(a)
  <2>1. ASSUME NEW g \in Int
        PROVE  (g \in Touched(u + o, z) => g \in {f} \cup i..(i + n - 1)) /\
               (g \in i..(i + n - 1) => g \in Touched(u + o, z))
    <3>0. g - i \in Int
      BY <1>0
    <3>1. PICK w \in Int, x \in Int : w = At(g) /\ x = At(g - i)
      <4>1. At(g) \in Int
        BY PageEdges
      <4>2. At(g - i) \in Int
        BY <3>0, PageEdges
      <4> QED
        BY <4>1, <4>2
    <3>2. g \in Touched(u + o, z) <=> u + o < w + PageSize /\ w < (u + o) + z
      BY <3>1, InTouched
    <3>3. (u + o) + z = v + rest
      BY <1>6
    <3>4. w = v + x
      <4>1. At(i + (g - i)) = At(i) + At(g - i)
        BY <1>0, <3>0, PageSums
      <4>2. i + (g - i) = g
        OBVIOUS
      <4> QED
        BY <1>4, <3>1, <4>1, <4>2
    <3>5. n <= g - i <=> rest <= x
      BY <1>0, <3>0, <3>1, Pagewise
    <3>6. f < g + 1 <=> u < w + PageSize
      <4>1. g + 1 \in Int /\ At(g + 1) = w + PageSize
        BY <3>1, PageEdges
      <4>2. f < g + 1 <=> At(f) < At(g + 1)
        BY <4>1, PageOrder
      <4> QED
        BY <1>2, <4>1, <4>2
    <3>7. i <= g <=> v <= w
      BY <1>4, <3>1, PageOrder
    <3>8. ASSUME g \in Touched(u + o, z) PROVE g \in {f} \cup i..(i + n - 1)
      <4>1. f < g + 1 /\ ~(n <= g - i)
        BY <3>2, <3>3, <3>4, <3>5, <3>6, <3>8, Widths
      <4> QED
        BY <4>1, <1>4
    <3>9. ASSUME g \in i..(i + n - 1) PROVE g \in Touched(u + o, z)
      <4>1. v <= w /\ ~(rest <= x)
        BY <3>5, <3>7, <3>9
      <4>2. u + o < w + PageSize /\ w < v + rest
        BY <1>3, <1>4, <3>4, <4>1, Widths
      <4> QED
        BY <3>2, <3>3, <4>2
    <3> QED
      BY <3>8, <3>9
  <2>2. Touched(u + o, z) \subseteq Int /\ i..(i + n - 1) \subseteq Int
    BY InTouched
  <2> QED
    BY <1>6, <2>1, <2>2 DEF TouchedBy
<1>10. PICK s \in Nat : s = rest % PageSize /\ s < PageSize
  <2>1. PICK p \in Nat \ {0} : p = PageSize
    BY Widths
  <2>2. rest % p \in Nat /\ rest % p < p
    BY <2>1
  <2> QED
    BY <2>1, <2>2
<1>11. PICK m \in Nat : m = i + n - 1 /\ m = f + n
  BY <1>4
<1>12. PICK got : got = Granted(d, u + o, i..(i + n - 1), m, rest)
  OBVIOUS
<1>13. /\ got.addr = u + o
       /\ got.bd \in Bootmems /\ got.bd.start = d.start /\ got.bd.end = d.end
       /\ got.bd.node_bootmem_map = d.node_bootmem_map /\ got.bd.bug = d.bug
       /\ got.bd.reserved = d.reserved \cup i..(i + n - 1)
       /\ got.bd.last_pos = m /\ got.bd.last_offset = s
  <2>1. i..(i + n - 1) \subseteq Int
    OBVIOUS
  <2>2. GrantedTo(got, d, u + o, i..(i + n - 1), m, s)
    BY <1>1, <1>10, <1>12, <2>1, GrantedFacts
  <2> QED
    BY <2>2 DEF GrantedTo
<1>14. got.bd.reserved = d.reserved \cup TouchedBy(a)
  BY <1>1, <1>2, <1>9, <1>13
<1>15. TouchedBy(a) \subseteq ram
  BY <1>1, <1>2, <1>9
<1>16. ASSUME s # 0
       PROVE  /\ m \in ram \cap got.bd.reserved
              /\ \A b \in used : Apart(Rest(got.bd), b)
              /\ Apart(Rest(got.bd), a)
  <2>1. rest # 0
    <3>1. PICK p \in Nat \ {0} : p = PageSize
      BY Widths
    <3>2. 0 % p = 0
      BY <3>1
    <3> QED
      BY <1>10, <1>16, <3>1, <3>2
  <2>2. n # 0 /\ rest = At(n - 1) + s
    BY <1>10, <1>16, <2>1, RunPages, LastPage
  <2>3. m \in i..(i + n - 1)
    BY <1>11, <2>2
  <2>4. Rest(got.bd) = [start |-> At(m) + s, size |-> PageSize - s]
    BY <1>13 DEF Rest
  <2>5. \A b \in used : Apart(Rest(got.bd), b)
    BY <1>10, <2>3, <2>4, ClearEnd
  <2>6. Apart(Rest(got.bd), a)
    <3>1. PICK k \in Int : k = n - 1 /\ i + k = m
      BY <1>11
    <3>2. At(i + k) = At(i) + At(k)
      BY <1>0, PageSums
    <3>3. PICK x \in Int : x = At(k)
      BY PageEdges
    <3>4. At(m) + s = v + rest
      BY <1>4, <2>2, <3>1, <3>2, <3>3
    <3> QED
      BY <1>6, <2>4, <3>4, <1>10, Widths DEF Apart
  <2> QED
    BY <1>1, <1>13, <2>3, <2>5, <2>6
<1>17. [start |-> got.addr, size |-> z] = a
  BY <1>5, <1>13
<1>18. Serves(d, got, used, ram, z, al)
  BY <1>3, <1>8, <1>10, <1>13, <1>14, <1>15, <1>16, <1>17 DEF Serves
<1> QED
  BY <1>2, <1>11, <1>12, <1>18

\* What __alloc_bootmem_core returns.
LEMMA AllocServes ==
    ASSUME NEW d, NEW used, NEW ram, NEW z \in Nat \ {0}, NEW al \in {CacheBytes, PageSize},
           Ready(d, used, ram), Runs(d, PagesUp(z)) # {}
    PROVE  Serves(d, AllocBootmem(d, z, al), used, ram, z, al)
<1>1. d \in Bootmems /\ d.last_offset \in Nat /\ d.last_pos \in Nat
  BY DEF Ready, Bootmems
<1>2. PICK n \in Nat \ {0} : n = PagesUp(z)
  BY RunPages
<1>3. PICK i \in Nat : i = Find(d, z) /\ \A f \in i..(i + n - 1) : f \in Clear(d)
  BY <1>1, <1>2, FoundRun
<1>4. CASE ~ Merges(d, i, al)
  <2>1. AllocBootmem(d, z, al) = Fresh(d, Find(d, z), z)
    BY <1>3, <1>4 DEF AllocBootmem
  <2> QED
    BY <2>1, FreshServes
<1>5. CASE Merges(d, i, al)
  <2>1. d.last_offset # 0 /\ i = d.last_pos + 1 /\ d.last_offset < PageSize
    BY <1>5 DEF Merges, Ready
  <2>2. PICK o \in Nat : o = Align(d.last_offset, al) /\ o <= PageSize
    BY <1>1, <2>1, AlignFacts
  <2>3. PICK t \in Int : t = z - (PageSize - o)
    BY Widths
  <2>4. AllocBootmem(d, z, al) = Continue(d, i, z, al)
    BY <1>3, <1>5 DEF AllocBootmem
  <2>5. CASE t < 0
    <3>1. Continue(d, i, z, al) = Granted(d, d.last_pos * PageSize + o, {}, d.last_pos, o + z)
      BY <2>2, <2>3, <2>5 DEF Continue
    <3>2. d.last_pos * PageSize = At(d.last_pos)
      BY DEF At
    <3>3. o + z < PageSize
      BY <2>2, <2>3, <2>5, Widths
    <3>4. Serves(d, Granted(d, At(d.last_pos) + o, {}, d.last_pos, o + z), used, ram, z, al)
      BY <2>1, <2>2, <3>3, SmallServes
    <3> QED
      BY <2>4, <3>1, <3>2, <3>4
  <2>6. CASE t >= 0
    <3>1. PICK rest \in Nat, m \in Nat : rest = t /\ m = PagesUp(t)
      <4>1. t \in Nat
        BY <2>6
      <4>2. PagesUp(t) \in Nat
        BY <4>1, PageOf
      <4> QED
        BY <4>1, <4>2
    <3>2. Continue(d, i, z, al) =
            Granted(d, d.last_pos * PageSize + o, i..(i + m - 1), i + m - 1, rest)
      BY <2>2, <2>3, <2>6, <3>1 DEF Continue
    <3>3. d.last_pos * PageSize = At(d.last_pos)
      BY DEF At
    <3>4. o + z >= PageSize /\ rest = z - (PageSize - o) /\ rest <= z
      BY <2>2, <2>3, <3>1, Widths
    <3>5. m <= n
      BY <1>2, <3>1, <3>4, PagesMonotone
    <3>6. \A f \in i..(i + m - 1) : f \in Clear(d)
      BY <1>3, <3>5
    <3>7. m = PagesUp(rest)
      BY <3>1
    <3>8. Serves(d, Granted(d, At(d.last_pos) + o, i..(i + m - 1), i + m - 1, rest), used, ram, z, al)
      <4>1. GoesOn(d, z, al, o, rest, i, m)
        BY <2>1, <2>2, <3>4, <3>6, <3>7 DEF GoesOn
      <4> QED
        BY <2>1, <4>1, LongServes
    <3> QED
      BY <2>4, <3>2, <3>3, <3>8
  <2> QED
    BY <2>5, <2>6
<1> QED
  BY <1>4, <1>5

(****************************************************************************)
(* Loops, and sets of numbers.                                              *)
(****************************************************************************)
\* A set of natural numbers that is not empty has a least element.
LEMMA LeastElement ==
    ASSUME NEW S, S \subseteq Nat, S # {}
    PROVE  \E m \in S : \A k \in S : m <= k
<1>1. PICK m \in S : \A k \in S : ~ (<<k, m>> \in OpToRel(<, Nat))
  BY NatLessThanWellFounded, WFMin
<1>2. \A k \in S : ~(k < m)
  BY <1>1, Zenon DEF OpToRel
<1> QED
  BY <1>2

\* One that is bounded has a greatest.
LEMMA GreatestElement ==
    ASSUME NEW S, S \subseteq Nat, S # {}, NEW c \in Nat, \A k \in S : k <= c
    PROVE  \E m \in S : \A k \in S : k <= m
<1>1. PICK T : T = {c - k : k \in S}
  OBVIOUS
<1>2. T \subseteq Nat /\ T # {}
  <2>1. \A k \in S : c - k \in Nat
    OBVIOUS
  <2> QED
    BY <1>1, <2>1
<1>3. PICK t \in T : \A k \in T : t <= k
  BY <1>2, LeastElement
<1>4. PICK m \in S : t = c - m
  BY <1>1, <1>3
<1>5. ASSUME NEW k \in S PROVE k <= m
  <2>1. c - k \in T
    BY <1>1
  <2> QED
    BY <1>3, <1>4, <2>1
<1> QED
  BY <1>4, <1>5

\* Nothing that holds at 0 and of each number after one that it holds of, up to m, fails there.
LEMMA UpTo ==
    ASSUME NEW m \in Nat, NEW G, 0 \in G, \A i \in 1..m : i - 1 \in G => i \in G
    PROVE  \A i \in 0..m : i \in G
<1> DEFINE Bad == (0..m) \ G
<1>1. SUFFICES ASSUME Bad # {} PROVE FALSE
  OBVIOUS
<1>2. Bad \subseteq Nat
  OBVIOUS
<1>3. PICK k \in Bad : \A j \in Bad : k <= j
  <2> HIDE DEF Bad
  <2> QED
    BY <1>1, <1>2, LeastElement
<1>4. k \in 1..m /\ k - 1 \in 0..m /\ ~(k <= k - 1)
  BY <1>3
<1>5. k - 1 \in G
  BY <1>3, <1>4
<1> QED
  BY <1>3, <1>4, <1>5

\* A loop goes on from the state it was in.
Loop(m, S, start, step) == m \in Nat /\ start \in S /\ step \in [1..m -> [S -> S]]
Run(f, m, S, start, step) ==
    f \in [0..m -> S] /\ f[0] = start /\ \A i \in 1..m : f[i] = step[i][f[i - 1]]

LEMMA Recursion ==
    ASSUME NEW m, NEW S, NEW start, NEW step, Loop(m, S, start, step)
    PROVE  \E f : Run(f, m, S, start, step)
<1>0. m \in Nat /\ start \in S /\ step \in [1..m -> [S -> S]]
  BY DEF Loop
<1> DEFINE Reaches(k, f) == f[0] = start /\ \A i \in 1..k : f[i] = step[i][f[i - 1]]
           G == {k \in 0..m : \E f \in [0..m -> S] : Reaches(k, f)}
<1>1. 0 \in G
  <2>1. [i \in 0..m |-> start] \in [0..m -> S] /\ 0 \in 0..m
    BY <1>0
  <2>2. Reaches(0, [i \in 0..m |-> start])
    BY <1>0
  <2> HIDE DEF Reaches
  <2> QED
    BY <2>1, <2>2
<1>2. ASSUME NEW k \in 1..m, k - 1 \in G
      PROVE  k \in G
  <2>1. PICK f \in [0..m -> S] : Reaches(k - 1, f)
    BY <1>2
  <2>2. PICK g : g = [f EXCEPT ![k] = step[k][f[k - 1]]]
    OBVIOUS
  <2>3. k - 1 \in 0..m /\ k \in 0..m /\ f[k - 1] \in S /\ step[k][f[k - 1]] \in S
    BY <1>0
  <2>4. g \in [0..m -> S]
    BY <2>2, <2>3
  <2>5. \A i \in 0..(k - 1) : g[i] = f[i]
    BY <1>0, <2>2
  <2>6. g[k] = step[k][g[k - 1]]
    BY <2>2, <2>3, <2>5
  <2>7. g[0] = start
    BY <2>1, <2>5
  <2>8. ASSUME NEW i \in 1..k
        PROVE  g[i] = step[i][g[i - 1]]
    <3>1. CASE i = k
      BY <2>6, <3>1
    <3>2. CASE i # k
      <4>1. i \in 1..(k - 1) /\ i \in 0..(k - 1) /\ i - 1 \in 0..(k - 1)
        BY <3>2
      <4>2. f[i] = step[i][f[i - 1]]
        BY <2>1, <4>1
      <4> QED
        BY <4>1, <4>2, <2>5
    <3> QED
      BY <3>1, <3>2
  <2>9. Reaches(k, g)
    BY <2>7, <2>8
  <2> HIDE DEF Reaches
  <2> QED
    BY <2>3, <2>4, <2>9
<1>3. m \in G
  <2> HIDE DEF G
  <2>1. \A i \in 0..m : i \in G
    BY <1>0, <1>1, <1>2, UpTo
  <2> QED
    BY <1>0, <2>1
<1> QED
  BY <1>3 DEF Run

(****************************************************************************)
(* The layout.                                                              *)
(****************************************************************************)
BankType == [start : Nat, size : Nat]

\* The bank of DMA and Normal memory that the probe appends.
ProbedBank == Bank(Base * PageSize, (DmaFrames + NormalFrames) * PageSize)

ProbedIn(banks) == \E k \in 1..Len(banks) : banks[k] = ProbedBank

\* It is still to be parsed, or is in meminfo and stays there; so with a bank of high memory.
Parsing ==
    /\ args \in Seq([kind : {"mem", "high"}, bank : BankType])
    /\ mem \in Seq(BankType) /\ high \in Seq(BankType) /\ initrd \in BankType
    /\ \/ \E k \in 1..Len(args) : args[k].kind = "mem" /\ args[k].bank = ProbedBank
       \/ "mem" \in seen /\ ProbedIn(mem)
    /\ \/ \E k \in 1..Len(args) : args[k].kind = "high"
       \/ Len(high) > 0
    /\ stage # "cmdline" => args = <<>>

LEMMA SeqParts ==
    ASSUME NEW S, NEW s \in Seq(S)
    PROVE  /\ Len(s) \in Nat /\ DOMAIN s = 1..Len(s) /\ \A k \in 1..Len(s) : s[k] \in S
           /\ s # <<>> => /\ Len(s) > 0 /\ Head(s) = s[1] /\ Head(s) \in S
                          /\ Tail(s) \in Seq(S) /\ Len(Tail(s)) = Len(s) - 1
                          /\ \A k \in 1..(Len(s) - 1) : Tail(s)[k] = s[k + 1]
           /\ \A e \in S : /\ Append(s, e) \in Seq(S) /\ Len(Append(s, e)) = Len(s) + 1
                           /\ Append(s, e)[Len(s) + 1] = e
                           /\ \A k \in 1..Len(s) : Append(s, e)[k] = s[k]
<1>1. Len(s) \in Nat /\ DOMAIN s = 1..Len(s) /\ \A k \in 1..Len(s) : s[k] \in S
  OBVIOUS
<1>2. ASSUME s # <<>>
      PROVE  /\ Len(s) > 0 /\ Head(s) = s[1] /\ Head(s) \in S
             /\ Tail(s) \in Seq(S) /\ Len(Tail(s)) = Len(s) - 1
             /\ \A k \in 1..(Len(s) - 1) : Tail(s)[k] = s[k + 1]
  BY <1>2
<1>3. ASSUME NEW e \in S
      PROVE  /\ Append(s, e) \in Seq(S) /\ Len(Append(s, e)) = Len(s) + 1
             /\ Append(s, e)[Len(s) + 1] = e
             /\ \A k \in 1..Len(s) : Append(s, e)[k] = s[k]
  OBVIOUS
<1> QED
  BY <1>1, <1>2, <1>3

Joined(c, s, t, S) ==
    /\ c \in Seq(S) /\ Len(c) = Len(s) + Len(t)
    /\ \A k \in 1..Len(t) : c[Len(s) + k] = t[k]

LEMMA Joins ==
    ASSUME NEW S, NEW s \in Seq(S), NEW t \in Seq(S)
    PROVE  Joined(s \o t, s, t, S)
  BY DEF Joined

LEMMA ProbedType ==
    /\ ProbedBank \in BankType /\ ProbedBank.start = At(Base)
    /\ ProbedBank.size = At(DmaFrames + NormalFrames) /\ ProbedBank.size > 0
    /\ DmaFrames \in Nat /\ NormalFrames \in Nat /\ Base \in Nat
<1>1. DmaFrames \in Nat /\ NormalFrames \in Nat /\ Base \in Nat /\ DmaFrames + NormalFrames > 0
  BY BootAssumption
<1>2. PICK n \in Nat : n = DmaFrames + NormalFrames
  BY <1>1
<1>3. At(Base) \in Nat /\ At(n) \in Nat
  BY <1>1, PageEdges
<1>4. At(0) < At(n) /\ At(0) = 0
  <2>1. 0 < n
    BY <1>1, <1>2
  <2> QED
    BY <2>1, PageOrder, PageEdges
<1> QED
  BY <1>1, <1>2, <1>3, <1>4 DEF ProbedBank, Bank, BankType, At

LEMMA ParsingInit == BootInit => Parsing
<1> SUFFICES ASSUME BootInit PROVE Parsing
  OBVIOUS
<1> DEFINE A == [kind : {"mem", "high"}, bank : BankType]
<1>1. PICK user \in UserArgs, z \in HighSizes : args = user \o Probed(z)
  BY DEF BootInit
<1>2. z \in Nat /\ user \in Seq(A)
  BY BootAssumption DEF BankType
<1>3. PICK p : p = Probed(z)
  OBVIOUS
<1>4. p = <<Arg("mem", Base * PageSize, (DmaFrames + NormalFrames) * PageSize),
            Arg("high", Base * PageSize + (DmaFrames + NormalFrames) * PageSize, z)>>
  BY <1>3 DEF Probed
<1>5. (Base * PageSize) + (DmaFrames + NormalFrames) * PageSize \in Nat
  BY ProbedType DEF BankType, ProbedBank, Bank
<1>6. PICK e : e = Arg("mem", Base * PageSize, (DmaFrames + NormalFrames) * PageSize)
  OBVIOUS
<1>7. PICK h : h = Arg("high", Base * PageSize + (DmaFrames + NormalFrames) * PageSize, z)
  OBVIOUS
<1>8. e \in A /\ e.kind = "mem" /\ e.bank = ProbedBank
  BY <1>6, ProbedType DEF Arg, ProbedBank
<1>9. h \in A /\ h.kind = "high"
  BY <1>2, <1>5, <1>7 DEF Arg, Bank, BankType
<1>10. p = <<e, h>>
  BY <1>4, <1>6, <1>7
<1> HIDE DEF A
<1>11. p \in Seq(A) /\ Len(p) = 2 /\ p[1] = e /\ p[2] = h
  BY <1>8, <1>9, <1>10
<1>12. /\ args \in Seq(A) /\ Len(args) = Len(user) + 2 /\ Len(user) \in Nat
       /\ args[Len(user) + 1] = e /\ args[Len(user) + 2] = h
  <2>1. args = user \o p /\ Len(user) \in Nat
    BY <1>1, <1>2, <1>3, SeqParts
  <2>2. /\ args \in Seq(A) /\ Len(args) = Len(user) + Len(p)
        /\ \A k \in 1..Len(p) : args[Len(user) + k] = p[k]
    <3>1. Joined(user \o p, user, p, A)
      BY <1>2, <1>11, Joins
    <3>2. Joined(args, user, p, A)
      BY <2>1, <3>1
    <3> QED
      BY <3>2 DEF Joined
  <2>3. /\ Len(args) = Len(user) + 2
        /\ \A k \in 1..Len(p) : args[Len(user) + k] = p[k]
    BY <1>11, <2>2
  <2>4. args[Len(user) + 1] = p[1] /\ args[Len(user) + 2] = p[2]
    BY <1>11, <2>3
  <2> QED
    BY <1>11, <2>1, <2>2, <2>4
<1>13. Len(user) + 1 \in 1..Len(args) /\ Len(user) + 2 \in 1..Len(args)
  BY <1>12
<1>14. mem = <<>> /\ high = <<>> /\ initrd \in BankType /\ stage = "cmdline"
  BY BootAssumption DEF BootInit, BankType
<1>15. mem \in Seq(BankType) /\ high \in Seq(BankType)
  BY <1>14
<1> QED
  BY <1>8, <1>9, <1>12, <1>13, <1>14, <1>15 DEF Parsing, A

LEMMA ParsedType ==
    ASSUME NEW kind, NEW banks \in Seq(BankType), Head(args).bank \in BankType
    PROVE  /\ Parsed(kind, banks) \in Seq(BankType) /\ Len(Parsed(kind, banks)) > 0
           /\ Parsed(kind, banks)[Len(Parsed(kind, banks))] = Head(args).bank
           /\ kind \in seen => \A k \in 1..Len(banks) : k \in 1..Len(Parsed(kind, banks)) /\ Parsed(kind, banks)[k] = banks[k]
<1>1. PICK s : s = IF kind \in seen THEN banks ELSE <<>>
  OBVIOUS
<1>2. s \in Seq(BankType) /\ (kind \in seen => s = banks)
  BY <1>1
<1>3. PICK b : b = Head(args).bank
  OBVIOUS
<1>4. PICK t : t = Append(s, b)
  OBVIOUS
<1>5. /\ t \in Seq(BankType) /\ Len(t) = Len(s) + 1 /\ Len(s) \in Nat /\ t[Len(s) + 1] = b
      /\ \A k \in 1..Len(s) : t[k] = s[k]
  BY <1>2, <1>3, <1>4, SeqParts
<1>6. Parsed(kind, banks) = t
  BY <1>1, <1>3, <1>4 DEF Parsed
<1> QED
  BY <1>2, <1>3, <1>5, <1>6

LEMMA ParsingArg == ASSUME Parsing, ParseArg PROVE Parsing'
<1> DEFINE A == [kind : {"mem", "high"}, bank : BankType]
           e == Head(args)
<1>1. args \in Seq(A) /\ args # <<>> /\ mem \in Seq(BankType) /\ high \in Seq(BankType) /\ initrd \in BankType
  BY DEF Parsing, ParseArg
<1>2. /\ args' \in Seq(A) /\ Len(args') = Len(args) - 1 /\ e \in A /\ args[1] = e /\ Len(args) \in Nat /\ Len(args) > 0
      /\ \A k \in 1..Len(args') : args'[k] = args[k + 1]
  <2> HIDE DEF A
  <2> QED
    BY <1>1, SeqParts DEF ParseArg
<1>3. /\ seen' = seen \cup {e.kind} /\ stage' = stage /\ stage = "cmdline" /\ initrd' = initrd
      /\ mem'  = IF e.kind = "mem" THEN Parsed(e.kind, mem) ELSE mem
      /\ high' = IF e.kind = "high" THEN Parsed(e.kind, high) ELSE high
  BY DEF ParseArg
<1>4. e.bank \in BankType /\ e.kind \in {"mem", "high"}
  BY <1>2
<1>5. mem' \in Seq(BankType)
  BY <1>1, <1>3, <1>4, ParsedType
<1>6. high' \in Seq(BankType) /\ (Len(high) > 0 => Len(high') > 0) /\ (e.kind = "high" => Len(high') > 0)
  BY <1>1, <1>3, <1>4, ParsedType
<1>7. \A k \in 1..Len(args) : k = 1 \/ (k - 1 \in 1..Len(args') /\ args'[k - 1] = args[k])
  <2>1. ASSUME NEW k \in 1..Len(args), k # 1
        PROVE  k - 1 \in 1..Len(args') /\ args'[k - 1] = args[k]
    <3>1. PICK j \in Nat : j = k - 1 /\ j \in 1..Len(args') /\ j + 1 = k
      BY <1>2, <2>1
    <3> QED
      BY <1>2, <3>1
  <2> QED
    BY <2>1
<1>8. \/ \E k \in 1..Len(args') : args'[k].kind = "high"
      \/ Len(high') > 0
  BY <1>2, <1>6, <1>7 DEF Parsing
<1>9. \/ \E k \in 1..Len(args') : args'[k].kind = "mem" /\ args'[k].bank = ProbedBank
      \/ "mem" \in seen' /\ ProbedIn(mem')
  <2>1. CASE \E k \in 1..Len(args) : k # 1 /\ args[k].kind = "mem" /\ args[k].bank = ProbedBank
    BY <1>7, <2>1
  <2>2. CASE e.kind = "mem" /\ e.bank = ProbedBank
    <3>1. mem' = Parsed(e.kind, mem) /\ "mem" \in seen'
      BY <1>3, <2>2
    <3>2. Len(mem') > 0 /\ mem'[Len(mem')] = ProbedBank
      BY <1>1, <1>4, <2>2, <3>1, ParsedType
    <3>3. Len(mem') \in Nat
      BY <1>5, SeqParts
    <3>4. Len(mem') \in 1..Len(mem')
      BY <3>2, <3>3
    <3> QED
      BY <3>1, <3>2, <3>4 DEF ProbedIn
  <2>3. CASE "mem" \in seen /\ ProbedIn(mem)
    <3>1. CASE e.kind = "mem"
      <4>1. \A k \in 1..Len(mem) : k \in 1..Len(mem') /\ mem'[k] = mem[k]
        BY <1>1, <1>3, <1>4, <2>3, <3>1, ParsedType
      <4> QED
        BY <1>3, <2>3, <4>1 DEF ProbedIn
    <3>2. CASE e.kind # "mem"
      BY <1>3, <2>3, <3>2
    <3> QED
      BY <3>1, <3>2
  <2> QED
    BY <1>2, <2>1, <2>2, <2>3 DEF Parsing
<1> QED
  BY <1>1, <1>2, <1>3, <1>5, <1>6, <1>8, <1>9 DEF Parsing

LEMMA WholePages ==
    ASSUME NEW f \in Int PROVE Frame(At(f)) = f /\ PagesUp(At(f)) = f
<1>1. PICK u \in Int : u = At(f)
  BY PageEdges
<1>2. PICK g \in Int, h \in Int : g = Frame(u) /\ h = PagesUp(u)
  BY PageOf
<1>3. At(g) <= u /\ u < At(g + 1) /\ u <= At(h) /\ At(h - 1) < u
  BY <1>2, PageOf
<1>4. g <= f /\ f < g + 1
  BY <1>1, <1>3, PageOrder
<1>5. f <= h /\ h - 1 < f
  BY <1>1, <1>3, PageOrder
<1> QED
  BY <1>1, <1>2, <1>4, <1>5

Laid ==
    /\ mem \in Seq(BankType) /\ high \in Seq(BankType) /\ initrd \in BankType
    /\ Len(high) > 0 /\ ProbedIn(mem)

LEMMA ParsingDone == Parsing /\ args = <<>> => Laid
<1> SUFFICES ASSUME Parsing, args = <<>> PROVE Laid
  OBVIOUS
<1>1. 1..Len(args) = {}
  OBVIOUS
<1> QED
  BY <1>1 DEF Parsing, Laid

LEMMA BankFacts ==
    ASSUME Laid
    PROVE  /\ Len(mem) \in Nat /\ Banks \subseteq 1..Len(mem) /\ Banks # {} /\ Banks \subseteq Nat
           /\ \A i \in 1..Len(mem) : mem[i] \in BankType
           /\ \A i \in Banks : /\ Sized(mem[i]) /\ mem[i] \in BankType
                               /\ StartPfn(mem[i]) \in Nat /\ EndPfn(mem[i]) \in Nat
           /\ high[1] \in BankType /\ high[1].start \in Nat /\ high[1].size \in Nat
           /\ Frame(high[1].size) \in Nat
           /\ \E k \in Banks : mem[k] = ProbedBank
<1>1. /\ Len(mem) \in Nat /\ DOMAIN mem = 1..Len(mem)
      /\ \A i \in 1..Len(mem) : mem[i] \in BankType
  BY SeqParts DEF Laid
<1>2. Banks \subseteq 1..Len(mem) /\ Banks \subseteq Nat
  BY <1>1 DEF Banks
<1>3. ASSUME NEW i \in Banks
      PROVE  /\ Sized(mem[i]) /\ mem[i] \in BankType
             /\ StartPfn(mem[i]) \in Nat /\ EndPfn(mem[i]) \in Nat
  <2>1. mem[i] \in BankType /\ mem[i].size > 0
    BY <1>1, <1>2 DEF Banks
  <2>2. PICK s \in Nat, z \in Nat : s = mem[i].start /\ z = mem[i].size /\ z > 0
    BY <2>1 DEF BankType
  <2>3. PagesUp(s) \in Nat /\ Frame(s + z) \in Nat
    BY PageOf
  <2> QED
    BY <2>1, <2>2, <2>3 DEF Sized, StartPfn, EndPfn
<1>4. high[1] \in BankType
  <2>1. 1 \in 1..Len(high)
    BY SeqParts DEF Laid
  <2> QED
    BY <2>1, SeqParts DEF Laid
<1>5. high[1].start \in Nat /\ high[1].size \in Nat
  BY <1>4 DEF BankType
<1>6. Frame(high[1].size) \in Nat
  BY <1>5, PageOf
<1>7. \E k \in Banks : mem[k] = ProbedBank
  <2>1. PICK k \in 1..Len(mem) : mem[k] = ProbedBank
    BY DEF Laid, ProbedIn
  <2> QED
    BY <1>1, <2>1, ProbedType DEF Banks
<1> QED
  BY <1>1, <1>2, <1>3, <1>4, <1>5, <1>6, <1>7

\* Something bounds the ends of the banks.
LEMMA EndsBounded ==
    ASSUME Laid
    PROVE  \E c \in Nat : \A i \in Banks : EndPfn(mem[i]) <= c
<1> DEFINE G == {n \in Nat : \E c \in Nat : \A i \in Banks : i <= n => EndPfn(mem[i]) <= c}
<1>1. Banks \subseteq 1..Len(mem) /\ Len(mem) \in Nat /\ \A i \in Banks : EndPfn(mem[i]) \in Nat
  BY BankFacts
<1>2. 0 \in G
  BY <1>1
<1>3. ASSUME NEW n \in 1..Len(mem), n - 1 \in G PROVE n \in G
  <2>1. PICK c \in Nat : \A i \in Banks : i <= n - 1 => EndPfn(mem[i]) <= c
    BY <1>3
  <2>2. CASE n \in Banks
    <3>1. PICK e \in Nat : e = EndPfn(mem[n])
      BY <1>1, <2>2
    <3>2. \A i \in Banks : i <= n => EndPfn(mem[i]) <= c + e
      <4>1. ASSUME NEW i \in Banks, i <= n PROVE EndPfn(mem[i]) <= c + e
        <5>1. i = n \/ i <= n - 1
          BY <1>1, <4>1
        <5>2. PICK x \in Nat : x = EndPfn(mem[i])
          BY <1>1
        <5> QED
          BY <2>1, <3>1, <5>1, <5>2
      <4> QED
        BY <4>1
    <3>3. c + e \in Nat /\ n \in Nat
      OBVIOUS
    <3> QED
      BY <3>2, <3>3
  <2>3. CASE n \notin Banks
    <3>1. \A i \in Banks : i <= n => i <= n - 1
      BY <1>1, <2>3
    <3> QED
      BY <2>1, <3>1
  <2> QED
    BY <2>2, <2>3
<1>4. Len(mem) \in G
  <2> HIDE DEF G
  <2>1. \A i \in 0..Len(mem) : i \in G
    BY <1>1, <1>2, <1>3, UpTo
  <2> QED
    BY <1>1, <2>1
<1>5. PICK c \in Nat : \A i \in Banks : i <= Len(mem) => EndPfn(mem[i]) <= c
  BY <1>4
<1> QED
  BY <1>1, <1>5

LEMMA Extent ==
    ASSUME Laid
    PROVE  /\ NodeStart \in Nat /\ Memend \in Nat /\ NodeEnd \in Nat
           /\ \A i \in Banks : NodeStart <= StartPfn(mem[i]) /\ EndPfn(mem[i]) <= Memend
           /\ \E i \in Banks : NodeStart = StartPfn(mem[i])
           /\ \E i \in Banks : Memend = EndPfn(mem[i])
           /\ NodeStart <= Base /\ Base + DmaFrames + NormalFrames <= Memend
           /\ NodeEnd = Memend + Frame(high[1].size)
<1>1. Banks # {} /\ \A i \in Banks : StartPfn(mem[i]) \in Nat /\ EndPfn(mem[i]) \in Nat
  BY BankFacts
<1>2. PICK S : S = {StartPfn(mem[i]) : i \in Banks}
  OBVIOUS
<1>3. PICK E : E = {EndPfn(mem[i]) : i \in Banks}
  OBVIOUS
<1>4. S \subseteq Nat /\ S # {} /\ E \subseteq Nat /\ E # {}
  BY <1>1, <1>2, <1>3
<1>5. NodeStart \in S /\ \A s \in S : NodeStart <= s
  <2>1. \E m \in S : \A s \in S : m <= s
    BY <1>4, LeastElement
  <2>2. NodeStart = CHOOSE m \in S : \A s \in S : m <= s
    BY <1>2 DEF NodeStart
  <2> QED
    BY <2>1, <2>2
<1>6. Memend \in E /\ \A e \in E : e <= Memend
  <2>0. PICK c \in Nat : \A i \in Banks : EndPfn(mem[i]) <= c
    BY EndsBounded
  <2>1. \E m \in E : \A e \in E : e <= m
    <3>1. \A e \in E : e <= c
      BY <1>3, <2>0
    <3> QED
      BY <1>4, <3>1, GreatestElement
  <2>2. Memend = CHOOSE e \in E : \A x \in E : x <= e
    BY <1>3 DEF Memend
  <2> QED
    BY <2>1, <2>2
<1>7. PICK k \in Banks : mem[k] = ProbedBank
  BY BankFacts
<1>8. PICK n \in Nat : n = DmaFrames + NormalFrames
  BY ProbedType
<1>9. StartPfn(mem[k]) = Base /\ EndPfn(mem[k]) = Base + n
  <2>1. ProbedBank.start = At(Base) /\ ProbedBank.size = At(n) /\ Base \in Int /\ n \in Int /\ Base + n \in Int
    BY <1>8, ProbedType
  <2>2. At(Base + n) = At(Base) + At(n)
    BY <2>1, PageSums
  <2>3. PagesUp(At(Base)) = Base /\ Frame(At(Base + n)) = Base + n
    BY <2>1, WholePages
  <2> QED
    BY <1>7, <2>1, <2>2, <2>3 DEF StartPfn, EndPfn
<1>10. NodeStart \in Nat /\ Memend \in Nat
  BY <1>4, <1>5, <1>6
<1>11. NodeStart <= Base /\ Base + n <= Memend
  <2>1. StartPfn(mem[k]) \in S /\ EndPfn(mem[k]) \in E
    BY <1>2, <1>3
  <2> QED
    BY <1>5, <1>6, <1>9, <2>1
<1>12. NodeEnd = Memend + Frame(high[1].size) /\ NodeEnd \in Nat
  BY <1>10, BankFacts DEF NodeEnd
<1>13. Base + DmaFrames + NormalFrames <= Memend
  BY <1>8, <1>10, <1>11, ProbedType
<1> QED
  BY <1>2, <1>3, <1>5, <1>6, <1>10, <1>11, <1>12, <1>13

\* What a free and a reservation change.
LEMMA FreeingType ==
    ASSUME NEW d \in Bootmems, NEW s \in Int, NEW z \in Int
    PROVE  /\ FreeBootmem(d, s, z) \in Bootmems
           /\ FreeBootmem(d, s, z).start = d.start /\ FreeBootmem(d, s, z).end = d.end
           /\ FreeBootmem(d, s, z).node_bootmem_map = d.node_bootmem_map
           /\ FreeBootmem(d, s, z).last_pos = d.last_pos /\ FreeBootmem(d, s, z).last_offset = d.last_offset
           /\ FreeBootmem(d, s, z).reserved = d.reserved \ Within(s, z)
           /\ FreeBootmem(d, s, z).bug = (d.bug \/ FreeBug(d, s, z))
<1>1. PICK q : q = FreeBug(d, s, z)
  OBVIOUS
<1>2. (d.bug \/ FreeBug(d, s, z)) \in BOOLEAN
  OBVIOUS
<1>3. PICK x : x = (d.bug \/ FreeBug(d, s, z)) /\ x \in BOOLEAN
  BY <1>2
<1>4. FreeBootmem(d, s, z) = [d EXCEPT !.reserved = d.reserved \ Within(s, z), !.bug = x]
  BY <1>3 DEF FreeBootmem, Bootmems
<1>5. d.reserved \ Within(s, z) \in SUBSET Int
  BY DEF Bootmems
<1> QED
  BY <1>3, <1>4, <1>5 DEF Bootmems

LEMMA ReservingType ==
    ASSUME NEW d \in Bootmems, NEW s \in Int, NEW z \in Int
    PROVE  /\ ReserveBootmem(d, s, z) \in Bootmems
           /\ ReserveBootmem(d, s, z).start = d.start /\ ReserveBootmem(d, s, z).end = d.end
           /\ ReserveBootmem(d, s, z).node_bootmem_map = d.node_bootmem_map
           /\ ReserveBootmem(d, s, z).last_pos = d.last_pos /\ ReserveBootmem(d, s, z).last_offset = d.last_offset
           /\ ReserveBootmem(d, s, z).reserved = d.reserved \cup Touched(s, z)
           /\ ReserveBootmem(d, s, z).bug = (d.bug \/ ReserveBug(d, s, z))
<1>2. (d.bug \/ ReserveBug(d, s, z)) \in BOOLEAN
  OBVIOUS
<1>3. PICK x : x = (d.bug \/ ReserveBug(d, s, z)) /\ x \in BOOLEAN
  BY <1>2
<1>4. ReserveBootmem(d, s, z) = [d EXCEPT !.reserved = d.reserved \cup Touched(s, z), !.bug = x]
  BY <1>3 DEF ReserveBootmem, Bootmems
<1>5. d.reserved \cup Touched(s, z) \in SUBSET Int
  BY InTouched DEF Bootmems
<1> QED
  BY <1>3, <1>4, <1>5 DEF Bootmems

LEMMA FramesFreed ==
    ASSUME NEW b PROVE FramesOf(b) = Within(b.start, b.size)
  BY DEF FramesOf, StartPfn, EndPfn, Within

\* The node with every frame of the banks before the nth, and of the nth, free.
RegisteredTo(d, map, n) ==
    /\ d \in Bootmems
    /\ d.start = NodeStart /\ d.end = NodeEnd /\ d.node_bootmem_map = map
    /\ d.last_offset = 0
    /\ d.reserved = (NodeStart..(NodeEnd - 1)) \ UNION {FramesOf(mem[i]) : i \in {k \in Banks : k <= n}}

LEMMA RegistersBanks ==
    ASSUME Laid, NEW map \in Nat
    PROVE  \E d : RegisteredTo(d, map, Len(mem)) /\ Registered(map) = Freeing(d, high[1])
<1>1. Len(mem) \in Nat /\ \A i \in 1..Len(mem) : mem[i] \in BankType
  BY BankFacts
<1>2. PICK start : start = Node(NodeStart, NodeEnd, map)
  OBVIOUS
<1>3. /\ start \in Bootmems /\ start.start = NodeStart /\ start.end = NodeEnd
      /\ start.node_bootmem_map = map /\ start.last_offset = 0
      /\ start.reserved = NodeStart..(NodeEnd - 1)
  <2>1. NodeStart \in Nat /\ NodeEnd \in Nat
    BY Extent
  <2>2. NodeStart..(NodeEnd - 1) \subseteq Int
    BY <2>1
  <2> QED
    BY <1>2, <2>1, <2>2 DEF Node, Bootmems
<1>4. PICK step : step = [i \in 1..Len(mem) |-> [d \in Bootmems |-> IF i \in Banks THEN Freeing(d, mem[i]) ELSE d]]
  OBVIOUS
<1>5. step \in [1..Len(mem) -> [Bootmems -> Bootmems]]
  <2>1. ASSUME NEW i \in 1..Len(mem), NEW d \in Bootmems PROVE Freeing(d, mem[i]) \in Bootmems
    <3>1. mem[i].start \in Int /\ mem[i].size \in Int
      BY <1>1 DEF BankType
    <3> QED
      BY <3>1, FreeingType DEF Freeing
  <2> QED
    BY <1>4, <2>1
<1>6. Loop(Len(mem), Bootmems, start, step)
  BY <1>1, <1>3, <1>5 DEF Loop
<1> DEFINE Coming(f) == f = [n \in 0..Len(mem) |->
                               IF n = 0 THEN Node(NodeStart, NodeEnd, map)
                               ELSE IF n \in Banks THEN Freeing(f[n - 1], mem[n]) ELSE f[n - 1]]
           g == CHOOSE f : Coming(f)
<1>7. PICK f : Run(f, Len(mem), Bootmems, start, step)
  BY <1>6, Recursion
<1>8. f \in [0..Len(mem) -> Bootmems] /\ f[0] = start /\ \A i \in 1..Len(mem) : f[i] = step[i][f[i - 1]]
  BY <1>7 DEF Run
<1>9. \A i \in 1..Len(mem) : f[i - 1] \in Bootmems /\ f[i] = IF i \in Banks THEN Freeing(f[i - 1], mem[i]) ELSE f[i - 1]
  <2> TAKE i \in 1..Len(mem)
  <2>1. i - 1 \in 0..Len(mem)
    BY <1>1
  <2> QED
    BY <1>4, <1>8, <2>1
<1>10. Coming(f)
  <2>1. \A i \in 0..Len(mem) : i # 0 => i \in 1..Len(mem)
    BY <1>1
  <2>2. \A i \in 0..Len(mem) : f[i] = IF i = 0 THEN start ELSE IF i \in Banks THEN Freeing(f[i - 1], mem[i]) ELSE f[i - 1]
    BY <1>8, <1>9, <2>1
  <2> QED
    BY <1>2, <1>8, <2>2
<1>11. Coming(g)
  <2> HIDE DEF Coming
  <2> QED
    BY <1>10
<1>12. Registered(map) = Freeing(g[Len(mem)], high[1])
  BY DEF Registered
<1> HIDE DEF g
<1>13. /\ g[0] = start
       /\ \A i \in 1..Len(mem) : g[i] = IF i \in Banks THEN Freeing(g[i - 1], mem[i]) ELSE g[i - 1]
  <2>1. \A i \in 0..Len(mem) : g[i] = IF i = 0 THEN start ELSE IF i \in Banks THEN Freeing(g[i - 1], mem[i]) ELSE g[i - 1]
    BY <1>2, <1>11
  <2>2. 0 \in 0..Len(mem) /\ \A i \in 1..Len(mem) : i \in 0..Len(mem) /\ i # 0
    BY <1>1
  <2> QED
    BY <2>1, <2>2
<1> HIDE DEF Coming
<1> DEFINE G == {i \in 0..Len(mem) : RegisteredTo(g[i], map, i)}
<1>14. 0 \in G
  <2>1. {k \in Banks : k <= 0} = {}
    BY BankFacts
  <2>2. start.reserved = (NodeStart..(NodeEnd - 1)) \ UNION {FramesOf(mem[i]) : i \in {k \in Banks : k <= 0}}
    BY <1>3, <2>1
  <2> QED
    BY <1>1, <1>3, <1>13, <2>2 DEF RegisteredTo
<1>15. ASSUME NEW i \in 1..Len(mem), i - 1 \in G PROVE i \in G
  <2>1. RegisteredTo(g[i - 1], map, i - 1)
    BY <1>15
  <2>2. PICK d : d = g[i - 1]
    OBVIOUS
  <2>3. i \in 0..Len(mem)
    BY <1>1
  <2>4. CASE i \in Banks
    <3>1. {k \in Banks : k <= i} = {k \in Banks : k <= i - 1} \cup {i}
      <4>1. i \in Nat /\ Banks \subseteq Nat
        BY BankFacts, <2>4
      <4>2. \A k \in Banks : k <= i <=> k <= i - 1 \/ k = i
        BY <4>1
      <4> QED
        BY <4>2, <2>4
    <3>2. g[i] = FreeBootmem(d, mem[i].start, mem[i].size)
      BY <1>13, <2>2, <2>4 DEF Freeing
    <3>3. mem[i].start \in Int /\ mem[i].size \in Int
      BY <1>1 DEF BankType
    <3>4. FramesOf(mem[i]) = Within(mem[i].start, mem[i].size)
      BY FramesFreed
    <3>5. d \in Bootmems
      BY <2>1, <2>2 DEF RegisteredTo
    <3>6. /\ g[i] \in Bootmems /\ g[i].start = d.start /\ g[i].end = d.end
          /\ g[i].node_bootmem_map = d.node_bootmem_map /\ g[i].last_offset = d.last_offset
          /\ g[i].reserved = d.reserved \ FramesOf(mem[i])
      BY <3>2, <3>3, <3>4, <3>5, FreeingType
    <3>7. UNION {FramesOf(mem[j]) : j \in {k \in Banks : k <= i}} =
            (UNION {FramesOf(mem[j]) : j \in {k \in Banks : k <= i - 1}}) \cup FramesOf(mem[i])
      BY <3>1
    <3> QED
      BY <2>1, <2>2, <2>3, <3>6, <3>7 DEF RegisteredTo
  <2>5. CASE i \notin Banks
    <3>1. {k \in Banks : k <= i} = {k \in Banks : k <= i - 1}
      BY BankFacts, <2>5
    <3>2. g[i] = d
      BY <1>13, <2>2, <2>5
    <3> QED
      BY <2>1, <2>2, <2>3, <3>1, <3>2 DEF RegisteredTo
  <2> QED
    BY <2>4, <2>5
<1>16. RegisteredTo(g[Len(mem)], map, Len(mem))
  <2> HIDE DEF G
  <2>1. \A i \in 0..Len(mem) : i \in G
    BY <1>1, <1>14, <1>15, UpTo
  <2>2. Len(mem) \in G
    BY <1>1, <2>1
  <2> QED
    BY <2>2 DEF G
<1> QED
  BY <1>12, <1>16

LEMMA Registers ==
    ASSUME Laid, NEW map \in Nat
    PROVE  /\ Registered(map) \in Bootmems
           /\ Registered(map).start = NodeStart /\ Registered(map).end = NodeEnd
           /\ Registered(map).node_bootmem_map = map /\ Registered(map).last_offset = 0
           /\ Registered(map).reserved = (NodeStart..(NodeEnd - 1)) \ Ram
<1>1. PICK d : RegisteredTo(d, map, Len(mem)) /\ Registered(map) = FreeBootmem(d, high[1].start, high[1].size)
  BY RegistersBanks DEF Freeing
<1>2. {k \in Banks : k <= Len(mem)} = Banks
  BY BankFacts
<1>3. FramesOf(high[1]) = Within(high[1].start, high[1].size)
  BY FramesFreed
<1>4. high[1].start \in Int /\ high[1].size \in Int
  BY BankFacts
<1>5. /\ d \in Bootmems /\ d.start = NodeStart /\ d.end = NodeEnd /\ d.node_bootmem_map = map /\ d.last_offset = 0
      /\ d.reserved = (NodeStart..(NodeEnd - 1)) \ LowRam
  BY <1>1, <1>2 DEF RegisteredTo, LowRam
<1> QED
  BY <1>1, <1>3, <1>4, <1>5, FreeingType DEF Ram

(****************************************************************************)
(* Who holds what.                                                          *)
(****************************************************************************)
Booted == stage \notin {"cmdline", "panic"}
Allocating == stage \notin {"cmdline", "panic", "marks", "up"}

Used == live \cup Fixed \cup {Bitmap}
UsedPages(used) == UNION {TouchedBy(b) : b \in used}

\* Memory is reserved for somebody only, or was left so.
Exact(d, used, ram, left) == ram \cap d.reserved \subseteq UsedPages(used) \cup left

NodePlaced ==
    /\ bd \in Bootmems /\ bd.start = NodeStart /\ bd.end = NodeEnd
    /\ Roomy # {} /\ bd.node_bootmem_map = BootmapAt(mem[FirstRoomy])

Held(a) ==
    /\ Sized(a) /\ a.start % a.align = 0
    /\ \A b \in (live \ {a}) \cup Fixed \cup {Bitmap} : Apart(a, b)
    /\ TouchedBy(a) \subseteq Ram

\* The boot allocator's inductive invariant.
Booking ==
    /\ stage = "cmdline" => live = {} /\ kept = {}
    /\ Booted => NodePlaced /\ bd.bug = FALSE
    /\ Allocating => Ready(bd, Used, Ram) /\ Exact(bd, Used, Ram, kept)
    /\ stage # "panic" => \A a \in live : Held(a)

SameLayout == mem' = mem /\ high' = high

LEMMA LayoutStays ==
    ASSUME SameLayout
    PROVE  /\ Banks' = Banks /\ NodeStart' = NodeStart /\ NodeEnd' = NodeEnd /\ Memend' = Memend
           /\ Roomy' = Roomy /\ FirstRoomy' = FirstRoomy
           /\ BootmapAt(mem[FirstRoomy])' = BootmapAt(mem[FirstRoomy])
           /\ LowRam' = LowRam /\ Ram' = Ram
<1>1. mem' = mem /\ high' = high
  BY DEF SameLayout
<1>2. Banks' = Banks
  BY <1>1 DEF Banks
<1>3. NodeStart' = NodeStart /\ Memend' = Memend
  BY <1>1, <1>2 DEF NodeStart, Memend, StartPfn, EndPfn
<1>4. NodeEnd' = NodeEnd
  BY <1>1, <1>3 DEF NodeEnd
<1>5. Roomy' = Roomy
  BY <1>1, <1>2, <1>3, <1>4 DEF Roomy, EndPfn, BootmapAt, StartPfn
<1>6. FirstRoomy' = FirstRoomy
  BY <1>5 DEF FirstRoomy
<1>7. BootmapAt(mem[FirstRoomy])' = BootmapAt(mem[FirstRoomy])
  BY <1>1, <1>6 DEF BootmapAt, StartPfn
<1>8. LowRam' = LowRam /\ Ram' = Ram
  BY <1>1, <1>2 DEF LowRam, Ram, FramesOf, StartPfn, EndPfn
<1> QED
  BY <1>2, <1>3, <1>4, <1>5, <1>6, <1>7, <1>8

LEMMA KernelSized == Sized(Kernel) /\ Sized(Pgdir)
<1>1. {Kernel, Pgdir} \subseteq [start : Nat, size : Nat \ {0}]
  BY BootAssumption
<1> QED
  BY <1>1 DEF Sized

LEMMA NodeSize ==
    ASSUME Laid
    PROVE  /\ NodeEnd - NodeStart \in Nat \ {0}
           /\ DmaFrames + NormalFrames + Frame(high[1].size) <= NodeEnd - NodeStart
<1>1. PICK s \in Nat, m \in Nat, e \in Nat, h \in Nat, b \in Nat, d \in Nat, n \in Nat :
         /\ s = NodeStart /\ m = Memend /\ e = NodeEnd /\ h = Frame(high[1].size) /\ b = Base
         /\ d = DmaFrames /\ n = NormalFrames
  BY Extent, BankFacts, ProbedType
<1>2. s <= b /\ b + d + n <= m /\ e = m + h
  BY <1>1, Extent
<1>3. d + n > 0
  BY <1>1, BootAssumption
<1>4. e - s \in Nat \ {0} /\ d + n + h <= e - s
  BY <1>2, <1>3
<1> QED
  BY <1>1, <1>4

\* The bitmap's place.
LEMMA MapPlace ==
    ASSUME Laid, Roomy # {}
    PROVE  /\ FirstRoomy \in Roomy /\ FirstRoomy \in Banks
           /\ BootmapAt(mem[FirstRoomy]) \in Nat
           /\ BootmapPages(NodeEnd - NodeStart) \in Nat \ {0}
           /\ NodeEnd - NodeStart \in Nat
<1>1. Roomy \subseteq Banks /\ Banks \subseteq Nat
  BY BankFacts DEF Roomy
<1>2. FirstRoomy \in Roomy
  <2>1. Roomy \subseteq Nat
    BY <1>1
  <2>2. \E m \in Roomy : \A k \in Roomy : m <= k
    BY <2>1, LeastElement
  <2> QED
    BY <2>2 DEF FirstRoomy
<1>3. BootmapAt(mem[FirstRoomy]) \in Nat
  <2>1. StartPfn(mem[FirstRoomy]) \in Nat
    BY <1>1, <1>2, BankFacts
  <2>2. Kernel.start + Kernel.size \in Nat
    BY KernelSized DEF Sized
  <2>3. PagesUp(Kernel.start + Kernel.size) \in Nat
    BY <2>2, PageOf
  <2> QED
    BY <2>1, <2>3 DEF BootmapAt
<1>4. PICK n \in Nat : n = NodeEnd - NodeStart /\ n > 0
  BY NodeSize
<1>5. BootmapPages(n) \in Nat \ {0}
  <2>1. RoundUp(n, ByteBits) \in Nat \ {0}
    <3>1. ~ (n <= 0 * ByteBits) /\ 0 * ByteBits = 0
      BY <1>4, Widths
    <3>2. RoundUp(n, ByteBits) \in Int /\ ~ (RoundUp(n, ByteBits) <= 0)
      BY <3>1, Widths, RoundUpAtMost
    <3> QED
      BY <3>2
  <2> QED
    BY <2>1, RunPages DEF BootmapPages
<1> QED
  BY <1>1, <1>2, <1>3, <1>4, <1>5

LEMMA NodeZeroFacts ==
    ASSUME Laid, NEW map \in Nat, BootmapPages(NodeEnd - NodeStart) \in Nat
    PROVE  /\ NodeZero(map) \in Bootmems
           /\ NodeZero(map).start = NodeStart /\ NodeZero(map).end = NodeEnd
           /\ NodeZero(map).node_bootmem_map = map /\ NodeZero(map).last_offset = 0
           /\ NodeZero(map).reserved =
                ((NodeStart..(NodeEnd - 1)) \ Ram) \cup TouchedBy(Kernel) \cup TouchedBy(Pgdir) \cup TouchedBy(MapBank(map))
<1>1. Kernel.start \in Int /\ Kernel.size \in Int /\ Pgdir.start \in Int /\ Pgdir.size \in Int
  BY BootAssumption
<1>2. MapBank(map).start \in Int /\ MapBank(map).size \in Int
  <2>1. map * PageSize \in Int /\ BootmapPages(NodeEnd - NodeStart) * PageSize \in Int
    BY Widths
  <2> QED
    BY <2>1 DEF MapBank, Bank
<1>3. PICK d : d = Registered(map)
  OBVIOUS
<1>4. /\ d \in Bootmems /\ d.start = NodeStart /\ d.end = NodeEnd /\ d.node_bootmem_map = map
      /\ d.last_offset = 0 /\ d.reserved = (NodeStart..(NodeEnd - 1)) \ Ram
  BY <1>3, Registers
<1>5. PICK e : e = Reserving(d, Kernel)
  OBVIOUS
<1>6. /\ e \in Bootmems /\ e.start = NodeStart /\ e.end = NodeEnd /\ e.node_bootmem_map = map
      /\ e.last_offset = 0 /\ e.reserved = d.reserved \cup TouchedBy(Kernel)
  BY <1>1, <1>4, <1>5, ReservingType DEF Reserving, TouchedBy
<1>7. PICK f : f = Reserving(e, Pgdir)
  OBVIOUS
<1>8. /\ f \in Bootmems /\ f.start = NodeStart /\ f.end = NodeEnd /\ f.node_bootmem_map = map
      /\ f.last_offset = 0 /\ f.reserved = e.reserved \cup TouchedBy(Pgdir)
  BY <1>1, <1>6, <1>7, ReservingType DEF Reserving, TouchedBy
<1>9. PICK g : g = Reserving(f, MapBank(map))
  OBVIOUS
<1>10. /\ g \in Bootmems /\ g.start = NodeStart /\ g.end = NodeEnd /\ g.node_bootmem_map = map
       /\ g.last_offset = 0 /\ g.reserved = f.reserved \cup TouchedBy(MapBank(map))
  BY <1>2, <1>8, <1>9, ReservingType DEF Reserving, TouchedBy
<1>11. NodeZero(map) = g
  BY <1>3, <1>5, <1>7, <1>9 DEF NodeZero
<1> QED
  BY <1>4, <1>6, <1>8, <1>10, <1>11

LEMMA BookingInit == BootInit => Booking
  BY DEF BootInit, Booking, Booted, Allocating

LEMMA BookingBootmemInit == ASSUME Parsing, Booking, BootmemInit PROVE Booking' /\ Laid'
<1>1. Laid /\ stage = "cmdline" /\ live = {} /\ kept = {}
  BY ParsingDone DEF BootmemInit, Booking
<1>2. SameLayout /\ live' = {} /\ kept' = {} /\ high' = high /\ mem' = mem
  BY <1>1 DEF BootmemInit, SameLayout
<1>3. CASE Roomy = {}
  <2>1. stage' = "panic" /\ initrd' = initrd
    BY <1>3 DEF BootmemInit
  <2> QED
    BY <1>1, <1>2, <2>1 DEF Booking, Booted, Allocating, Laid, ProbedIn
<1>4. CASE Roomy # {}
  <2>1. PICK map \in Nat : map = BootmapAt(mem[FirstRoomy])
    BY <1>1, <1>4, MapPlace
  <2>2. BootmapPages(NodeEnd - NodeStart) \in Nat \ {0}
    BY <1>1, <1>4, MapPlace
  <2>3. PICK d : d = NodeZero(map)
    OBVIOUS
  <2>4. /\ d \in Bootmems /\ d.start = NodeStart /\ d.end = NodeEnd /\ d.node_bootmem_map = map
        /\ d.last_offset = 0
        /\ d.reserved = ((NodeStart..(NodeEnd - 1)) \ Ram)
                          \cup TouchedBy(Kernel) \cup TouchedBy(Pgdir) \cup TouchedBy(MapBank(map))
    BY <1>1, <2>2, <2>3, NodeZeroFacts
  <2>5. /\ initrd' = IF initrd.size > 0 /\ ~ InitrdFits THEN Bank(0, 0) ELSE initrd
        /\ bd' = IF initrd'.size > 0 THEN Reserving(d, initrd) ELSE d
        /\ stage' = IF bd'.bug THEN "panic" ELSE "tests"
    BY <1>4, <2>1, <2>3 DEF BootmemInit
  <2>6. initrd' \in BankType /\ initrd \in BankType /\ (initrd'.size > 0 => initrd' = initrd)
    <3>1. Bank(0, 0) \in BankType /\ Bank(0, 0).size = 0
      BY DEF Bank, BankType
    <3> QED
      BY <1>1, <2>5, <3>1 DEF Laid
  <2>7. Laid'
    BY <1>1, <1>2, <2>6 DEF Laid, ProbedIn
  <2>8. /\ bd' \in Bootmems /\ bd'.start = NodeStart /\ bd'.end = NodeEnd /\ bd'.node_bootmem_map = map
        /\ bd'.last_offset = 0
        /\ bd'.reserved = d.reserved \cup (IF initrd'.size > 0 THEN TouchedBy(initrd') ELSE {})
    <3>1. initrd.start \in Int /\ initrd.size \in Int
      BY <2>6 DEF BankType
    <3> QED
      BY <2>4, <2>5, <2>6, <3>1, ReservingType DEF Reserving, TouchedBy
  <2>9. Bitmap' = MapBank(map)
    BY <1>2, <2>8, LayoutStays DEF Bitmap, MapBank, Spanned
  <2>10. Sized(MapBank(map))
    <3>1. PICK n \in Nat \ {0} : n = BootmapPages(NodeEnd - NodeStart)
      BY <2>2
    <3>2. At(map) \in Nat /\ At(n) \in Nat
      BY PageEdges
    <3>3. At(0) < At(n) /\ At(0) = 0
      <4>1. 0 < n
        BY <3>1
      <4> QED
        BY <4>1, PageOrder, PageEdges
    <3> QED
      BY <3>1, <3>2, <3>3 DEF MapBank, Bank, Sized, At
  <2>11. Fixed' = {Kernel, Pgdir} \cup (IF initrd'.size > 0 THEN {initrd'} ELSE {})
    BY DEF Fixed
  <2>12. Used' = {Kernel, Pgdir, MapBank(map)} \cup (IF initrd'.size > 0 THEN {initrd'} ELSE {})
    BY <1>2, <2>9, <2>11 DEF Used
  <2>13. Sized(Kernel) /\ Sized(Pgdir) /\ (initrd'.size > 0 => Sized(initrd'))
    BY <2>6, BootAssumption DEF Sized, BankType
  <2>14. \A b \in Used' : Sized(b) /\ TouchedBy(b) \subseteq bd'.reserved
    BY <2>4, <2>8, <2>10, <2>12, <2>13
  <2>15. bd'.reserved = ((NodeStart..(NodeEnd - 1)) \ Ram) \cup UsedPages(Used')
    <3>1. CASE initrd'.size > 0
      <4>1. Used' = {Kernel, Pgdir, MapBank(map), initrd'}
        BY <2>12, <3>1
      <4> QED
        BY <2>4, <2>8, <3>1, <4>1 DEF UsedPages
    <3>2. CASE ~ (initrd'.size > 0)
      <4>1. Used' = {Kernel, Pgdir, MapBank(map)}
        BY <2>12, <3>2
      <4> QED
        BY <2>4, <2>8, <3>2, <4>1 DEF UsedPages
    <3> QED
      BY <3>1, <3>2
  <2>16. Clear(bd') \subseteq Ram
    BY <2>8, <2>15 DEF Clear
  <2>17. Ready(bd', Used', Ram')
    BY <1>2, <2>8, <2>14, <2>16, LayoutStays DEF Ready
  <2>18. Exact(bd', Used', Ram', kept')
    BY <1>2, <2>15, LayoutStays DEF Exact
  <2>19. NodePlaced'
    BY <1>2, <1>4, <2>1, <2>8, LayoutStays DEF NodePlaced
  <2>20. Booted' => bd'.bug = FALSE
    BY <2>5, <2>8 DEF Booted, Bootmems
  <2>21. stage' # "cmdline"
    BY <2>5
  <2> QED
    BY <1>2, <2>7, <2>17, <2>18, <2>19, <2>20, <2>21 DEF Booking
<1> QED
  BY <1>3, <1>4

LEMMA FixedFacts ==
    ASSUME Laid
    PROVE  \A b \in Fixed : Sized(b)
<1>1. initrd.size > 0 => Sized(initrd)
  BY DEF Laid, BankType, Sized
<1> QED
  BY <1>1, KernelSized DEF Fixed

\* The invariant survives an allocation.
LEMMA ClaimKeeps ==
    ASSUME Laid, Booking, Allocating, NEW z \in Nat \ {0}, NEW al \in {CacheBytes, PageSize},
           NEW next, next \notin {"cmdline", "marks", "up"},
           Claim(z, al, next), SameLayout, initrd' = initrd, kept' = kept
    PROVE  Booking'
<1>1. /\ Ready(bd, Used, Ram) /\ Exact(bd, Used, Ram, kept) /\ NodePlaced /\ bd.bug = FALSE
      /\ \A a \in live : Held(a)
  BY DEF Booking, Allocating, Booted
<1>2. CASE Runs(bd, PagesUp(z)) = {}
  <2>1. stage' = "panic"
    BY <1>2 DEF Claim
  <2> QED
    BY <2>1 DEF Booking, Booted, Allocating
<1>3. CASE Runs(bd, PagesUp(z)) # {}
  <2>1. PICK got : got = AllocBootmem(bd, z, al)
    OBVIOUS
  <2>2. PICK a : a = [by |-> stage, start |-> got.addr, size |-> z, align |-> al]
    OBVIOUS
  <2>3. bd' = got.bd /\ live' = live \cup {a} /\ stage' = next
    BY <1>3, <2>1, <2>2 DEF Claim
  <2>4. Serves(bd, got, Used, Ram, z, al)
    BY <1>1, <1>3, <2>1, AllocServes
  <2>5. PICK c : c = [start |-> got.addr, size |-> z]
    OBVIOUS
  <2>6. a.start = c.start /\ a.size = c.size /\ a.start = got.addr /\ a.size = z /\ a.align = al
    BY <2>2, <2>5
  <2>7. /\ got.addr \in Nat /\ got.addr % al = 0
        /\ \A b \in Used : Apart(c, b)
        /\ TouchedBy(c) \subseteq Ram
        /\ bd' \in Bootmems
        /\ bd'.start = bd.start /\ bd'.end = bd.end
        /\ bd'.node_bootmem_map = bd.node_bootmem_map /\ bd'.bug = bd.bug
        /\ bd'.reserved = bd.reserved \cup TouchedBy(c)
        /\ bd'.last_offset # 0 =>
             /\ bd'.last_offset < PageSize
             /\ bd'.last_pos \in Ram \cap bd'.reserved
             /\ \A b \in Used : Apart(Rest(bd'), b)
             /\ Apart(Rest(bd'), c)
    BY <2>3, <2>4, <2>5 DEF Serves
  <2>8. TouchedBy(a) = TouchedBy(c) /\ Sized(a)
    BY <2>6, <2>7 DEF TouchedBy, Sized
  <2>9. \A b : (Apart(c, b) => Apart(a, b)) /\ (Apart(b, c) => Apart(b, a))
    BY <2>6 DEF Apart
  <2>10. Bitmap' = Bitmap
    BY <2>7 DEF Bitmap, Spanned
  <2>11. Fixed' = Fixed
    BY DEF Fixed
  <2>12. Used' = Used \cup {a}
    BY <2>3, <2>10, <2>11 DEF Used
  <2>13. Ram' = Ram
    BY LayoutStays
  <2>14. Ready(bd', Used', Ram')
    <3>1. Clear(bd') \subseteq Ram
      BY <1>1, <2>7 DEF Ready, Clear
    <3>2. \A b \in Used' : Sized(b) /\ TouchedBy(b) \subseteq bd'.reserved
      BY <1>1, <2>7, <2>8, <2>12 DEF Ready
    <3>3. bd'.last_offset # 0 => \A b \in Used' : Apart(Rest(bd'), b)
      BY <2>7, <2>9, <2>12
    <3> QED
      BY <2>7, <2>13, <3>1, <3>2, <3>3 DEF Ready
  <2>15. Exact(bd', Used', Ram', kept')
    <3>1. UsedPages(Used') = UsedPages(Used) \cup TouchedBy(a)
      BY <2>12 DEF UsedPages
    <3> QED
      BY <1>1, <2>7, <2>8, <2>13, <3>1 DEF Exact
  <2>16. NodePlaced'
    BY <1>1, <2>7, LayoutStays DEF NodePlaced
  <2>17. ASSUME NEW x \in live' PROVE Held(x)'
    <3>1. CASE x = a
      <4>1. \A b \in (live' \ {a}) \cup Fixed \cup {Bitmap} : Apart(a, b)
        BY <2>3, <2>7, <2>9 DEF Used
      <4> QED
        BY <2>6, <2>7, <2>8, <2>10, <2>11, <2>13, <3>1, <4>1 DEF Held
    <3>2. CASE x \in live
      <4>1. Held(x)
        BY <1>1, <3>2
      <4>2. Apart(x, a)
        <5>1. x \in Used
          BY <3>2 DEF Used
        <5> QED
          BY <2>7, <2>9, <5>1, ApartSym
      <4>3. \A b \in (live' \ {x}) \cup Fixed \cup {Bitmap} : Apart(x, b)
        BY <2>3, <4>1, <4>2 DEF Held
      <4> QED
        BY <2>10, <2>11, <2>13, <4>1, <4>3 DEF Held
    <3> QED
      BY <2>3, <3>1, <3>2
  <2> QED
    BY <1>1, <2>3, <2>7, <2>14, <2>15, <2>16, <2>17 DEF Booking
<1> QED
  BY <1>2, <1>3

LEMMA TestFreeKeeps == ASSUME Laid, Booking, TestFree PROVE Booking'
<1>1. /\ Ready(bd, Used, Ram) /\ Exact(bd, Used, Ram, kept) /\ NodePlaced /\ bd.bug = FALSE
      /\ \A a \in live : Held(a)
  BY DEF Booking, Allocating, Booted, TestFree
<1>2. SameLayout /\ initrd' = initrd /\ stage = "tests"
  BY DEF TestFree, layout, SameLayout
<1>3. PICK a \in live :
        /\ bd' = Freeing(bd, a)
        /\ live' = live \ {a}
        /\ kept' = kept \cup (Touched(a.start, a.size) \ Within(a.start, a.size))
        /\ stage' = IF bd'.bug THEN "panic" ELSE stage
  BY DEF TestFree
<1>4. Held(a) /\ Sized(a) /\ bd \in Bootmems
  BY <1>1 DEF Held, Ready
<1>5. /\ bd' \in Bootmems /\ bd'.start = bd.start /\ bd'.end = bd.end
      /\ bd'.node_bootmem_map = bd.node_bootmem_map
      /\ bd'.last_pos = bd.last_pos /\ bd'.last_offset = bd.last_offset
      /\ bd'.reserved = bd.reserved \ Within(a.start, a.size)
  BY <1>3, <1>4, FreeingType DEF Freeing, Sized
<1>6. Bitmap' = Bitmap /\ Fixed' = Fixed /\ Ram' = Ram
  BY <1>2, <1>5, LayoutStays DEF Bitmap, Spanned, Fixed
<1>7. Used' \subseteq (Used \ {a}) \cup Fixed \cup {Bitmap} /\ Used' \subseteq Used /\ Used \subseteq Used' \cup {a}
  BY <1>3, <1>6 DEF Used
<1>8. \A b \in Used' : Sized(b) /\ TouchedBy(b) \subseteq bd.reserved /\ Apart(a, b)
  <2>1. \A b \in Used' : Sized(b) /\ TouchedBy(b) \subseteq bd.reserved
    BY <1>1, <1>7 DEF Ready
  <2>2. Used' = (live \ {a}) \cup Fixed \cup {Bitmap}
    BY <1>3, <1>6 DEF Used
  <2> QED
    BY <1>4, <2>1, <2>2 DEF Held
<1>9. \A b \in Used' : TouchedBy(b) \subseteq bd'.reserved
  BY <1>4, <1>5, <1>8, WithinApart
<1>10. Within(a.start, a.size) \subseteq TouchedBy(a) /\ TouchedBy(a) \subseteq Ram
  BY <1>4, WithinTouched DEF Held
<1>11. Clear(bd') \subseteq Ram
  BY <1>1, <1>5, <1>10 DEF Ready, Clear
<1>12. ASSUME bd.last_offset # 0
       PROVE  /\ bd.last_offset < PageSize /\ bd.last_pos \in Ram \cap bd'.reserved
              /\ \A b \in Used' : Apart(Rest(bd'), b)
  <2>1. /\ bd.last_offset < PageSize /\ bd.last_pos \in Ram \cap bd.reserved
        /\ \A b \in Used : Apart(Rest(bd), b)
    BY <1>1, <1>12 DEF Ready
  <2>2. Rest(bd') = Rest(bd)
    BY <1>5 DEF Rest
  <2>3. bd.last_pos \notin Within(a.start, a.size)
    <3>1. PICK f \in Nat, o \in Nat : f = bd.last_pos /\ o = bd.last_offset
      BY <1>4 DEF Bootmems
    <3>2. PICK u \in Nat : u = At(f)
      BY PageEdges
    <3>3. PICK s \in Nat, y \in Nat : s = a.start /\ y = a.size
      BY <1>4 DEF Sized
    <3>4. Apart(Rest(bd), a)
      BY <2>1 DEF Used
    <3>5. Rest(bd) = [start |-> u + o, size |-> PageSize - o]
      BY <3>1, <3>2 DEF Rest
    <3>6. u + PageSize <= s \/ s + y <= u + o
      BY <3>1, <3>3, <3>4, <3>5, Widths DEF Apart
    <3>7. ASSUME f \in Within(s, y) PROVE FALSE
      <4>1. s <= u /\ u + PageSize <= s + y
        BY <3>2, <3>7, InTouched
      <4> QED
        BY <2>1, <3>1, <3>6, <4>1, Widths
    <3> QED
      BY <3>1, <3>3, <3>7
  <2> QED
    BY <1>5, <1>7, <2>1, <2>2, <2>3
<1>13. Ready(bd', Used', Ram')
  BY <1>5, <1>6, <1>8, <1>9, <1>11, <1>12 DEF Ready
<1>14. Exact(bd', Used', Ram', kept')
  <2>1. ASSUME NEW f \in Ram, f \in bd'.reserved PROVE f \in UsedPages(Used') \cup kept'
    <3>1. f \in bd.reserved /\ f \notin Within(a.start, a.size)
      BY <1>5, <2>1
    <3>2. f \in UsedPages(Used) \cup kept
      BY <1>1, <3>1, <2>1 DEF Exact
    <3>3. CASE f \in UsedPages(Used)
      <4>1. PICK b \in Used : f \in TouchedBy(b)
        BY <3>3 DEF UsedPages
      <4>2. CASE b = a
        BY <1>3, <3>1, <4>1, <4>2 DEF TouchedBy
      <4>3. CASE b # a
        BY <1>7, <4>1, <4>3 DEF UsedPages
      <4> QED
        BY <4>2, <4>3
    <3> QED
      BY <1>3, <3>2, <3>3
  <2> QED
    BY <1>6, <2>1 DEF Exact
<1>15. NodePlaced'
  BY <1>1, <1>2, <1>5, LayoutStays DEF NodePlaced
<1>16. \A x \in live' : Held(x)'
  BY <1>1, <1>3, <1>6 DEF Held
<1>17. stage' # "panic" => bd'.bug = FALSE
  BY <1>2, <1>3, <1>5 DEF Bootmems
<1> QED
  BY <1>2, <1>3, <1>13, <1>14, <1>15, <1>16, <1>17 DEF Booking, Booted

\* Reserving a byte of a page and freeing it leaves the page reserved.
LEMMA OneByte ==
    ASSUME NEW f \in Nat
    PROVE  Touched(f * PageSize, 1) = {f} /\ Within(f * PageSize, 1) = {} /\ f * PageSize \in Nat
<1>1. PICK u \in Nat : u = At(f) /\ u = f * PageSize
  BY PageEdges DEF At
<1>2. PagesUp(1) = 1
  <2>1. PICK n \in Nat \ {0} : n = PagesUp(1)
    BY RunPages
  <2>2. At(1) = At(0) + PageSize /\ At(0) = 0
    <3>1. At(0 + 1) = At(0) + PageSize /\ At(0) = 0
      BY PageEdges
    <3> QED
      BY <3>1
  <2>3. 1 <= At(1)
    BY <2>2, Widths
  <2>4. n <= 1
    BY <2>1, <2>3, Pagewise
  <2> QED
    BY <2>1, <2>4
<1>3. Touched(u, 1) = {f}
  <2>1. Touched(At(f), 1) = f..(f + PagesUp(1) - 1)
    BY TouchedRun
  <2>2. f + 1 - 1 = f /\ f..f = {f}
    OBVIOUS
  <2> QED
    BY <1>1, <1>2, <2>1, <2>2
<1>4. Within(u, 1) = {}
  <2>1. ASSUME NEW g \in Int, g \in Within(u, 1) PROVE FALSE
    <3>1. PICK v \in Int : v = At(g)
      BY PageEdges
    <3>2. u <= v /\ v + PageSize <= u + 1
      BY <2>1, <3>1, InTouched
    <3> QED
      BY <3>1, <3>2, Widths
  <2> QED
    BY <2>1, InTouched
<1> QED
  BY <1>1, <1>3, <1>4

LEMMA TestReserveKeeps == ASSUME Laid, Booking, TestReserve PROVE Booking'
<1>1. /\ Ready(bd, Used, Ram) /\ Exact(bd, Used, Ram, kept) /\ NodePlaced /\ bd.bug = FALSE
      /\ \A a \in live : Held(a)
  BY DEF Booking, Allocating, Booted, TestReserve
<1>2. SameLayout /\ initrd' = initrd /\ stage = "tests" /\ live' = live
  BY DEF TestReserve, layout, SameLayout
<1>3. PICK f \in TestReserves :
        /\ bd' = Freeing(Reserving(bd, Bank(f * PageSize, 1)), Bank(f * PageSize, 1))
        /\ kept' = kept \cup {f}
        /\ stage' = IF bd'.bug THEN "panic" ELSE stage
  BY DEF TestReserve
<1>4. f \in Nat
  BY BootAssumption
<1>5. Touched(f * PageSize, 1) = {f} /\ Within(f * PageSize, 1) = {} /\ f * PageSize \in Nat
  BY <1>4, OneByte
<1>6. PICK e : e = ReserveBootmem(bd, f * PageSize, 1)
  OBVIOUS
<1>7. bd' = FreeBootmem(e, f * PageSize, 1)
  BY <1>3, <1>6 DEF Freeing, Reserving, Bank
<1>8. bd \in Bootmems
  BY <1>1 DEF Ready
<1>9. /\ e \in Bootmems /\ e.start = bd.start /\ e.end = bd.end
      /\ e.node_bootmem_map = bd.node_bootmem_map
      /\ e.last_pos = bd.last_pos /\ e.last_offset = bd.last_offset
      /\ e.reserved = bd.reserved \cup {f}
  BY <1>5, <1>6, <1>8, ReservingType
<1>10. /\ bd' \in Bootmems /\ bd'.start = bd.start /\ bd'.end = bd.end
       /\ bd'.node_bootmem_map = bd.node_bootmem_map
       /\ bd'.last_pos = bd.last_pos /\ bd'.last_offset = bd.last_offset
       /\ bd'.reserved = bd.reserved \cup {f}
  BY <1>5, <1>7, <1>9, FreeingType
<1>11. Bitmap' = Bitmap /\ Fixed' = Fixed /\ Ram' = Ram
  BY <1>2, <1>10, LayoutStays DEF Bitmap, Spanned, Fixed
<1>12. Used' = Used /\ Rest(bd') = Rest(bd)
  BY <1>2, <1>10, <1>11 DEF Used, Rest
<1>13. Ready(bd', Used', Ram')
  BY <1>1, <1>10, <1>11, <1>12 DEF Ready, Clear
<1>14. Exact(bd', Used', Ram', kept')
  BY <1>1, <1>3, <1>10, <1>11, <1>12 DEF Exact
<1>15. NodePlaced'
  BY <1>1, <1>2, <1>10, LayoutStays DEF NodePlaced
<1>16. \A x \in live' : Held(x)'
  BY <1>1, <1>2, <1>11 DEF Held
<1>17. stage' # "panic" => bd'.bug = FALSE
  BY <1>2, <1>3, <1>10 DEF Bootmems
<1> QED
  BY <1>2, <1>3, <1>13, <1>14, <1>15, <1>16, <1>17 DEF Booking, Booted

\* A step that neither takes nor gives memory.
LEMMA BookStays ==
    ASSUME Booking, SameLayout, UNCHANGED <<initrd, bd, live, kept>>, Allocating, Allocating'
    PROVE  Booking'
<1>1. Bitmap' = Bitmap /\ Fixed' = Fixed /\ Ram' = Ram
  BY LayoutStays DEF Bitmap, Spanned, Fixed
<1>2. Used' = Used
  BY <1>1 DEF Used
<1>3. Booted
  BY DEF Allocating, Booted
<1>4. NodePlaced'
  BY <1>3, LayoutStays DEF NodePlaced, Booking
<1>5. Ready(bd', Used', Ram') /\ Exact(bd', Used', Ram', kept')
  BY <1>1, <1>2 DEF Booking
<1>6. \A x \in live' : Held(x)'
  BY <1>1, <1>3 DEF Held, Booking, Booted
<1> QED
  BY <1>3, <1>4, <1>5, <1>6 DEF Booking, Booted, Allocating

(****************************************************************************)
(* Powers of two.                                                           *)
(****************************************************************************)
Doubles(f, n) == f \in [0..n -> Nat] /\ f[0] = 1 /\ \A i \in 1..n : f[i] = 2 * f[i - 1]

LEMMA DoublesExist ==
    ASSUME NEW n \in Nat PROVE \E f : Doubles(f, n)
<1>1. PICK step : step = [i \in 1..n |-> [x \in Nat |-> 2 * x]]
  OBVIOUS
<1>2. step \in [1..n -> [Nat -> Nat]]
  <2>1. \A x \in Nat : 2 * x \in Nat
    OBVIOUS
  <2> QED
    BY <1>1, <2>1
<1>3. Loop(n, Nat, 1, step)
  BY <1>2 DEF Loop
<1>4. PICK f : Run(f, n, Nat, 1, step)
  BY <1>3, Recursion
<1>5. f \in [0..n -> Nat] /\ f[0] = 1 /\ \A i \in 1..n : f[i] = step[i][f[i - 1]]
  BY <1>4 DEF Run
<1>6. \A i \in 1..n : f[i] = 2 * f[i - 1]
  <2> TAKE i \in 1..n
  <2>1. f[i - 1] \in Nat
    BY <1>5
  <2> QED
    BY <1>1, <1>5, <2>1
<1> QED
  BY <1>5, <1>6 DEF Doubles

LEMMA DoublesAgree ==
    ASSUME NEW n \in Nat, NEW f, NEW g, Doubles(f, n), Doubles(g, n + 1)
    PROVE  f[n] = g[n]
<1> DEFINE G == {i \in 0..n : f[i] = g[i]}
<1>1. 0 \in G
  BY DEF Doubles
<1>2. ASSUME NEW i \in 1..n, i - 1 \in G PROVE i \in G
  <2>1. i \in 1..(n + 1) /\ i \in 0..n
    OBVIOUS
  <2>2. f[i] = 2 * f[i - 1] /\ g[i] = 2 * g[i - 1]
    BY <2>1 DEF Doubles
  <2> QED
    BY <1>2, <2>1, <2>2
<1>3. \A i \in 0..n : i \in G
  <2> HIDE DEF G
  <2> QED
    BY <1>1, <1>2, UpTo
<1> QED
  BY <1>3

LEMMA Powers ==
    /\ Pow2[0] = 1
    /\ \A n \in Nat : Pow2[n + 1] = 2 * Pow2[n]
    /\ \A n \in Nat : Pow2[n] \in Nat /\ Pow2[n] > n
<1> DEFINE Is(f) == f = [n \in Nat |-> IF n = 0 THEN 1 ELSE 2 * f[n - 1]]
           At_(n) == CHOOSE g : Doubles(g, n)
<1>1. \A n \in Nat : Doubles(At_(n), n)
  BY DoublesExist
<1>2. PICK h : h = [n \in Nat |-> At_(n)[n]]
  OBVIOUS
<1>3. \A n \in Nat : h[n] = IF n = 0 THEN 1 ELSE 2 * h[n - 1]
  <2> TAKE n \in Nat
  <2> HIDE DEF At_
  <2>1. CASE n = 0
    BY <1>1, <1>2, <2>1 DEF Doubles
  <2>2. CASE n # 0
    <3>1. PICK m \in Nat : m = n - 1 /\ m + 1 = n
      BY <2>2
    <3>2. PICK f, g : f = At_(m) /\ g = At_(n)
      OBVIOUS
    <3>3. Doubles(f, m) /\ Doubles(g, m + 1)
      BY <1>1, <3>1, <3>2
    <3>4. f[m] = g[m]
      BY <3>3, DoublesAgree
    <3>5. n \in 1..n
      BY <2>2
    <3>6. g[n] = 2 * g[m]
      BY <3>1, <3>3, <3>5 DEF Doubles
    <3> QED
      BY <1>2, <3>1, <3>2, <3>4, <3>6, <2>2
  <2> QED
    BY <2>1, <2>2
<1>4. Is(h)
  BY <1>2, <1>3
<1>5. Is(Pow2)
  <2> HIDE DEF Is
  <2>1. \E f : Is(f)
    BY <1>4
  <2>2. Pow2 = CHOOSE f : Is(f)
    BY DEF Pow2, Is
  <2> QED
    BY <2>1, <2>2
<1>6. \A n \in Nat : Pow2[n] = IF n = 0 THEN 1 ELSE 2 * Pow2[n - 1]
  BY <1>5
<1> HIDE DEF Is
<1>7. Pow2[0] = 1
  BY <1>6
<1>8. \A n \in Nat : Pow2[n + 1] = 2 * Pow2[n]
  <2> TAKE n \in Nat
  <2>1. n + 1 \in Nat /\ n + 1 # 0 /\ (n + 1) - 1 = n
    OBVIOUS
  <2> QED
    BY <1>6, <2>1
<1>9. ASSUME NEW n \in Nat PROVE Pow2[n] \in Nat /\ Pow2[n] > n
  <2> DEFINE G == {i \in 0..n : Pow2[i] \in Nat /\ Pow2[i] > i}
  <2>1. 0 \in G
    BY <1>7
  <2>2. ASSUME NEW i \in 1..n, i - 1 \in G PROVE i \in G
    <3>1. PICK j \in Nat : j = i - 1 /\ j + 1 = i
      OBVIOUS
    <3>2. PICK p \in Nat : p = Pow2[j] /\ p > j
      BY <2>2, <3>1
    <3>3. Pow2[i] = 2 * p
      BY <1>8, <3>1, <3>2
    <3> QED
      BY <3>1, <3>2, <3>3
  <2>3. \A i \in 0..n : i \in G
    <3> HIDE DEF G
    <3> QED
      BY <2>1, <2>2, UpTo
  <2> QED
    BY <2>3
<1> QED
  BY <1>7, <1>8, <1>9

LEMMA Logarithm ==
    ASSUME NEW n \in Nat \ {0}
    PROVE  Log2(n) \in Nat /\ Pow2[Log2(n)] <= n /\ n < Pow2[Log2(n) + 1]
<1> DEFINE S == {j \in Nat : n < Pow2[j]}
<1>1. n \in S
  BY Powers
<1>2. PICK j \in S : \A i \in S : j <= i
  <2>1. S \subseteq Nat /\ S # {}
    BY <1>1
  <2> HIDE DEF S
  <2> QED
    BY <2>1, LeastElement
<1>3. j # 0 /\ j <= n
  BY <1>1, <1>2, Powers
<1>4. PICK k \in Nat : k = j - 1 /\ k + 1 = j /\ k \in 0..n
  BY <1>3
<1>5. ~ (n < Pow2[k])
  BY <1>2, <1>4
<1>6. Pow2[k] <= n /\ n < Pow2[k + 1]
  BY <1>2, <1>4, <1>5, Powers
<1>7. Log2(n) \in 0..n /\ Pow2[Log2(n)] <= n /\ n < Pow2[Log2(n) + 1]
  BY <1>4, <1>6 DEF Log2
<1> QED
  BY <1>7

LEMMA WaitTable ==
    ASSUME NEW pages \in Nat \ {0}
    PROVE  WaitTableSize(pages) * WaitHead \in Nat \ {0}
<1>1. WaitPages \in Nat \ {0} /\ WaitHead \in Nat \ {0} /\ WaitMin \in Nat \ {0} /\ WaitMax \in Nat /\ WaitMin <= WaitMax
  BY BootAssumption
<1>2. PICK w \in Nat : w = pages \div WaitPages /\ w <= pages
  <2>1. PICK w \in Nat, p \in Nat \ {0} : w = pages \div WaitPages /\ p = WaitPages
    BY <1>1, DivBounds
  <2>2. p * w <= pages
    BY <2>1, DivBounds
  <2>3. w <= p * w
    BY <2>1
  <2>4. w <= pages
    BY <2>1, <2>2, <2>3
  <2> QED
    BY <2>1, <2>4
<1> DEFINE S == {k \in Nat : Pow2[k] >= w}
           log == CHOOSE k \in 0..pages : Pow2[k] >= w /\ (k > 0 => Pow2[k - 1] < w)
<1>3. pages \in S
  BY <1>2, Powers
<1>4. PICK k \in S : \A i \in S : k <= i
  <2>1. S \subseteq Nat /\ S # {}
    BY <1>3
  <2> HIDE DEF S
  <2> QED
    BY <2>1, LeastElement
<1>5. k \in 0..pages /\ Pow2[k] >= w
  BY <1>3, <1>4
<1>6. ASSUME k > 0 PROVE Pow2[k - 1] < w
  <2>1. PICK j \in Nat : j = k - 1 /\ j < k
    BY <1>5, <1>6
  <2>2. ~ (Pow2[j] >= w)
    BY <1>4, <2>1
  <2> QED
    BY <2>1, <2>2, Powers
<1>7. log \in 0..pages
  BY <1>5, <1>6
<1>8. PICK p \in Nat : p = Pow2[log]
  <2>1. log \in Nat
    BY <1>7
  <2> HIDE DEF log
  <2> QED
    BY <2>1, Powers
<1>9. WaitTableSize(pages) = Clamp(p, WaitMin, WaitMax)
  BY <1>2, <1>8 DEF WaitTableSize
<1>10. Clamp(p, WaitMin, WaitMax) \in Nat \ {0}
  BY <1>1, <1>8 DEF Clamp
<1>11. PICK t \in Nat \ {0}, h \in Nat \ {0} : t = WaitTableSize(pages) /\ h = WaitHead
  BY <1>1, <1>9, <1>10
<1>12. t * h \in Nat \ {0}
  OBVIOUS
<1> QED
  BY <1>11, <1>12

(****************************************************************************)
(* The zones as free_area_init_node lays them out.                          *)
(****************************************************************************)
Sizes  == <<DmaFrames, Memend - NodeStart - DmaFrames, Frame(high[1].size)>>
Starts == <<NodeStart, NodeStart + DmaFrames, Memend>>

ZoneIs(z, j) ==
    /\ z.zone_start_pfn = Starts[j] /\ z.spanned_pages = Sizes[j] /\ z.present_pages = Sizes[j]
    /\ z.pageset = Pageset(PcpBatch(Sizes[j]))

ZoneType ==
    [zone_start_pfn : Nat, spanned_pages : Nat, present_pages : Nat,
     pageset : {Pageset(PcpBatch(n)) : n \in Nat}, pages_min : {0}, pages_low : {0}, pages_high : {0}]

Zoning ==
    /\ stage \in {"cmdline", "tests", "memtable", "mem_map"} => zones = <<>>
    /\ Booted =>
         /\ stage # "up" => zones \in Seq(ZoneType)
         /\ Len(zones) \in 0..3 /\ \A j \in 1..Len(zones) : ZoneIs(zones[j], j)
         /\ stage \notin {"tests", "memtable", "mem_map", "zone"} => Len(zones) = 3

LEMMA SizesType ==
    ASSUME Laid
    PROVE  /\ Sizes[1] \in Nat /\ Sizes[2] \in Nat /\ Sizes[3] \in Nat
           /\ Starts[1] \in Nat /\ Starts[2] \in Nat /\ Starts[3] \in Nat
           /\ Starts[1] = NodeStart /\ Starts[1] + Sizes[1] = Starts[2] /\ Starts[2] + Sizes[2] = Starts[3]
           /\ Starts[3] = Memend /\ Starts[3] + Sizes[3] = NodeEnd
           /\ Sizes[1] = DmaFrames /\ Sizes[3] = Frame(high[1].size)
           /\ DmaFrames + NormalFrames <= Sizes[1] + Sizes[2]
           /\ Sizes[1] + Sizes[2] + Sizes[3] = NodeEnd - NodeStart
<1>1. PICK s \in Nat, m \in Nat, e \in Nat, h \in Nat, b \in Nat, d \in Nat, n \in Nat :
         /\ s = NodeStart /\ m = Memend /\ e = NodeEnd /\ h = Frame(high[1].size) /\ b = Base
         /\ d = DmaFrames /\ n = NormalFrames
  BY Extent, BankFacts, ProbedType
<1>2. s <= b /\ b + d + n <= m /\ e = m + h
  BY <1>1, Extent
<1>3. /\ Sizes[1] = d /\ Sizes[2] = m - s - d /\ Sizes[3] = h
      /\ Starts[1] = s /\ Starts[2] = s + d /\ Starts[3] = m
  BY <1>1 DEF Sizes, Starts
<1>4. PICK k \in Nat : k = m - s - d /\ d + n <= d + k
  BY <1>2
<1> QED
  BY <1>1, <1>2, <1>3, <1>4

LEMMA ZoneSizesAre ==
    ASSUME Laid, NodePlaced
    PROVE  ZoneSizes = Sizes /\ \A j \in 1..3 : Holes(j) = 0
<1>1. PICK s \in Nat, m \in Nat, h \in Nat, d \in Nat :
         s = NodeStart /\ m = Memend /\ h = Frame(high[1].size) /\ d = DmaFrames
  BY Extent, BankFacts, ProbedType
<1>2. NodeEnd = m + h
  BY <1>1, Extent
<1>3. Spanned = (m + h) - s
  BY <1>1, <1>2 DEF Spanned, NodePlaced
<1>4. d <= (m + h) - s
  <2>1. d \in Nat /\ NormalFrames \in Nat /\ d + NormalFrames + h <= NodeEnd - NodeStart
    BY <1>1, NodeSize, ProbedType
  <2> QED
    BY <1>1, <1>2, <2>1
<1>5. ~ (Spanned < DmaFrames)
  BY <1>1, <1>3, <1>4
<1>6. ZoneSizes = <<d, Spanned - d - h, h>>
  BY <1>1, <1>5 DEF ZoneSizes
<1>7. Spanned - d - h = m - s - d
  BY <1>3
<1> QED
  BY <1>1, <1>5, <1>6, <1>7 DEF Sizes, Holes

LEMMA ZoningInitZone ==
    ASSUME Laid, NodePlaced, Zoning, InitZone, Booted, SameLayout
    PROVE  Zoning' /\ (Sizes[Len(zones) + 1] # 0 => Claim(WaitTableSize(Sizes[Len(zones) + 1]) * WaitHead, CacheBytes, stage))
                   /\ (Sizes[Len(zones) + 1] = 0 => UNCHANGED <<bd, live, stage>>)
                   /\ Sizes[Len(zones) + 1] \in Nat
<1>1. PICK n \in 0..3 : n = Len(zones)
  BY DEF Zoning
<1>2. stage = "zone" /\ n < 3 /\ zones \in Seq(ZoneType) /\ \A k \in 1..n : ZoneIs(zones[k], k)
  BY <1>1 DEF InitZone, Zoning
<1>3. PICK j \in 1..3 : j = n + 1
  BY <1>1, <1>2
<1>4. PICK y \in Nat : y = Sizes[j]
  BY SizesType
<1>5. ZoneSizes[j] = y /\ Holes(j) = 0 /\ y - Holes(j) = y
  BY <1>4, ZoneSizesAre
<1> DEFINE from == IF j = 1 THEN bd.start ELSE zones[j - 1].zone_start_pfn + zones[j - 1].spanned_pages
<1>6. from = Starts[j]
  <2>1. CASE j = 1
    BY <2>1, SizesType DEF NodePlaced
  <2>2. CASE j = 2
    <3>1. ZoneIs(zones[1], 1)
      BY <1>2, <1>3, <2>2
    <3> QED
      BY <2>2, <3>1, SizesType DEF ZoneIs
  <2>3. CASE j = 3
    <3>1. ZoneIs(zones[2], 2)
      BY <1>2, <1>3, <2>3
    <3> QED
      BY <2>3, <3>1, SizesType DEF ZoneIs
  <2> QED
    BY <2>1, <2>2, <2>3
<1>7. PICK z : z = [zone_start_pfn |-> Starts[j], spanned_pages |-> y, present_pages |-> y,
                    pageset |-> Pageset(PcpBatch(y)), pages_min |-> 0, pages_low |-> 0, pages_high |-> 0]
  OBVIOUS
<1>8. zones' = Append(zones, z) /\ (IF y = 0 THEN UNCHANGED <<bd, live, stage>>
                                    ELSE Claim(WaitTableSize(y) * WaitHead, CacheBytes, stage))
  BY <1>1, <1>3, <1>5, <1>6, <1>7 DEF InitZone
<1>9. z \in ZoneType /\ ZoneIs(z, j)
  <2>1. Starts[j] \in Nat
    BY SizesType
  <2>2. Pageset(PcpBatch(y)) \in {Pageset(PcpBatch(m)) : m \in Nat}
    OBVIOUS
  <2> QED
    BY <1>4, <1>7, <2>1, <2>2 DEF ZoneType, ZoneIs
<1>10. /\ zones' \in Seq(ZoneType) /\ Len(zones') = n + 1 /\ zones'[n + 1] = z
       /\ \A k \in 1..n : zones'[k] = zones[k]
  BY <1>1, <1>2, <1>8, <1>9, SeqParts
<1>11. \A k \in 1..Len(zones') : ZoneIs(zones'[k], k)
  BY <1>2, <1>3, <1>9, <1>10
<1>12. Sizes' = Sizes /\ Starts' = Starts
  BY LayoutStays DEF Sizes, Starts, SameLayout
<1>13. \A k \in 1..Len(zones') : ZoneIs(zones[k], k)'
  BY <1>11, <1>12 DEF ZoneIs
<1>14. stage' \in {"zone", "panic"}
  BY <1>2, <1>8 DEF Claim
<1>15. Zoning'
  BY <1>3, <1>10, <1>13, <1>14 DEF Zoning, Booted
<1> QED
  BY <1>1, <1>3, <1>4, <1>8, <1>15

\* Where a step that leaves the zones alone may go.
Onward ==
    /\ stage # "up" /\ stage' # "up"
    /\ stage' # "panic" => Booted \/ stage = "cmdline"
    /\ stage' \in {"cmdline", "tests", "memtable", "mem_map"} => stage \in {"cmdline", "tests", "memtable", "mem_map"}
    /\ stage = "cmdline" => stage' \in {"cmdline", "tests", "panic"}
    /\ stage' = "zone" => stage \in {"mem_map", "zone"}
    /\ stage' \notin {"panic", "cmdline", "tests", "memtable", "mem_map", "zone"} => Len(zones) = 3

LEMMA ZoningStays ==
    ASSUME Zoning, SameLayout, zones' = zones, Onward
    PROVE  Zoning'
<1>1. Sizes' = Sizes /\ Starts' = Starts
  BY LayoutStays DEF Sizes, Starts, SameLayout
<1>2. \A j : ZoneIs(zones[j], j)' <=> ZoneIs(zones[j], j)
  BY <1>1 DEF ZoneIs
<1>3. CASE stage' = "panic"
  BY <1>3 DEF Zoning, Booted
<1>4. CASE stage' \in {"cmdline", "tests", "memtable", "mem_map"}
  <2>1. zones = <<>>
    BY <1>4 DEF Zoning, Onward
  <2>2. zones \in Seq(ZoneType) /\ Len(zones) = 0 /\ 1..Len(zones) = {}
    BY <2>1
  <2> QED
    BY <1>4, <2>1, <2>2 DEF Zoning, Booted, Onward
<1>5. CASE stage' \notin {"panic", "cmdline", "tests", "memtable", "mem_map"}
  <2>1. Booted /\ stage # "up" /\ stage' # "up"
    BY <1>5 DEF Onward, Booted
  <2>2. zones \in Seq(ZoneType) /\ Len(zones) \in 0..3 /\ \A j \in 1..Len(zones) : ZoneIs(zones[j], j)
    BY <2>1 DEF Zoning
  <2>3. \A j \in 1..Len(zones) : ZoneIs(zones[j], j)'
    BY <1>2, <2>2
  <2>4. stage' # "zone" => Len(zones) = 3
    BY <1>5 DEF Onward
  <2> QED
    BY <1>5, <2>1, <2>2, <2>3, <2>4 DEF Zoning, Booted
<1> QED
  BY <1>3, <1>4, <1>5

\* A hash table has an entry.
LEMMA HashEntry ==
    ASSUME Laid, Zoning, Booted, Len(zones) = 3, NEW scale \in {2, 4}
    PROVE  Bucket * HashEntries(scale) \in Nat \ {0}
<1>1. PICK a \in Nat, b \in Nat, c \in Nat : a = Sizes[1] /\ b = Sizes[2] /\ c = Sizes[3]
  BY SizesType
<1>2. zones[1].present_pages = a /\ zones[2].present_pages = b /\ zones[3].present_pages = c
  <2>1. 1 \in 1..Len(zones) /\ 2 \in 1..Len(zones) /\ 3 \in 1..Len(zones)
    OBVIOUS
  <2> QED
    BY <1>1, <2>1 DEF Zoning, ZoneIs
<1>3. PICK l \in Nat \ {0}, m \in Nat : l = a + b /\ m = l + c /\ DmaFrames + NormalFrames <= l
  <2>1. DmaFrames + NormalFrames <= a + b /\ DmaFrames + NormalFrames > 0
    BY <1>1, SizesType, BootAssumption
  <2>2. DmaFrames + NormalFrames \in Nat
    BY ProbedType
  <2>3. a + b \in Nat \ {0}
    BY <2>1, <2>2
  <2> QED
    BY <2>1, <2>3
<1>4. PICK w \in Nat \ {0} : w = Align(l, Megabyte) \div scale
  <2>1. PICK g \in Nat : g = Megabyte /\ g >= 4
    BY BootAssumption
  <2>2. PICK q \in Int : q = RoundUp(l, g) /\ l <= q * g
    BY <2>1, RoundUpAtMost
  <2>3. q >= 1
    <3>1. CASE q <= 0
      <4>1. q * g <= 0
        BY <2>1, <3>1
      <4> QED
        BY <2>2, <4>1
    <3> QED
      BY <3>1
  <2>4. q * g >= 4
    <3>1. q * g >= g
      BY <2>1, <2>3
    <3> QED
      BY <2>1, <3>1
  <2>5. PICK x \in Nat : x = q * g /\ x >= 4
    BY <2>4
  <2>6. x \div scale \in Nat \ {0}
    BY <2>5
  <2>7. Align(l, Megabyte) = x
    BY <2>1, <2>2, <2>5 DEF Align
  <2> QED
    BY <2>6, <2>7
<1>5. PICK t \in Nat \ {0} : t = ((m * PageSize) \div 16) \div Bucket
  <2>1. Bucket \in Nat \ {0} /\ (DmaFrames + NormalFrames) * PageSize >= 16 * Bucket
    BY BootAssumption
  <2>2. PICK n \in Nat : n = DmaFrames + NormalFrames /\ n <= m
    BY <1>3, ProbedType
  <2>3. At(n) <= At(m) /\ At(m) \in Nat /\ At(n) = n * PageSize
    <3>1. n \in Int /\ m \in Int
      OBVIOUS
    <3> QED
      BY <2>2, <3>1, PageOrder, PageEdges DEF At
  <2>4. PICK x \in Nat : x = m * PageSize /\ x >= 16 * Bucket
    <3>1. At(m) = m * PageSize /\ At(n) = (DmaFrames + NormalFrames) * PageSize
      BY <2>2 DEF At
    <3>2. PICK x \in Nat, y \in Nat, k \in Nat : x = At(m) /\ y = At(n) /\ k = Bucket
      <4>1. n \in Nat
        OBVIOUS
      <4>2. At(n) \in Nat
        BY <4>1, PageEdges
      <4> QED
        BY <2>1, <2>3, <4>2
    <3>3. y <= x
      BY <2>3, <3>2
    <3>4. 16 * k <= y
      BY <2>1, <3>1, <3>2
    <3>5. x >= 16 * k
      BY <3>3, <3>4
    <3> QED
      BY <3>1, <3>2, <3>5
  <2>5. PICK y \in Nat : y = x \div 16
    BY DivBounds
  <2>6. Bucket <= y
    BY <2>1, <2>4, <2>5
  <2>7. PICK k \in Nat : k = Bucket /\ k # 0
    BY <2>1
  <2>8. 1 <= y \div k /\ y \div k \in Nat
    <3>1. 1 * k <= y
      BY <2>6, <2>7
    <3> QED
      BY <2>7, <3>1, DivAtLeast, DivBounds
  <2> QED
    BY <2>4, <2>5, <2>7, <2>8
<1>6. PICK e \in Nat \ {0} : e = IF w > t THEN t ELSE w
  OBVIOUS
<1>7. HashEntries(scale) = Pow2[Log2(e)]
  BY <1>2, <1>3, <1>4, <1>5, <1>6 DEF HashEntries
<1>8. PICK p \in Nat \ {0} : p = Pow2[Log2(e)]
  <2>1. PICK k \in Nat : k = Log2(e)
    BY Logarithm
  <2>2. Pow2[k] \in Nat /\ Pow2[k] > k
    BY Powers
  <2> QED
    BY <2>1, <2>2
<1>9. PICK k \in Nat \ {0} : k = Bucket
  BY BootAssumption
<1>10. k * p \in Nat \ {0}
  OBVIOUS
<1> QED
  BY <1>7, <1>8, <1>9, <1>10

(****************************************************************************)
(* mem_map and its holes.                                                   *)
(****************************************************************************)
Early == stage \in {"tests", "memtable", "mem_map"}

MemMapping ==
    Booted =>
      /\ Early => \A a \in live : a.by # "mem_map"
      /\ ~ Early => /\ \E a \in live : a.by = "mem_map"
                    /\ \A a \in live : a.by = "mem_map" => a.size = (NodeEnd - NodeStart + 1) * StructPage

\* A page of mem_map of which no frame of memory has a part of its struct page.
Hole(f) ==
    \E from, to \in Nat :
        /\ NodeStart <= from /\ from <= to /\ to <= Memend /\ (from..(to - 1)) \cap Ram = {}
        /\ StructOf(from) <= At(f) /\ At(f) + PageSize <= StructOf(to)

LEMMA MemMapHeld ==
    ASSUME Booking, MemMapping, Booted, ~ Early
    PROVE  MemMap \in live /\ Held(MemMap) /\ MemMap.size = (NodeEnd - NodeStart + 1) * StructPage
<1>1. MemMap \in live /\ MemMap.by = "mem_map"
  BY DEF MemMap, MemMapping
<1> QED
  BY <1>1 DEF MemMapping, Booking, Booted

LEMMA StructType ==
    ASSUME Laid, Booking, MemMapping, Booted, ~ Early
    PROVE  /\ \A f \in Int : StructOf(f) \in Int
           /\ \A f, g \in Int : f <= g => StructOf(f) <= StructOf(g)
           /\ \A f, g \in Int : f < g => StructOf(f) + StructPage <= StructOf(g)
           /\ StructOf(NodeStart) = MemMap.start
           /\ StructOf(NodeEnd) + StructPage = MemMap.start + MemMap.size
           /\ StructPage \in Nat \ {0} /\ MemMap.start \in Nat
<1>1. PICK t \in Nat \ {0} : t = StructPage
  BY BootAssumption
<1>2. PICK m \in Nat : m = MemMap.start
  BY MemMapHeld DEF Held, Sized
<1>3. PICK s \in Nat, e \in Nat : s = NodeStart /\ e = NodeEnd
  BY Extent
<1>4. bd.start = s
  BY <1>3 DEF Booking, NodePlaced
<1>5. ASSUME NEW f \in Int PROVE StructOf(f) = m + (f - s) * t
  BY <1>1, <1>2, <1>4 DEF StructOf
<1>6. ASSUME NEW f \in Int PROVE StructOf(f) \in Int
  <2>1. (f - s) * t \in Int
    OBVIOUS
  <2> QED
    BY <1>5, <2>1
<1>7. ASSUME NEW f \in Int, NEW g \in Int
      PROVE  (f <= g => StructOf(f) <= StructOf(g)) /\ (f < g => StructOf(f) + t <= StructOf(g))
  <2>1. PICK x \in Int, y \in Int : x = f - s /\ y = g - s
    OBVIOUS
  <2>2. x * t \in Int /\ y * t \in Int
    OBVIOUS
  <2>3. x <= y => x * t <= y * t
    OBVIOUS
  <2>4. x + 1 <= y => x * t + t <= y * t
    <3>1. (x + 1) * t = x * t + t
      OBVIOUS
    <3>2. x + 1 <= y => (x + 1) * t <= y * t
      OBVIOUS
    <3> QED
      BY <3>1, <3>2
  <2>5. StructOf(f) = m + x * t /\ StructOf(g) = m + y * t
    BY <1>5, <2>1
  <2>6. (f <= g => x <= y) /\ (f < g => x + 1 <= y)
    BY <2>1
  <2> QED
    BY <2>2, <2>3, <2>4, <2>5, <2>6
<1>8. StructOf(s) = m
  BY <1>5
<1>9. StructOf(e) + t = m + MemMap.size
  <2>1. MemMap.size = (e - s + 1) * t
    BY <1>1, <1>3, MemMapHeld
  <2>2. (e - s + 1) * t = (e - s) * t + t
    OBVIOUS
  <2>3. StructOf(e) = m + (e - s) * t /\ (e - s) * t \in Int
    BY <1>5
  <2> QED
    BY <2>1, <2>2, <2>3
<1> QED
  BY <1>1, <1>2, <1>3, <1>6, <1>7, <1>8, <1>9

\* What free_memmap frees.
LEMMA MemmapFreed ==
    ASSUME Laid, Booking, MemMapping, Booted, ~ Early, NEW d \in Bootmems, NEW from \in Nat, NEW to \in Nat
    PROVE  /\ FreeMemmap(d, from, to) \in Bootmems
           /\ FreeMemmap(d, from, to).start = d.start /\ FreeMemmap(d, from, to).end = d.end
           /\ FreeMemmap(d, from, to).node_bootmem_map = d.node_bootmem_map
           /\ FreeMemmap(d, from, to).reserved \subseteq d.reserved
           /\ \A f \in d.reserved \ FreeMemmap(d, from, to).reserved :
                StructOf(from) <= At(f) /\ At(f) + PageSize <= StructOf(to)
<1>1. PICK x \in Int, y \in Int : x = StructOf(from) /\ y = StructOf(to)
  <2>1. from \in Int /\ to \in Int
    OBVIOUS
  <2> QED
    BY <2>1, StructType
<1>2. PICK p \in Int, q \in Int : p = PagesUp(x) /\ q = Frame(y) /\ x <= At(p) /\ At(q) <= y
  BY PageOf
<1>3. PICK u \in Int, v \in Int : u = At(p) /\ v = At(q)
  BY PageEdges
<1>4. Align(x, PageSize) = u /\ Frame(y) * PageSize = v
  BY <1>2, <1>3 DEF Align, PagesUp, At
<1>5. FreeMemmap(d, from, to) = IF u < v THEN FreeBootmem(d, u, v - u) ELSE d
  BY <1>1, <1>4 DEF FreeMemmap
<1>6. CASE u < v
  <2>1. PICK w \in Int : w = v - u
    OBVIOUS
  <2>2. PICK e : e = FreeBootmem(d, u, w)
    OBVIOUS
  <2>3. /\ e \in Bootmems /\ e.start = d.start /\ e.end = d.end /\ e.node_bootmem_map = d.node_bootmem_map
        /\ e.reserved = d.reserved \ Within(u, w)
    BY <2>2, FreeingType
  <2>4. ASSUME NEW f \in Within(u, w) PROVE x <= At(f) /\ At(f) + PageSize <= y
    <3>1. f \in Int
      BY InTouched
    <3>2. PICK z \in Int : z = At(f)
      BY <3>1, PageEdges
    <3>3. u <= z /\ z + PageSize <= u + w
      BY <3>1, <3>2, InTouched
    <3> QED
      BY <1>2, <1>3, <2>1, <3>2, <3>3, Widths
  <2>5. FreeMemmap(d, from, to) = e
    BY <1>5, <1>6, <2>1, <2>2
  <2> QED
    BY <1>1, <2>3, <2>4, <2>5
<1>7. CASE ~ (u < v)
  BY <1>5, <1>7
<1> QED
  BY <1>6, <1>7

\* No frame of memory lies between the end of a bank and the start of the next in the list.
LEMMA GapEmpty ==
    ASSUME Laid, WellFormed, NEW k \in Banks, NEW n \in Banks, k < n,
           NEW from \in Nat, from = PagesUp(mem[k].start + mem[k].size),
           NEW to \in Nat, to = Frame(mem[n].start), from <= to,
           \A i \in Banks : i < n => PagesUp(mem[i].start + mem[i].size) <= from
    PROVE  /\ NodeStart <= from /\ to <= Memend
           /\ (from..(to - 1)) \cap Ram = {}
<1>1. /\ \A i \in Banks : mem[i].start \in Nat /\ mem[i].size \in Nat /\ mem[i].size # 0
      /\ Banks \subseteq Nat
  BY BankFacts DEF Sized
<1>2. PICK ks \in Nat, kz \in Nat, ns \in Nat, nz \in Nat :
         ks = mem[k].start /\ kz = mem[k].size /\ ns = mem[n].start /\ nz = mem[n].size
  BY <1>1
<1>3. PICK s \in Nat, m \in Nat : s = NodeStart /\ m = Memend
  BY Extent
<1>4. s <= from
  <2>1. s <= PagesUp(ks)
    BY <1>2, <1>3, Extent DEF StartPfn
  <2>2. PagesUp(ks) <= PagesUp(ks + kz)
    BY PagesMonotone
  <2>3. PagesUp(ks) \in Int
    BY PageOf
  <2> QED
    BY <1>2, <2>1, <2>2, <2>3
<1>5. to <= m
  <2>1. Frame(ns + nz) <= m
    BY <1>2, <1>3, Extent DEF EndPfn
  <2>2. Frame(ns) <= Frame(ns + nz)
    BY PagesMonotone
  <2>3. Frame(ns + nz) \in Int
    BY PageOf
  <2> QED
    BY <1>2, <2>1, <2>2, <2>3
<1>6. ks + kz <= At(from) /\ At(to) <= ns
  BY <1>2, PageOf
<1>7. ASSUME NEW f \in from..(to - 1), f \in Ram PROVE FALSE
  <2>1. PICK u \in Nat : u = At(f) /\ f \in Nat
    <3>1. f \in Nat
      OBVIOUS
    <3> QED
      BY <3>1, PageEdges
  <2>2. At(from) <= u /\ u + PageSize <= At(to) /\ At(to) \in Int /\ At(from) \in Int
    <3>1. from <= f /\ f + 1 <= to /\ f \in Int /\ f + 1 \in Int /\ from \in Int /\ to \in Int
      OBVIOUS
    <3>2. At(from) <= At(f) /\ At(f + 1) <= At(to) /\ At(f + 1) = At(f) + PageSize
      BY <3>1, PageOrder, PageEdges
    <3> QED
      BY <2>1, <3>1, <3>2, PageEdges
  <2>3. CASE f \in FramesOf(high[1])
    <3>1. high[1].start = At(m)
      BY <1>3 DEF WellFormed, At
    <3>2. PICK z \in Nat : z = high[1].size
      BY BankFacts
    <3>3. f \in Within(At(m), z)
      BY <2>3, <3>1, <3>2, FramesFreed
    <3>4. At(m) \in Int /\ m \in Int /\ f \in Int
      BY PageEdges
    <3>5. At(m) <= At(f)
      BY <3>2, <3>3, <3>4, InTouched
    <3>6. m <= f
      BY <3>4, <3>5, PageOrder
    <3> QED
      BY <1>5, <3>6
  <2>4. CASE f \in LowRam
    <3>1. PICK i \in Banks : f \in FramesOf(mem[i])
      BY <2>4 DEF LowRam
    <3>2. PICK x \in Nat, z \in Nat : x = mem[i].start /\ z = mem[i].size
      BY <1>1
    <3>3. x <= u /\ u + PageSize <= x + z
      <4>1. f \in Within(x, z) /\ f \in Int
        BY <3>1, <3>2, FramesFreed, <2>1
      <4> QED
        BY <2>1, <4>1, InTouched
    <3>4. CASE i < n
      <4>1. PagesUp(x + z) <= from
        BY <3>2, <3>4
      <4>2. x + z <= At(PagesUp(x + z)) /\ PagesUp(x + z) \in Int
        BY PageOf
      <4>3. At(PagesUp(x + z)) <= At(from) /\ At(PagesUp(x + z)) \in Int
        BY <4>1, <4>2, PageOrder
      <4> QED
        BY <2>2, <3>3, <4>2, <4>3, Widths
    <3>5. CASE i = n
      BY <1>2, <1>6, <2>2, <3>2, <3>3, <3>5, Widths
    <3>6. CASE i > n
      <4>1. ~ (ks < x /\ x < ns)
        BY <1>1, <1>2, <3>2, <3>6 DEF WellFormed
      <4>2. x < ns
        BY <1>6, <2>2, <3>3, Widths
      <4>3. ks + kz <= x \/ x + z <= ks
        BY <1>1, <1>2, <3>2, <3>6 DEF WellFormed, Apart
      <4>4. ~ (x + z <= ks)
        BY <1>6, <2>2, <3>3, Widths
      <4>5. kz # 0
        BY <1>1, <1>2
      <4> QED
        BY <4>1, <4>2, <4>3, <4>4, <4>5
    <3> QED
      BY <1>1, <3>4, <3>5, <3>6
  <2> QED
    BY <1>7, <2>3, <2>4 DEF Ram
<1> QED
  BY <1>3, <1>4, <1>5, <1>7

(****************************************************************************)
(* free_unused_memmap_node.                                                 *)
(****************************************************************************)
Passes == [bd : Bootmems, prev : Nat, unordered : BOOLEAN]
EndOf(i) == PagesUp(mem[i].start + mem[i].size)

\* What it has done after the nth bank.
PassedTo(s, n) ==
    /\ s \in Passes
    /\ s.bd.start = bd.start /\ s.bd.end = bd.end /\ s.bd.node_bootmem_map = bd.node_bootmem_map
    /\ s.bd.reserved \subseteq bd.reserved
    /\ ~ s.unordered => /\ \A i \in Banks : i <= n => EndOf(i) <= s.prev
                        /\ s.prev = 0 \/ \E k \in Banks : k <= n /\ s.prev = EndOf(k)
    /\ WellFormed => \A f \in bd.reserved \ s.bd.reserved : Hole(f)

LEMMA AfterBankPasses ==
    ASSUME Laid, Booking, MemMapping, Booted, ~ Early, NEW s, NEW n \in Banks, PassedTo(s, n - 1)
    PROVE  PassedTo(AfterBank(s, mem[n]), n)
<1>1. /\ s \in Passes
      /\ s.bd.start = bd.start /\ s.bd.end = bd.end /\ s.bd.node_bootmem_map = bd.node_bootmem_map
      /\ s.bd.reserved \subseteq bd.reserved
      /\ ~ s.unordered => /\ \A i \in Banks : i <= n - 1 => EndOf(i) <= s.prev
                          /\ s.prev = 0 \/ \E k \in Banks : k <= n - 1 /\ s.prev = EndOf(k)
      /\ WellFormed => \A f \in bd.reserved \ s.bd.reserved : Hole(f)
  BY DEF PassedTo
<1>2. s.bd \in Bootmems /\ s.prev \in Nat /\ s.unordered \in BOOLEAN /\ n \in Nat /\ Banks \subseteq Nat
  BY <1>1, BankFacts DEF Passes
<1>3. PICK x \in Nat, z \in Nat : x = mem[n].start /\ z = mem[n].size
  BY BankFacts DEF Sized
<1>4. PICK from \in Nat, to \in Nat : from = s.prev /\ to = Frame(x)
  BY <1>2, PageOf
<1>5. PICK end \in Nat : end = PagesUp(x + z)
  <2>1. x + z \in Int /\ x + z >= 0
    OBVIOUS
  <2> QED
    BY <2>1, PageOf
<1>6. PICK t : t = AfterBank(s, mem[n])
  OBVIOUS
<1>7. CASE s.unordered \/ to < from
  <2>1. t = [s EXCEPT !.unordered = TRUE]
    BY <1>3, <1>4, <1>6, <1>7 DEF AfterBank
  <2>2. t \in Passes /\ t.bd = s.bd /\ t.unordered = TRUE
    BY <1>1, <2>1 DEF Passes
  <2>3. PassedTo(t, n)
    BY <1>1, <2>2 DEF PassedTo
  <2> QED
    BY <1>6, <2>3
<1>8. CASE ~ (s.unordered \/ to < from)
  <2>1. PICK d : d = IF from \notin {0, to} THEN FreeMemmap(s.bd, from, to) ELSE s.bd
    OBVIOUS
  <2>2. t = [bd |-> d, prev |-> end, unordered |-> FALSE]
    BY <1>3, <1>4, <1>5, <1>6, <1>8, <2>1 DEF AfterBank
  <2>3. /\ d \in Bootmems /\ d.start = s.bd.start /\ d.end = s.bd.end
        /\ d.node_bootmem_map = s.bd.node_bootmem_map /\ d.reserved \subseteq s.bd.reserved
        /\ \A f \in s.bd.reserved \ d.reserved :
              /\ from \notin {0, to}
              /\ StructOf(from) <= At(f) /\ At(f) + PageSize <= StructOf(to)
    <3>1. CASE from \notin {0, to}
      <4>1. d = FreeMemmap(s.bd, from, to)
        BY <2>1, <3>1
      <4>2. PICK e : e = s.bd /\ e \in Bootmems
        BY <1>2
      <4>3. /\ FreeMemmap(e, from, to) \in Bootmems
            /\ FreeMemmap(e, from, to).start = e.start /\ FreeMemmap(e, from, to).end = e.end
            /\ FreeMemmap(e, from, to).node_bootmem_map = e.node_bootmem_map
            /\ FreeMemmap(e, from, to).reserved \subseteq e.reserved
        BY <4>2, MemmapFreed
      <4>4. \A f \in e.reserved \ FreeMemmap(e, from, to).reserved :
               StructOf(from) <= At(f) /\ At(f) + PageSize <= StructOf(to)
        BY <4>2, MemmapFreed
      <4> QED
        BY <3>1, <4>1, <4>2, <4>3, <4>4
    <3>2. CASE ~ (from \notin {0, to})
      BY <1>2, <2>1, <3>2
    <3> QED
      BY <3>1, <3>2
  <2>4. to <= end
    <3>1. x <= x + z /\ x \in Int /\ x + z \in Int
      OBVIOUS
    <3>2. Frame(x) <= Frame(x + z) /\ Frame(x + z) \in Int /\ PagesUp(x + z) \in Int
      BY <3>1, PagesMonotone, PageOf
    <3>3. At(Frame(x + z)) <= x + z /\ x + z <= At(PagesUp(x + z))
      BY <3>1, PageOf
    <3>4. Frame(x + z) <= PagesUp(x + z)
      BY <3>1, <3>2, <3>3, PageOrder
    <3> QED
      BY <1>4, <1>5, <3>2, <3>4
  <2>5. end = EndOf(n)
    BY <1>3, <1>5 DEF EndOf
  <2>6. \A i \in Banks : i <= n => EndOf(i) <= end
    <3> TAKE i \in Banks
    <3>1. CASE i <= n - 1
      <4>1. EndOf(i) <= from
        BY <1>1, <1>4, <1>8, <3>1
      <4>2. EndOf(i) \in Int
        <5>1. mem[i].start + mem[i].size \in Int
          <6>1. mem[i].start \in Nat /\ mem[i].size \in Nat
            BY BankFacts DEF Sized
          <6> QED
            BY <6>1
        <5> QED
          BY <5>1, PageOf DEF EndOf
      <4> QED
        BY <1>8, <2>4, <4>1, <4>2
    <3>2. CASE i = n
      BY <2>5, <3>2
    <3> QED
      BY <1>2, <3>1, <3>2
  <2>7. ASSUME WellFormed, NEW f \in bd.reserved \ d.reserved PROVE Hole(f)
    <3>1. CASE f \notin s.bd.reserved
      BY <1>1, <2>7, <3>1
    <3>2. CASE f \in s.bd.reserved
      <4>1. /\ from \notin {0, to}
            /\ StructOf(from) <= At(f) /\ At(f) + PageSize <= StructOf(to)
        BY <2>3, <3>2
      <4>2. PICK k \in Banks : k <= n - 1 /\ from = EndOf(k)
        BY <1>1, <1>4, <1>8, <4>1
      <4>3. \A i \in Banks : i < n => EndOf(i) <= from
        BY <1>1, <1>2, <1>4, <1>8
      <4>4. k < n /\ from <= to /\ to = Frame(mem[n].start)
        BY <1>2, <1>3, <1>4, <1>8, <4>2
      <4>5. NodeStart <= from /\ to <= Memend /\ (from..(to - 1)) \cap Ram = {}
        BY <2>7, <4>2, <4>3, <4>4, GapEmpty DEF EndOf
      <4> QED
        BY <4>1, <4>4, <4>5 DEF Hole
    <3> QED
      BY <3>1, <3>2
  <2>8. t \in Passes /\ t.bd = d /\ t.prev = end /\ t.unordered = FALSE
    BY <2>2, <2>3 DEF Passes
  <2>9. n <= n
    BY <1>2
  <2>10. PassedTo(t, n)
    BY <1>1, <2>3, <2>5, <2>6, <2>7, <2>8, <2>9 DEF PassedTo
  <2> QED
    BY <1>6, <2>10
<1> QED
  BY <1>7, <1>8

\* mem_map's holes, and nothing else, are freed if the banks are as they should be.
LEMMA HolesFreed ==
    ASSUME Laid, Booking, MemMapping, Booted, ~ Early
    PROVE  /\ WithoutHoles \in Bootmems
           /\ WithoutHoles.start = bd.start /\ WithoutHoles.end = bd.end
           /\ WithoutHoles.node_bootmem_map = bd.node_bootmem_map
           /\ WithoutHoles.reserved \subseteq bd.reserved
           /\ WellFormed => \A f \in bd.reserved \ WithoutHoles.reserved : Hole(f)
<1>1. Len(mem) \in Nat /\ Banks \subseteq 1..Len(mem) /\ Banks \subseteq Nat
  BY BankFacts
<1>2. bd \in Bootmems
  BY DEF Booking, NodePlaced
<1>3. PICK start : start = [bd |-> bd, prev |-> 0, unordered |-> FALSE]
  OBVIOUS
<1>4. start \in Passes /\ start.bd = bd /\ start.prev = 0
  BY <1>2, <1>3 DEF Passes
<1> DEFINE Onto(i, s) == IF i \in Banks THEN AfterBank(s, mem[i]) ELSE s
<1>5. PICK step : step = [i \in 1..Len(mem) |-> [s \in Passes |-> IF Onto(i, s) \in Passes THEN Onto(i, s) ELSE s]]
  OBVIOUS
<1>6. Loop(Len(mem), Passes, start, step)
  <2>1. step \in [1..Len(mem) -> [Passes -> Passes]]
    <3> HIDE DEF Onto
    <3> QED
      BY <1>5
  <2> QED
    BY <1>1, <1>4, <2>1 DEF Loop
<1> DEFINE Coming(f) == f = [n \in 0..Len(mem) |->
                               IF n = 0 THEN [bd |-> bd, prev |-> 0, unordered |-> FALSE]
                               ELSE IF n \in Banks THEN AfterBank(f[n - 1], mem[n]) ELSE f[n - 1]]
           g == CHOOSE f : Coming(f)
<1>7. PICK f : Run(f, Len(mem), Passes, start, step)
  BY <1>6, Recursion
<1>8. f \in [0..Len(mem) -> Passes] /\ f[0] = start /\ \A i \in 1..Len(mem) : f[i] = step[i][f[i - 1]]
  BY <1>7 DEF Run
<1> DEFINE F == {i \in 0..Len(mem) : PassedTo(f[i], i)}
<1>9. 0 \in F
  <2>1. \A i \in Banks : ~ (i <= 0)
    BY <1>1
  <2>2. 0 \in 0..Len(mem)
    BY <1>1
  <2> QED
    BY <1>4, <1>8, <2>1, <2>2 DEF PassedTo
<1>10. ASSUME NEW i \in 1..Len(mem), i - 1 \in F
       PROVE  i \in F /\ f[i] = Onto(i, f[i - 1])
  <2>1. PassedTo(f[i - 1], i - 1)
    BY <1>10
  <2>2. PICK s : s = f[i - 1]
    OBVIOUS
  <2>3. s \in Passes
    BY <2>1, <2>2 DEF PassedTo
  <2>4. i \in 0..Len(mem)
    BY <1>1
  <2>5. PassedTo(Onto(i, s), i)
    <3>1. CASE i \in Banks
      <4>1. PassedTo(AfterBank(s, mem[i]), i)
        BY <2>1, <2>2, <3>1, AfterBankPasses
      <4> QED
        BY <3>1, <4>1
    <3>2. CASE i \notin Banks
      <4>1. \A k \in Banks : k <= i <=> k <= i - 1
        BY <1>1, <3>2
      <4>2. PassedTo(s, i)
        BY <2>1, <2>2, <4>1 DEF PassedTo
      <4> QED
        BY <3>2, <4>2
    <3> QED
      BY <3>1, <3>2
  <2>6. f[i] = Onto(i, s)
    <3> HIDE DEF Onto
    <3>1. Onto(i, s) \in Passes
      BY <2>5 DEF PassedTo
    <3>2. step[i][s] = Onto(i, s)
      BY <1>5, <2>3, <3>1
    <3> QED
      BY <1>8, <2>2, <3>2
  <2> HIDE DEF Onto
  <2> QED
    BY <2>2, <2>4, <2>5, <2>6
<1>11. \A i \in 0..Len(mem) : i \in F
  <2>1. \A i \in 1..Len(mem) : i - 1 \in F => i \in F
    BY <1>10
  <2> HIDE DEF F
  <2> QED
    BY <1>1, <1>9, <2>1, UpTo
<1>12. \A i \in 1..Len(mem) : f[i] = Onto(i, f[i - 1])
  <2>1. \A i \in 1..Len(mem) : i - 1 \in 0..Len(mem)
    BY <1>1
  <2> HIDE DEF Onto, F
  <2> QED
    BY <1>10, <1>11, <2>1
<1>13. Coming(f)
  <2>1. \A i \in 0..Len(mem) : i # 0 => i \in 1..Len(mem)
    BY <1>1
  <2>2. \A i \in 0..Len(mem) : f[i] = IF i = 0 THEN start ELSE IF i \in Banks THEN AfterBank(f[i - 1], mem[i]) ELSE f[i - 1]
    BY <1>8, <1>12, <2>1
  <2> QED
    BY <1>3, <1>8, <2>2
<1>14. Coming(g)
  <2> HIDE DEF Coming
  <2> QED
    BY <1>13
<1>15. WithoutHoles = IF Len(mem) = 1 THEN bd ELSE g[Len(mem)].bd
  BY DEF WithoutHoles
<1> HIDE DEF g
<1>16. g[0] = start /\ \A i \in 1..Len(mem) : g[i] = Onto(i, g[i - 1])
  <2>1. \A i \in 0..Len(mem) : g[i] = IF i = 0 THEN start ELSE IF i \in Banks THEN AfterBank(g[i - 1], mem[i]) ELSE g[i - 1]
    BY <1>3, <1>14
  <2>2. 0 \in 0..Len(mem) /\ \A i \in 1..Len(mem) : i \in 0..Len(mem) /\ i # 0
    BY <1>1
  <2> QED
    BY <2>1, <2>2
<1> HIDE DEF Coming, Onto
<1> DEFINE G == {i \in 0..Len(mem) : g[i] = f[i]}
<1>17. \A i \in 0..Len(mem) : i \in G
  <2>1. 0 \in G
    BY <1>1, <1>8, <1>16
  <2>2. ASSUME NEW i \in 1..Len(mem), i - 1 \in G PROVE i \in G
    <3>1. i \in 0..Len(mem)
      BY <1>1
    <3> QED
      BY <1>12, <1>16, <2>2, <3>1
  <2> HIDE DEF G
  <2> QED
    BY <1>1, <2>1, <2>2, UpTo
<1>18. PassedTo(g[Len(mem)], Len(mem))
  <2>1. Len(mem) \in 0..Len(mem)
    BY <1>1
  <2> QED
    BY <1>11, <1>17, <2>1
<1>19. CASE Len(mem) = 1
  BY <1>2, <1>15, <1>19
<1>20. CASE Len(mem) # 1
  BY <1>15, <1>18, <1>20 DEF PassedTo, Passes
<1> QED
  BY <1>19, <1>20

(****************************************************************************)
(* The inductive invariant, and every step of the boot.                     *)
(****************************************************************************)
BootInv == Parsing /\ Booking /\ Zoning /\ MemMapping

LEMMA LaidOut == ASSUME BootInv, stage # "cmdline" PROVE Laid
  BY ParsingDone DEF BootInv, Parsing

LEMMA ParsingStays ==
    ASSUME Parsing, UNCHANGED layout, stage # "cmdline"
    PROVE  Parsing'
  BY DEF Parsing, layout, ProbedIn

LEMMA MemMappingClaim ==
    ASSUME MemMapping, Booted, NEW z, NEW al, NEW next, Claim(z, al, next), SameLayout,
           stage = "mem_map" => z = (NodeEnd - NodeStart + 1) * StructPage /\ next = "zone",
           stage # "mem_map" => (Early <=> next \in {"tests", "memtable", "mem_map"})
    PROVE  MemMapping'
<1>1. CASE stage' = "panic"
  BY <1>1 DEF MemMapping, Booted
<1>2. CASE stage' # "panic"
  <2>1. PICK a : a = [by |-> stage, start |-> AllocBootmem(bd, z, al).addr, size |-> z, align |-> al]
    OBVIOUS
  <2>2. stage' = next /\ live' = live \cup {a} /\ a.by = stage /\ a.size = z
    BY <1>2, <2>1 DEF Claim
  <2>3. NodeStart' = NodeStart /\ NodeEnd' = NodeEnd
    BY LayoutStays
  <2>4. CASE stage = "mem_map"
    <3>1. Early /\ ~ Early' /\ \A x \in live : x.by # "mem_map"
      BY <2>2, <2>4 DEF Early, MemMapping
    <3> QED
      BY <2>2, <2>3, <2>4, <3>1 DEF MemMapping
  <2>5. CASE stage # "mem_map"
    <3>1. Early' <=> Early
      BY <2>2, <2>5 DEF Early
    <3> QED
      BY <2>2, <2>3, <2>5, <3>1 DEF MemMapping
  <2> QED
    BY <2>4, <2>5
<1> QED
  BY <1>1, <1>2

LEMMA MemMappingStays ==
    ASSUME MemMapping, Booted, SameLayout, live' \subseteq live, Early' <=> Early, ~ Early => live' = live
    PROVE  MemMapping'
<1>1. NodeStart' = NodeStart /\ NodeEnd' = NodeEnd
  BY LayoutStays
<1> QED
  BY <1>1 DEF MemMapping

\* A step that allocates and leaves the zones alone.
LEMMA ClaimStep ==
    ASSUME BootInv, Allocating, NEW z \in Nat \ {0}, NEW al \in {CacheBytes, PageSize},
           NEW next, next \notin {"cmdline", "marks", "up"},
           Claim(z, al, next), UNCHANGED <<layout, kept, zones>>, Onward,
           stage = "mem_map" => z = (NodeEnd - NodeStart + 1) * StructPage /\ next = "zone",
           stage # "mem_map" => (Early <=> next \in {"tests", "memtable", "mem_map"})
    PROVE  BootInv'
<1>1. SameLayout /\ initrd' = initrd /\ kept' = kept /\ zones' = zones /\ Booted /\ stage # "cmdline"
  BY DEF SameLayout, layout, Booted, Allocating
<1>2. Parsing'
  BY <1>1, ParsingStays DEF BootInv
<1>3. Booking'
  BY <1>1, LaidOut, ClaimKeeps DEF BootInv
<1>4. Zoning'
  BY <1>1, ZoningStays DEF BootInv
<1>5. MemMapping'
  BY <1>1, MemMappingClaim DEF BootInv
<1> QED
  BY <1>2, <1>3, <1>4, <1>5 DEF BootInv

\* A step that allocates nothing.
LEMMA QuietStep ==
    ASSUME BootInv, Allocating, Allocating', UNCHANGED <<layout, bd, live, kept, zones>>, Onward, Early' <=> Early
    PROVE  BootInv'
<1>1. SameLayout /\ UNCHANGED <<initrd, bd, live, kept>> /\ zones' = zones /\ Booted /\ stage # "cmdline"
  BY DEF SameLayout, layout, Booted, Allocating
<1>2. Parsing'
  BY <1>1, ParsingStays DEF BootInv
<1>3. Booking'
  BY <1>1, BookStays DEF BootInv
<1>4. Zoning'
  BY <1>1, ZoningStays DEF BootInv
<1>5. MemMapping'
  BY <1>1, MemMappingStays DEF BootInv
<1> QED
  BY <1>2, <1>3, <1>4, <1>5 DEF BootInv

LEMMA BootInvInit == BootInit => BootInv
<1> SUFFICES ASSUME BootInit PROVE BootInv
  OBVIOUS
<1>1. Zoning /\ MemMapping
  BY DEF BootInit, Zoning, MemMapping, Booted
<1> QED
  BY <1>1, ParsingInit, BookingInit DEF BootInv

LEMMA BootInvParseArg == ASSUME BootInv, ParseArg PROVE BootInv'
<1>1. stage = "cmdline" /\ stage' = "cmdline" /\ UNCHANGED <<live, kept, zones>>
  BY DEF ParseArg
<1>2. Parsing'
  BY ParsingArg DEF BootInv
<1>3. Booking' /\ Zoning' /\ MemMapping'
  BY <1>1 DEF BootInv, Booking, Zoning, MemMapping, Booted, Allocating
<1> QED
  BY <1>2, <1>3 DEF BootInv

LEMMA BootInvBootmemInit == ASSUME BootInv, BootmemInit PROVE BootInv'
<1>1. stage = "cmdline" /\ stage' \in {"tests", "panic"} /\ zones' = zones /\ live' = live /\ args' = args /\ args = <<>>
  BY DEF BootmemInit
<1>2. Booking' /\ Laid' /\ SameLayout /\ seen' = seen /\ live = {}
  BY BookingBootmemInit, <1>1 DEF BootInv, Booking, BootmemInit, SameLayout
<1>3. Parsing'
  <2>1. /\ mem' = mem /\ high' = high
        /\ \A k \in 1..Len(args) : FALSE
    BY <1>1, <1>2 DEF SameLayout
  <2>2. "mem" \in seen /\ ProbedIn(mem) /\ Len(high) > 0
    BY <2>1 DEF BootInv, Parsing
  <2> QED
    BY <1>1, <1>2, <2>1, <2>2 DEF Parsing, Laid, ProbedIn, BootInv
<1>4. Zoning'
  <2>1. zones = <<>>
    BY <1>1 DEF BootInv, Zoning
  <2>2. zones \in Seq(ZoneType) /\ Len(zones) = 0 /\ 1..Len(zones) = {}
    BY <2>1
  <2> QED
    BY <1>1, <2>1, <2>2 DEF Zoning, Booted
<1>5. MemMapping'
  BY <1>1, <1>2 DEF MemMapping, Booted, Early
<1> QED
  BY <1>2, <1>3, <1>4, <1>5 DEF BootInv

LEMMA BootInvTests == ASSUME BootInv, TestAlloc \/ TestFree \/ TestReserve PROVE BootInv'
<1>1. stage = "tests" /\ Allocating /\ Early /\ Booted /\ Laid
  BY LaidOut DEF TestAlloc, TestFree, TestReserve, Allocating, Early, Booted
<1>2. CASE TestAlloc
  <2>1. PICK z \in TestSizes, al \in {CacheBytes, PageSize} : Claim(z, al, stage)
    BY <1>2 DEF TestAlloc
  <2>2. z \in Nat \ {0}
    BY BootAssumption
  <2>3. UNCHANGED <<layout, kept, zones>> /\ Onward
    BY <1>1, <1>2, <2>1 DEF TestAlloc, Onward, Claim, Booted
  <2> QED
    BY <1>1, <2>1, <2>2, <2>3, ClaimStep
<1>3. CASE TestFree \/ TestReserve
  <2>1. UNCHANGED layout /\ zones' = zones /\ stage' \in {"tests", "panic"} /\ live' \subseteq live
    BY <1>1, <1>3 DEF TestFree, TestReserve
  <2>2. SameLayout /\ Onward
    BY <1>1, <2>1 DEF SameLayout, layout, Onward
  <2>3. Booking'
    BY <1>1, <1>3, TestFreeKeeps, TestReserveKeeps DEF BootInv
  <2>4. Parsing' /\ Zoning'
    BY <1>1, <2>1, <2>2, ParsingStays, ZoningStays DEF BootInv
  <2>5. MemMapping'
    <3>1. CASE stage' = "panic"
      BY <3>1 DEF MemMapping, Booted
    <3>2. CASE stage' = "tests"
      BY <1>1, <2>1, <2>2, <3>2, MemMappingStays DEF Early, BootInv
    <3> QED
      BY <2>1, <3>1, <3>2
  <2> QED
    BY <2>3, <2>4, <2>5 DEF BootInv
<1> QED
  BY <1>2, <1>3

LEMMA BootInvEarly == ASSUME BootInv, ZeroPage \/ MemtableInit \/ NodeMemMap PROVE BootInv'
<1>1. CASE ZeroPage
  <2>1. /\ stage = "tests" /\ Claim(PageSize, PageSize, "memtable") /\ UNCHANGED <<layout, kept, zones>>
        /\ PageSize \in Nat \ {0}
    BY <1>1, Widths DEF ZeroPage, later
  <2>2. Onward /\ Allocating /\ Early
    BY <2>1 DEF Onward, Claim, Booted, Allocating, Early
  <2> QED
    BY <2>1, <2>2, ClaimStep
<1>2. CASE MemtableInit
  <2>1. stage = "memtable" /\ stage' = "mem_map" /\ UNCHANGED <<layout, bd, live, kept, zones>>
    BY <1>2 DEF MemtableInit
  <2>2. Onward /\ Allocating /\ Allocating' /\ Early /\ Early'
    BY <2>1 DEF Onward, Booted, Allocating, Early
  <2> QED
    BY <2>1, <2>2, QuietStep
<1>3. CASE NodeMemMap
  <2>1. stage = "mem_map" /\ Claim((bd.end - bd.start + 1) * StructPage, CacheBytes, "zone") /\ UNCHANGED <<layout, kept, zones>>
    BY <1>3 DEF NodeMemMap, later
  <2>2. Onward /\ Allocating /\ Booted /\ Laid
    BY <2>1, LaidOut DEF Onward, Claim, Booted, Allocating
  <2>3. bd.end = NodeEnd /\ bd.start = NodeStart
    BY <2>2 DEF BootInv, Booking, NodePlaced
  <2>4. PICK z \in Nat \ {0} : z = (NodeEnd - NodeStart + 1) * StructPage
    <3>1. PICK n \in Nat \ {0}, t \in Nat \ {0} : n = NodeEnd - NodeStart /\ t = StructPage
      BY <2>2, NodeSize, BootAssumption
    <3>2. (n + 1) * t \in Nat \ {0}
      OBVIOUS
    <3> QED
      BY <3>1, <3>2
  <2>5. Claim(z, CacheBytes, "zone")
    BY <2>1, <2>3, <2>4
  <2> QED
    BY <2>1, <2>2, <2>4, <2>5, ClaimStep
<1> QED
  BY <1>1, <1>2, <1>3

LEMMA BootInvInitZone == ASSUME BootInv, InitZone PROVE BootInv'
<1>1. stage = "zone" /\ UNCHANGED <<layout, kept>>
  BY DEF InitZone
<1>2. Allocating /\ Booted /\ ~ Early /\ Laid /\ SameLayout /\ initrd' = initrd /\ kept' = kept
  BY <1>1, LaidOut DEF Allocating, Booted, Early, SameLayout, layout
<1>3. NodePlaced
  BY <1>2 DEF BootInv, Booking
<1>4. PICK y \in Nat : y = Sizes[Len(zones) + 1]
  BY <1>2, <1>3, ZoningInitZone DEF BootInv
<1>5. /\ Zoning' /\ (y # 0 => Claim(WaitTableSize(y) * WaitHead, CacheBytes, stage))
      /\ (y = 0 => UNCHANGED <<bd, live, stage>>)
  BY <1>2, <1>3, <1>4, ZoningInitZone DEF BootInv
<1>6. Parsing'
  BY <1>1, ParsingStays DEF BootInv
<1>7. CASE y = 0
  <2>1. Allocating' /\ ~ Early' /\ UNCHANGED <<initrd, bd, live, kept>>
    BY <1>1, <1>2, <1>5, <1>7 DEF Allocating, Early
  <2>2. Booking' /\ MemMapping'
    BY <1>2, <2>1, BookStays, MemMappingStays DEF BootInv
  <2> QED
    BY <1>5, <1>6, <2>2 DEF BootInv
<1>8. CASE y # 0
  <2>1. PICK z \in Nat \ {0} : z = WaitTableSize(y) * WaitHead
    BY <1>8, WaitTable
  <2>2. Claim(z, CacheBytes, stage)
    BY <1>5, <1>8, <2>1
  <2>3. Booking'
    BY <1>1, <1>2, <2>2, ClaimKeeps DEF BootInv
  <2>4. MemMapping'
    BY <1>1, <1>2, <2>2, MemMappingClaim DEF BootInv
  <2> QED
    BY <1>5, <1>6, <2>3, <2>4 DEF BootInv
<1> QED
  BY <1>7, <1>8

LEMMA BootInvLate ==
    ASSUME BootInv, KmapInit \/ KmapInitFixmap \/ SetupPerCpuAreas \/ BuildZonelists \/ DcacheInit \/ InodeInit
    PROVE  BootInv'
<1>1. PageSize \in Nat \ {0} /\ PerCpuBytes \in Nat \ {0}
  BY Widths, BootAssumption
<1>2. /\ stage \in {"zone", "kmap", "percpu", "zonelists", "dcache", "icache"}
      /\ UNCHANGED <<layout, kept, zones>>
  BY DEF KmapInit, KmapInitFixmap, SetupPerCpuAreas, BuildZonelists, DcacheInit, InodeInit, later
<1>3. Allocating /\ Booted /\ ~ Early /\ stage # "mem_map" /\ Laid
  BY <1>2, LaidOut DEF Allocating, Booted, Early
<1>4. Len(zones) = 3
  BY <1>2, <1>3 DEF KmapInit, BootInv, Zoning, KmapInitFixmap, SetupPerCpuAreas, BuildZonelists, DcacheInit, InodeInit
<1>5. ASSUME NEW z \in Nat \ {0}, NEW next \in {"kmap", "percpu", "zonelists", "icache", "mem_init"},
             Claim(z, CacheBytes, next)
      PROVE  BootInv'
  <2>1. stage' \in {next, "panic"}
    BY <1>5 DEF Claim
  <2>2. Onward
    BY <1>2, <1>3, <1>4, <2>1 DEF Onward
  <2> QED
    BY <1>2, <1>3, <1>5, <2>2, ClaimStep
<1>6. CASE KmapInit \/ KmapInitFixmap \/ SetupPerCpuAreas
  BY <1>1, <1>5, <1>6 DEF KmapInit, KmapInitFixmap, SetupPerCpuAreas
<1>7. CASE BuildZonelists
  <2>1. stage = "zonelists" /\ stage' = "dcache" /\ UNCHANGED <<layout, bd, live, kept, zones>>
    BY <1>7 DEF BuildZonelists
  <2>2. Onward /\ Allocating' /\ ~ Early'
    BY <1>3, <1>4, <2>1 DEF Onward, Booted, Allocating, Early
  <2> QED
    BY <1>3, <2>1, <2>2, QuietStep
<1>8. CASE DcacheInit
  BY <1>3, <1>4, <1>5, <1>8, HashEntry DEF DcacheInit, BootInv
<1>9. CASE InodeInit
  BY <1>3, <1>4, <1>5, <1>9, HashEntry DEF InodeInit, BootInv
<1> QED
  BY <1>6, <1>7, <1>8, <1>9

LEMMA BootInvMemInit == ASSUME BootInv, MemInit PROVE BootInv'
<1>1. /\ stage = "mem_init" /\ bd' = WithoutHoles /\ stage' = IF bd'.bug THEN "panic" ELSE "marks"
      /\ UNCHANGED <<layout, live, kept, zones>>
  BY DEF MemInit
<1>2. Allocating /\ Booted /\ ~ Early /\ Laid /\ SameLayout /\ initrd' = initrd
  BY <1>1, LaidOut DEF Allocating, Booted, Early, SameLayout, layout
<1>3. /\ bd' \in Bootmems /\ bd'.start = bd.start /\ bd'.end = bd.end
      /\ bd'.node_bootmem_map = bd.node_bootmem_map
  BY <1>1, <1>2, HolesFreed DEF BootInv
<1>4. NodePlaced /\ \A a \in live : Held(a)
  BY <1>2 DEF BootInv, Booking, Booted
<1>5. NodePlaced'
  BY <1>2, <1>3, <1>4, LayoutStays DEF NodePlaced
<1>6. Bitmap' = Bitmap /\ Fixed' = Fixed /\ Ram' = Ram
  BY <1>2, <1>3, LayoutStays DEF Bitmap, Spanned, Fixed
<1>7. \A a \in live' : Held(a)'
  BY <1>1, <1>4, <1>6 DEF Held
<1>8. stage' # "panic" => bd'.bug = FALSE
  BY <1>1, <1>3 DEF Bootmems
<1>9. Booking'
  BY <1>1, <1>5, <1>7, <1>8 DEF Booking, Booted, Allocating
<1>10. Len(zones) = 3
  BY <1>1, <1>2 DEF BootInv, Zoning
<1>11. Parsing' /\ Zoning'
  BY <1>1, <1>2, <1>10, ParsingStays, ZoningStays DEF BootInv, Onward
<1>12. MemMapping'
  BY <1>1, <1>2, MemMappingStays DEF BootInv, Early
<1> QED
  BY <1>9, <1>11, <1>12 DEF BootInv

LEMMA BootInvPagesMin == ASSUME BootInv, InitPerZonePagesMin PROVE BootInv'
<1>1. /\ stage = "marks" /\ stage' = "up" /\ UNCHANGED <<layout, bd, live, kept>>
      /\ zones' = [z \in 1..3 |-> [zones[z] EXCEPT !.pages_min = PagesMin(z),
                                                   !.pages_low = (PagesMin(z) * 5) \div 4,
                                                   !.pages_high = (PagesMin(z) * 6) \div 4]]
  BY DEF InitPerZonePagesMin
<1>2. Booted /\ ~ Early /\ ~ Early' /\ Laid /\ SameLayout /\ initrd' = initrd
  BY <1>1, LaidOut DEF Booted, Early, SameLayout, layout
<1>3. NodePlaced /\ bd.bug = FALSE /\ \A a \in live : Held(a)
  BY <1>2 DEF BootInv, Booking, Booted
<1>4. NodePlaced'
  BY <1>1, <1>2, <1>3, LayoutStays DEF NodePlaced
<1>5. Bitmap' = Bitmap /\ Fixed' = Fixed /\ Ram' = Ram
  BY <1>1, <1>2, LayoutStays DEF Bitmap, Spanned, Fixed
<1>6. \A a \in live' : Held(a)'
  BY <1>1, <1>3, <1>5 DEF Held
<1>7. Booking'
  BY <1>1, <1>3, <1>4, <1>6 DEF Booking, Booted, Allocating
<1>8. Zoning'
  <2>1. Len(zones) = 3 /\ zones \in Seq(ZoneType) /\ \A j \in 1..3 : ZoneIs(zones[j], j)
    BY <1>1, <1>2 DEF BootInv, Zoning
  <2>2. \A j \in 1..3 : zones[j] \in ZoneType
    BY <2>1, SeqParts
  <2>3. Sizes' = Sizes /\ Starts' = Starts
    BY <1>2, LayoutStays DEF Sizes, Starts, SameLayout
  <2>4. \A j \in 1..3 : zones'[j].zone_start_pfn = zones[j].zone_start_pfn
                         /\ zones'[j].spanned_pages = zones[j].spanned_pages
                         /\ zones'[j].present_pages = zones[j].present_pages
                         /\ zones'[j].pageset = zones[j].pageset
    BY <1>1, <2>2 DEF ZoneType
  <2>5. \A j \in 1..3 : ZoneIs(zones[j], j)'
    BY <2>1, <2>3, <2>4 DEF ZoneIs
  <2>6. Len(zones') = 3
    <3>1. PICK S : \A j \in 1..3 : zones'[j] \in S
      <4>1. \A j \in 1..3 : zones'[j] \in {zones'[1], zones'[2], zones'[3]}
        OBVIOUS
      <4> QED
        BY <4>1
    <3>2. zones' \in [1..3 -> S]
      BY <1>1, <3>1
    <3> QED
      BY <3>2
  <2>7. \A j \in 1..Len(zones') : ZoneIs(zones[j], j)'
    BY <2>5, <2>6
  <2>8. Len(zones)' = 3 /\ 3 \in 0..3
    BY <2>6
  <2> QED
    BY <1>1, <2>7, <2>8 DEF Zoning, Booted
<1>9. Parsing' /\ MemMapping'
  BY <1>1, <1>2, ParsingStays, MemMappingStays DEF BootInv
<1> QED
  BY <1>7, <1>8, <1>9 DEF BootInv

LEMMA BootInvStutter == ASSUME BootInv, UNCHANGED bootVars PROVE BootInv'
<1>1. UNCHANGED <<args, seen, mem, high, initrd, stage, bd, live, kept, zones>>
  BY DEF bootVars, layout
<1>2. SameLayout
  BY <1>1 DEF SameLayout
<1>3. Parsing'
  BY <1>1 DEF Parsing, ProbedIn, BootInv
<1>4. Bitmap' = Bitmap /\ Fixed' = Fixed /\ Ram' = Ram /\ Used' = Used
  BY <1>1, <1>2, LayoutStays DEF Bitmap, Spanned, Fixed, Used
<1>5. NodePlaced => NodePlaced'
  BY <1>1, <1>2, LayoutStays DEF NodePlaced
<1>6. \A a : Held(a) => Held(a)'
  BY <1>1, <1>4 DEF Held
<1>7. Booking'
  BY <1>1, <1>4, <1>5, <1>6 DEF Booking, Booted, Allocating, BootInv
<1>8. Sizes' = Sizes /\ Starts' = Starts /\ NodeStart' = NodeStart /\ NodeEnd' = NodeEnd
  BY <1>2, LayoutStays DEF Sizes, Starts, SameLayout
<1>9. Zoning'
  BY <1>1, <1>8 DEF Zoning, Booted, ZoneIs, BootInv
<1>10. MemMapping'
  BY <1>1, <1>8 DEF MemMapping, Booted, Early, BootInv
<1> QED
  BY <1>3, <1>7, <1>9, <1>10 DEF BootInv

LEMMA BootInvStep == ASSUME BootInv, [BootNext]_bootVars PROVE BootInv'
  BY BootInvParseArg, BootInvBootmemInit, BootInvTests, BootInvEarly, BootInvInitZone, BootInvLate,
     BootInvMemInit, BootInvPagesMin, BootInvStutter DEF BootNext

\* In every state of the boot: the arguments still to parse have the probe's banks, the
\* bitmap, the zones and mem_map are where the layout puts them, and what anybody holds
\* is reserved and apart (setup_arch_bs to init_per_zone_pages_min).
THEOREM BootInvHolds == BootSpec => []BootInv
<1>1. BootInv /\ [BootNext]_bootVars => BootInv'
  BY BootInvStep
<1> QED
  BY <1>1, BootInvInit, PTL DEF BootSpec

LEMMA AllocIsSound == BootInv => AllocSound
<1> SUFFICES ASSUME BootInv, stage # "panic", NEW a \in live
             PROVE  /\ a.start % a.align = 0
                    /\ \A b \in (live \ {a}) \cup Fixed \cup {Bitmap} : Apart(a, b)
                    /\ TouchedBy(a) \subseteq Ram
                    /\ stage \notin {"marks", "up"} => TouchedBy(a) \subseteq bd.reserved
  BY DEF AllocSound
<1>1. Held(a)
  BY DEF BootInv, Booking
<1>2. ASSUME stage \notin {"marks", "up"} PROVE TouchedBy(a) \subseteq bd.reserved
  <2>1. Allocating /\ a \in Used
    BY <1>2 DEF BootInv, Booking, Allocating, Used
  <2> QED
    BY <2>1 DEF BootInv, Booking, Ready
<1> QED
  BY <1>1, <1>2 DEF Held

\* Whatever the layout and the calls, what a boot-time caller holds is aligned as it asked,
\* is memory, and overlaps nothing else in use.
THEOREM BootAllocSound == BootSpec => []AllocSound
  BY BootInvHolds, AllocIsSound, PTL

(****************************************************************************)
(* What mem_init leaves in the bitmap.                                      *)
(****************************************************************************)
LEMMA HighFrames ==
    ASSUME Laid, WellFormed
    PROVE  /\ FramesOf(high[1]) = Memend..(NodeEnd - 1)
           /\ LowRam \subseteq NodeStart..(Memend - 1)
           /\ Ram \subseteq NodeStart..(NodeEnd - 1)
<1>1. PICK s \in Nat, m \in Nat, e \in Nat, h \in Nat, z \in Nat :
         s = NodeStart /\ m = Memend /\ e = NodeEnd /\ h = Frame(high[1].size) /\ z = high[1].size
  BY Extent, BankFacts
<1>2. s <= m /\ e = m + h
  <2>1. Base \in Nat /\ DmaFrames \in Nat /\ NormalFrames \in Nat
    BY ProbedType
  <2> QED
    BY <1>1, <2>1, Extent
<1>3. high[1].start = At(m) /\ At(m) \in Nat
  BY <1>1, PageEdges DEF WellFormed, At
<1>4. PagesUp(At(m)) = m
  BY WholePages
<1>5. Frame(At(m) + z) = e
  <2>1. At(h) <= z /\ z < At(h + 1)
    BY <1>1, PageOf
  <2>2. At(m + h) = At(m) + At(h) /\ At(m + (h + 1)) = At(m) + At(h + 1)
    BY PageSums
  <2>3. PICK x \in Int : x = At(m) + z /\ At(e) <= x /\ x < At(e + 1)
    <3>1. At(m) \in Int /\ At(h) \in Int /\ At(h + 1) \in Int
      BY PageEdges
    <3>2. m + (h + 1) = e + 1
      BY <1>2
    <3> QED
      BY <1>2, <1>3, <2>1, <2>2, <3>1, <3>2
  <2>4. Frame(x) \in Int /\ At(Frame(x)) <= x /\ x < At(Frame(x) + 1)
    BY PageOf
  <2>5. e <= Frame(x)
    BY <2>3, Pagewise
  <2>6. ~ (e + 1 <= Frame(x))
    <3>1. e + 1 \in Int
      OBVIOUS
    <3>2. e + 1 <= Frame(x) <=> At(e + 1) <= x
      BY <3>1, Pagewise
    <3>3. At(e + 1) \in Int
      BY <3>1, PageEdges
    <3> QED
      BY <2>3, <3>2, <3>3
  <2> QED
    BY <2>3, <2>4, <2>5, <2>6
<1>6. FramesOf(high[1]) = m..(e - 1)
  BY <1>1, <1>3, <1>4, <1>5 DEF FramesOf, StartPfn, EndPfn
<1>7. LowRam \subseteq s..(m - 1)
  <2> SUFFICES ASSUME NEW i \in Banks, NEW f \in FramesOf(mem[i]) PROVE f \in s..(m - 1)
    BY DEF LowRam
  <2>1. PICK x \in Nat, y \in Nat : x = StartPfn(mem[i]) /\ y = EndPfn(mem[i]) /\ s <= x /\ y <= m
    BY <1>1, BankFacts, Extent
  <2> QED
    BY <2>1 DEF FramesOf
<1>8. Ram \subseteq s..(e - 1)
  <2>1. m..(e - 1) \subseteq s..(e - 1) /\ s..(m - 1) \subseteq s..(e - 1)
    BY <1>2
  <2> QED
    BY <1>6, <1>7, <2>1 DEF Ram
<1> QED
  BY <1>1, <1>6, <1>7, <1>8

Handing ==
    stage \in {"marks", "up"} /\ WellFormed =>
      /\ freed = FreeAll(bd).blocks /\ total = FreeAll(bd).total
      /\ physpages = FramesIn(mem) + FramesIn(high)
      /\ Clear(bd) \subseteq Ram
      /\ \A b \in Fixed \cup {Bitmap} \cup (live \ {MemMap}) : TouchedBy(b) \subseteq bd.reserved
      /\ \A f \in Ram : Touched(StructOf(f), StructPage) \subseteq bd.reserved \cap TouchedBy(MemMap)
      /\ Ram \cap bd.reserved \subseteq UsedPages(Used) \cup kept

\* A hole is a page of mem_map that nobody needs.
LEMMA HoleFree ==
    ASSUME Laid, Booking, MemMapping, Booted, ~ Early, NEW f \in Int, Hole(f)
    PROVE  /\ f \in Within(MemMap.start, MemMap.size)
           /\ \A g \in Ram : g \in Int => f \notin Touched(StructOf(g), StructPage)
<1>1. PICK from \in Nat, to \in Nat :
        /\ NodeStart <= from /\ from <= to /\ to <= Memend /\ (from..(to - 1)) \cap Ram = {}
        /\ StructOf(from) <= At(f) /\ At(f) + PageSize <= StructOf(to)
  BY DEF Hole
<1>2. PICK s \in Nat, m \in Nat, e \in Nat : s = NodeStart /\ m = Memend /\ e = NodeEnd /\ m <= e
  <2>1. Frame(high[1].size) \in Nat
    BY BankFacts
  <2> QED
    BY <2>1, Extent
<1>3. from \in Int /\ to \in Int /\ s \in Int /\ e \in Int
  OBVIOUS
<1>4. PICK a \in Int, b \in Int, c \in Int, d \in Int :
         a = StructOf(s) /\ b = StructOf(from) /\ c = StructOf(to) /\ d = StructOf(e)
  BY <1>3, StructType
<1>5. a <= b /\ c <= d
  <2>1. s <= from /\ to <= e
    BY <1>1, <1>2
  <2> QED
    BY <1>3, <1>4, <2>1, StructType
<1>6. PICK x \in Nat, z \in Nat, t \in Nat \ {0} :
         x = MemMap.start /\ z = MemMap.size /\ t = StructPage /\ a = x /\ d + t = x + z
  BY <1>2, <1>4, StructType, MemMapHeld DEF Held, Sized
<1>7. PICK u \in Int : u = At(f)
  BY PageEdges
<1>8. f \in Within(x, z)
  <2>1. x <= u /\ u + PageSize <= x + z
    BY <1>1, <1>4, <1>5, <1>6, <1>7, Widths
  <2> QED
    BY <1>7, <2>1, InTouched
<1>9. ASSUME NEW g \in Ram, g \in Int PROVE f \notin Touched(StructOf(g), StructPage)
  <2>1. PICK y \in Int : y = StructOf(g)
    BY <1>9, StructType
  <2>2. f \in Touched(y, t) <=> y < u + PageSize /\ u < y + t
    BY <1>7, InTouched
  <2>3. g < from \/ to <= g
    BY <1>1, <1>3, <1>9
  <2>4. CASE g < from
    <3>1. y + t <= b
      BY <1>3, <1>4, <1>6, <1>9, <2>1, <2>4, StructType
    <3> QED
      BY <1>1, <1>4, <1>6, <1>7, <2>1, <2>2, <3>1
  <2>5. CASE to <= g
    <3>1. c <= y
      BY <1>3, <1>4, <1>9, <2>1, <2>5, StructType
    <3> QED
      BY <1>1, <1>4, <1>6, <1>7, <2>1, <2>2, <3>1, Widths
  <2> QED
    BY <2>3, <2>4, <2>5
<1> QED
  BY <1>6, <1>8, <1>9

\* A struct page of memory is in mem_map.
LEMMA StructTouched ==
    ASSUME Laid, Booking, MemMapping, Booted, ~ Early, WellFormed
    PROVE  \A f \in Ram : f \in Int /\ Touched(StructOf(f), StructPage) \subseteq TouchedBy(MemMap)
<1> SUFFICES ASSUME NEW f \in Ram
             PROVE  f \in Int /\ Touched(StructOf(f), StructPage) \subseteq TouchedBy(MemMap)
  OBVIOUS
<1>1. PICK s \in Nat, e \in Nat : s = NodeStart /\ e = NodeEnd
  BY Extent
<1>2. f \in Int /\ s <= f /\ f <= e - 1
  BY <1>1, HighFrames
<1>3. PICK x \in Nat, z \in Nat, t \in Nat \ {0} :
         x = MemMap.start /\ z = MemMap.size /\ t = StructPage /\ StructOf(s) = x /\ StructOf(e) + t = x + z
  BY <1>1, StructType, MemMapHeld DEF Held, Sized
<1>4. PICK y \in Int, d \in Int : y = StructOf(f) /\ d = StructOf(e)
  <2>1. e \in Int
    OBVIOUS
  <2> QED
    BY <1>2, <2>1, StructType
<1>5. x <= y /\ y <= d
  <2>1. s \in Int /\ e \in Int /\ s <= f /\ f <= e
    BY <1>2
  <2> QED
    BY <1>2, <1>3, <1>4, <2>1, StructType
<1>6. ASSUME NEW g \in Touched(y, t) PROVE g \in Touched(x, z)
  <2>1. g \in Int
    BY <1>6, InTouched
  <2>2. PICK u \in Int : u = At(g)
    BY <2>1, PageEdges
  <2>3. y < u + PageSize /\ u < y + t
    BY <1>6, <2>1, <2>2, InTouched
  <2>4. x < u + PageSize /\ u < x + z
    BY <1>3, <1>4, <1>5, <2>3, Widths
  <2> QED
    BY <2>1, <2>2, <2>4, InTouched
<1> QED
  BY <1>2, <1>3, <1>4, <1>6 DEF TouchedBy

LEMMA HandingMemInit == ASSUME BootInv, MemInit PROVE Handing'
<1>1. /\ stage = "mem_init" /\ bd' = WithoutHoles /\ stage' = IF bd'.bug THEN "panic" ELSE "marks"
      /\ UNCHANGED <<layout, live, kept>>
      /\ freed' = IF bd'.bug THEN {} ELSE FreeAll(bd').blocks
      /\ total' = IF bd'.bug THEN 0 ELSE FreeAll(bd').total
      /\ physpages' = FramesIn(mem) + FramesIn(high)
  BY DEF MemInit
<1>2. Allocating /\ Booted /\ ~ Early /\ Laid /\ SameLayout /\ initrd' = initrd /\ Booking /\ MemMapping
  BY <1>1, LaidOut DEF Allocating, Booted, Early, SameLayout, layout, BootInv
<1> SUFFICES ASSUME stage' \in {"marks", "up"}, WellFormed'
             PROVE  Handing'
  BY DEF Handing
<1>3. WellFormed
  <2>1. Banks' = Banks /\ NodeStart' = NodeStart /\ Memend' = Memend
    BY <1>2, LayoutStays
  <2> QED
    BY <1>2, <2>1 DEF WellFormed, SameLayout
<1>4. /\ bd' \in Bootmems /\ bd'.start = bd.start /\ bd'.end = bd.end
      /\ bd'.node_bootmem_map = bd.node_bootmem_map
      /\ bd'.reserved \subseteq bd.reserved
      /\ \A f \in bd.reserved \ bd'.reserved : Hole(f)
  BY <1>1, <1>2, <1>3, HolesFreed
<1>5. bd'.bug = FALSE
  BY <1>1, <1>4 DEF Bootmems
<1>6. Bitmap' = Bitmap /\ Fixed' = Fixed /\ Ram' = Ram /\ Used' = Used /\ MemMap' = MemMap
  BY <1>1, <1>2, <1>4, LayoutStays DEF Bitmap, Spanned, Fixed, Used, MemMap
<1>7. \A f : StructOf(f)' = StructOf(f)
  BY <1>4, <1>6 DEF StructOf
<1>8. Ready(bd, Used, Ram) /\ Exact(bd, Used, Ram, kept) /\ bd.reserved \subseteq Int
  BY <1>2 DEF Booking, Ready, Bootmems
<1>9. ASSUME NEW f \in bd.reserved \ bd'.reserved
      PROVE  /\ f \in Within(MemMap.start, MemMap.size)
             /\ \A g \in Ram : f \notin Touched(StructOf(g), StructPage)
  <2>1. f \in Int /\ Hole(f)
    BY <1>4, <1>8
  <2> QED
    BY <1>2, <1>3, <2>1, HoleFree, StructTouched
<1>10. MemMap \in live /\ Held(MemMap) /\ Sized(MemMap)
  BY <1>2, MemMapHeld DEF Held
<1>11. Clear(bd') \subseteq Ram
  <2>1. Within(MemMap.start, MemMap.size) \subseteq Ram
    BY <1>10, WithinTouched DEF Held
  <2> QED
    BY <1>4, <1>8, <1>9, <2>1 DEF Clear, Ready
<1>12. ASSUME NEW b \in Fixed \cup {Bitmap} \cup (live \ {MemMap}) PROVE TouchedBy(b) \subseteq bd'.reserved
  <2>1. b \in Used /\ Apart(MemMap, b)
    BY <1>10 DEF Used, Held
  <2>2. Sized(b) /\ TouchedBy(b) \subseteq bd.reserved
    BY <1>8, <2>1 DEF Ready
  <2>3. Within(MemMap.start, MemMap.size) \cap TouchedBy(b) = {}
    BY <1>10, <2>1, <2>2, WithinApart
  <2> QED
    BY <1>9, <2>2, <2>3
<1>13. ASSUME NEW f \in Ram PROVE Touched(StructOf(f), StructPage) \subseteq bd'.reserved \cap TouchedBy(MemMap)
  <2>1. Touched(StructOf(f), StructPage) \subseteq TouchedBy(MemMap)
    BY <1>2, <1>3, StructTouched
  <2>2. TouchedBy(MemMap) \subseteq bd.reserved
    BY <1>8, <1>10 DEF Ready, Used
  <2> QED
    BY <1>9, <2>1, <2>2
<1>14. Ram \cap bd'.reserved \subseteq UsedPages(Used) \cup kept
  BY <1>4, <1>8 DEF Exact
<1>15. kept' = kept /\ live' = live /\ freed' = FreeAll(bd').blocks /\ total' = FreeAll(bd').total
  BY <1>1, <1>5
<1>16. (FramesIn(mem) + FramesIn(high))' = FramesIn(mem) + FramesIn(high)
  BY <1>2 DEF SameLayout, FramesIn
<1> QED
  BY <1>1, <1>6, <1>7, <1>11, <1>12, <1>13, <1>14, <1>15, <1>16 DEF Handing, UsedPages, TouchedBy

LEMMA HandingStays ==
    ASSUME Handing, SameLayout, UNCHANGED <<initrd, bd, live, kept, freed, total, physpages>>,
           stage' \in {"marks", "up"} => stage \in {"marks", "up"}
    PROVE  Handing'
<1>1. Banks' = Banks /\ NodeStart' = NodeStart /\ Memend' = Memend /\ Ram' = Ram
  BY LayoutStays
<1>2. WellFormed' <=> WellFormed
  BY <1>1 DEF WellFormed, SameLayout
<1>3. Bitmap' = Bitmap /\ Fixed' = Fixed /\ Used' = Used /\ MemMap' = MemMap
  BY DEF Bitmap, Spanned, Fixed, Used, MemMap
<1>4. \A f : StructOf(f)' = StructOf(f)
  BY <1>3 DEF StructOf
<1>5. (FramesIn(mem) + FramesIn(high))' = FramesIn(mem) + FramesIn(high)
  BY DEF SameLayout, FramesIn
<1> QED
  BY <1>1, <1>2, <1>3, <1>4, <1>5 DEF Handing, UsedPages, TouchedBy

HandInv == BootInv /\ Handing

LEMMA HandInvInit == BootInit => HandInv
<1> SUFFICES ASSUME BootInit PROVE HandInv
  OBVIOUS
<1>1. Handing
  BY DEF BootInit, Handing
<1> QED
  BY <1>1, BootInvInit DEF HandInv

LEMMA HandInvStep == ASSUME HandInv, [BootNext]_bootVars PROVE HandInv'
<1>1. BootInv /\ Handing /\ BootInv'
  BY BootInvStep DEF HandInv
<1>2. CASE MemInit
  BY <1>1, <1>2, HandingMemInit DEF HandInv
<1>3. CASE InitPerZonePagesMin
  <2>1. stage = "marks" /\ SameLayout /\ UNCHANGED <<initrd, bd, live, kept, freed, total, physpages>>
    BY <1>3 DEF InitPerZonePagesMin, layout, SameLayout
  <2> QED
    BY <1>1, <2>1, HandingStays DEF HandInv
<1>4. CASE UNCHANGED bootVars
  <2>1. SameLayout /\ UNCHANGED <<stage, initrd, bd, live, kept, freed, total, physpages>>
    BY <1>4 DEF bootVars, layout, SameLayout
  <2> QED
    BY <1>1, <2>1, HandingStays DEF HandInv
<1>5. CASE BootNext /\ ~ MemInit /\ ~ InitPerZonePagesMin
  <2>1. stage' \notin {"marks", "up"}
    BY <1>5 DEF BootNext, ParseArg, BootmemInit, TestAlloc, TestFree, TestReserve, ZeroPage, MemtableInit,
                NodeMemMap, InitZone, KmapInit, KmapInitFixmap, SetupPerCpuAreas, BuildZonelists,
                DcacheInit, InodeInit, Claim
  <2> QED
    BY <1>1, <2>1 DEF HandInv, Handing
<1> QED
  BY <1>2, <1>3, <1>4, <1>5

\* After mem_init what is clear in the bitmap is memory that nobody holds, and what
\* was given away and counted is what free_all_bootmem_core makes of that bitmap.
THEOREM HandInvHolds == BootSpec => []HandInv
<1>1. HandInv /\ [BootNext]_bootVars => HandInv'
  BY HandInvStep
<1> QED
  BY <1>1, HandInvInit, PTL DEF BootSpec

(****************************************************************************)
(* The blocks of free_all_bootmem_core.                                     *)
(****************************************************************************)
LEMMA SameSize ==
    ASSUME NEW S, NEW T, IsFiniteSet(S), NEW f \in [S -> T],
           \A x, y \in S : f[x] = f[y] => x = y, \A t \in T : \E x \in S : f[x] = t
    PROVE  IsFiniteSet(T) /\ Cardinality(T) = Cardinality(S)
<1>1. f \in Bijection(S, T)
  BY DEF Bijection, Injection, Surjection, IsInjective
<1> QED
  BY <1>1, FS_Bijection DEF ExistsBijection

\* What lies in the same part of n.
LEMMA Quotient ==
    ASSUME NEW x \in Int, NEW n \in Nat \ {0}, NEW q \in Int, q * n <= x, x < q * n + n
    PROVE  x \div n = q
<1>1. PICK p \in Int : p = x \div n
  BY DivBounds
<1>2. q <= p
  BY <1>1, DivAtLeast
<1>3. q + 1 <= p <=> (q + 1) * n <= x
  <2>1. q + 1 \in Int
    OBVIOUS
  <2> QED
    BY <1>1, <2>1, DivAtLeast
<1>4. (q + 1) * n = q * n + n
  OBVIOUS
<1>5. PICK y \in Int : y = q * n
  OBVIOUS
<1>6. ~ (y + n <= x)
  BY <1>5
<1> QED
  BY <1>1, <1>2, <1>3, <1>4, <1>5, <1>6

WordAt(d, k) == d.start + Word(d, k) * LongBits

LEMMA WordFacts ==
    ASSUME NEW d \in Bootmems, NEW k \in Int, k >= d.start
    PROVE  /\ WordAt(d, k) \in Int /\ d.start <= WordAt(d, k)
           /\ WordAt(d, k) <= k /\ k < WordAt(d, k) + LongBits
           /\ (WordAt(d, k) - d.start) % LongBits = 0
<1>1. PICK n \in Nat \ {0}, s \in Nat : n = LongBits /\ s = d.start
  BY Widths DEF Bootmems
<1>2. PICK x \in Nat : x = k - s
  BY <1>1
<1>3. PICK q \in Nat : q = x \div n /\ n * q <= x /\ x < n * q + n
  BY DivBounds
<1>4. PICK y \in Nat : y = q * n /\ y <= x /\ x < y + n
  <2>1. q * n \in Nat /\ q * n = n * q
    OBVIOUS
  <2> QED
    BY <1>3, <2>1
<1>5. WordAt(d, k) = s + y
  BY <1>1, <1>2, <1>3, <1>4 DEF WordAt, Word
<1>6. y % n = 0
  <2>1. (q * n) % n = 0
    OBVIOUS
  <2> QED
    BY <1>4, <2>1
<1> QED
  BY <1>1, <1>2, <1>4, <1>5, <1>6

LEMMA WordUnique ==
    ASSUME NEW d \in Bootmems, NEW i \in Int, d.start <= i, (i - d.start) % LongBits = 0,
           NEW k \in i..(i + LongBits - 1)
    PROVE  WordAt(d, k) = i
<1>1. PICK n \in Nat \ {0}, s \in Nat : n = LongBits /\ s = d.start
  BY Widths DEF Bootmems
<1>2. PICK x \in Nat : x = i - s /\ x % n = 0
  BY <1>1
<1>3. PICK q \in Nat : q = x \div n /\ x = q * n
  <2>1. x \div n \in Nat /\ x = n * (x \div n) + (x % n)
    OBVIOUS
  <2>2. PICK q \in Nat : q = x \div n
    BY <2>1
  <2>3. n * q = q * n /\ n * q \in Nat
    OBVIOUS
  <2> QED
    BY <1>2, <2>1, <2>2, <2>3
<1>4. PICK y \in Int : y = k - s /\ x <= y /\ y < x + n
  <2>1. k \in i..(i + n - 1) /\ k \in Int /\ i <= k /\ k < i + n
    BY <1>1
  <2>2. PICK j \in Int, l \in Int : j = i /\ l = k /\ j <= l /\ l < j + n
    BY <2>1
  <2>3. x = j - s
    BY <1>1, <1>2, <2>2
  <2>4. l - s \in Int /\ x <= l - s /\ l - s < x + n
    BY <2>2, <2>3
  <2> QED
    BY <2>2, <2>4
<1>5. y \div n = q
  <2>1. q \in Int /\ q * n <= y /\ y < q * n + n
    BY <1>3, <1>4
  <2> QED
    BY <1>4, <2>1, Quotient
<1> QED
  BY <1>1, <1>2, <1>3, <1>4, <1>5 DEF WordAt, Word

Lone(d) == {k \in d.start..(d.end - 1) : k \notin d.reserved /\ WordAt(d, k) \notin WholeWords(d)}
Words(d) == UNION {i..(i + LongBits - 1) : i \in WholeWords(d)}

LEMMA WholeWord ==
    ASSUME NEW d \in Bootmems, NEW i \in WholeWords(d)
    PROVE  /\ i \in Int /\ d.start <= i /\ i + LongBits <= d.end /\ (i - d.start) % LongBits = 0
           /\ i..(i + LongBits - 1) \subseteq Clear(d)
           /\ \A k \in i..(i + LongBits - 1) : WordAt(d, k) = i
<1>1. PICK n \in Nat \ {0}, s \in Nat, e \in Nat : n = LongBits /\ s = d.start /\ e = d.end
  BY Widths DEF Bootmems
<1>2. i \in s..(e - n) /\ (i - d.start) % LongBits = 0 /\ i..(i + LongBits - 1) \cap d.reserved = {}
  BY <1>1 DEF WholeWords
<1>3. i \in Int /\ s <= i /\ i + n <= e
  BY <1>1, <1>2
<1>4. i..(i + n - 1) \subseteq s..(e - 1)
  BY <1>1, <1>3
<1>5. \A k \in i..(i + LongBits - 1) : WordAt(d, k) = i
  BY <1>1, <1>2, <1>3, WordUnique
<1> QED
  BY <1>1, <1>2, <1>3, <1>4, <1>5 DEF Clear

LEMMA ClearInWords ==
    ASSUME NEW d \in Bootmems
    PROVE  /\ Clear(d) = Words(d) \cup Lone(d) /\ Words(d) \cap Lone(d) = {}
           /\ Blocks(d) = {[page |-> i, pages |-> LongBits] : i \in WholeWords(d)}
                            \cup {[page |-> i, pages |-> 1] : i \in Lone(d)}
<1>1. Words(d) \subseteq Clear(d) /\ Words(d) \cap Lone(d) = {}
  BY WholeWord DEF Words, Lone
<1>2. Lone(d) \subseteq Clear(d)
  BY DEF Lone, Clear
<1>3. ASSUME NEW k \in Clear(d), k \notin Lone(d) PROVE k \in Words(d)
  <2>1. WordAt(d, k) \in WholeWords(d) /\ k \in Int /\ d.start <= k
    BY <1>3 DEF Clear, Lone, Bootmems
  <2>2. WordAt(d, k) \in Int /\ WordAt(d, k) <= k /\ k < WordAt(d, k) + LongBits
    BY <2>1, WordFacts
  <2>3. k \in WordAt(d, k)..(WordAt(d, k) + LongBits - 1)
    BY <2>1, <2>2, Widths
  <2> QED
    BY <2>1, <2>3 DEF Words
<1> QED
  BY <1>1, <1>2, <1>3 DEF Blocks, Lone, WordAt

LEMMA BlocksCover ==
    ASSUME NEW d \in Bootmems
    PROVE  UNION {b.page..(b.page + b.pages - 1) : b \in FreeAll(d).blocks} = Clear(d) \cup MapPages(d)
<1>1. \A k \in Lone(d) \cup MapPages(d) : k \in Int
  BY DEF Lone, MapPages
<1>2. \A k \in Int : k..(k + 1 - 1) = {k}
  OBVIOUS
<1>3. FreeAll(d).blocks = {[page |-> i, pages |-> LongBits] : i \in WholeWords(d)}
                            \cup {[page |-> i, pages |-> 1] : i \in Lone(d) \cup MapPages(d)}
  BY ClearInWords DEF FreeAll
<1>4. Clear(d) = Words(d) \cup Lone(d)
  BY ClearInWords
<1> DEFINE All == UNION {b.page..(b.page + b.pages - 1) : b \in FreeAll(d).blocks}
<1>5. Words(d) \subseteq All
  <2> SUFFICES ASSUME NEW i \in WholeWords(d), NEW k \in i..(i + LongBits - 1) PROVE k \in All
    BY DEF Words
  <2>1. [page |-> i, pages |-> LongBits] \in FreeAll(d).blocks
    BY <1>3
  <2> QED
    BY <2>1
<1>6. Lone(d) \cup MapPages(d) \subseteq All
  <2> SUFFICES ASSUME NEW i \in Lone(d) \cup MapPages(d) PROVE i \in All
    OBVIOUS
  <2>1. [page |-> i, pages |-> 1] \in FreeAll(d).blocks
    BY <1>3
  <2>2. i \in i..(i + 1 - 1)
    BY <1>1, <1>2
  <2> QED
    BY <2>1, <2>2
<1>7. All \subseteq Words(d) \cup Lone(d) \cup MapPages(d)
  <2> SUFFICES ASSUME NEW b \in FreeAll(d).blocks, NEW k \in b.page..(b.page + b.pages - 1)
               PROVE  k \in Words(d) \cup Lone(d) \cup MapPages(d)
    OBVIOUS
  <2>1. CASE b \in {[page |-> i, pages |-> LongBits] : i \in WholeWords(d)}
    BY <2>1 DEF Words
  <2>2. CASE b \in {[page |-> i, pages |-> 1] : i \in Lone(d) \cup MapPages(d)}
    <3>1. PICK i \in Lone(d) \cup MapPages(d) : b = [page |-> i, pages |-> 1]
      BY <2>2
    <3>2. k \in i..(i + 1 - 1)
      BY <3>1
    <3> QED
      BY <1>1, <1>2, <3>1, <3>2
  <2> QED
    BY <1>3, <2>1, <2>2
<1> QED
  BY <1>4, <1>5, <1>6, <1>7

\* The count of what a bitmap has clear.
LEMMA ClearCount ==
    ASSUME NEW d \in Bootmems
    PROVE  /\ IsFiniteSet(Clear(d))
           /\ Cardinality(Clear(d)) = Cardinality(WholeWords(d)) * LongBits + Cardinality({b \in Blocks(d) : b.pages = 1})
<1>1. PICK n \in Nat \ {0}, s \in Nat, e \in Nat : n = LongBits /\ s = d.start /\ e = d.end /\ n > 1
  BY Widths, BootAssumption DEF Bootmems
<1>2. IsFiniteSet(s..(e - 1)) /\ WholeWords(d) \subseteq s..(e - 1) /\ Clear(d) \subseteq s..(e - 1) /\ Lone(d) \subseteq s..(e - 1)
  <2>1. IsFiniteSet(s..(e - 1))
    BY FS_Interval
  <2>2. WholeWords(d) \subseteq s..(e - 1)
    <3> SUFFICES ASSUME NEW i \in WholeWords(d) PROVE i \in s..(e - 1)
      OBVIOUS
    <3> QED
      BY <1>1, WholeWord
  <2> QED
    BY <1>1, <2>1, <2>2 DEF Clear, Lone
<1>3. IsFiniteSet(WholeWords(d)) /\ IsFiniteSet(Clear(d)) /\ IsFiniteSet(Lone(d))
  BY <1>2, FS_Subset
<1>4. IsFiniteSet(0..(n - 1)) /\ Cardinality(0..(n - 1)) = n
  BY FS_Interval
<1>5. PICK W : W = WholeWords(d)
  OBVIOUS
<1>6. IsFiniteSet(W \X (0..(n - 1))) /\ Cardinality(W \X (0..(n - 1))) = Cardinality(W) * n
  BY <1>3, <1>4, <1>5, FS_Product
<1>7. IsFiniteSet(Words(d)) /\ Cardinality(Words(d)) = Cardinality(W) * n
  <2>1. PICK f : f = [p \in W \X (0..(n - 1)) |-> p[1] + p[2]]
    OBVIOUS
  <2>2. ASSUME NEW i \in W, NEW k \in 0..(n - 1)
        PROVE  /\ f[<<i, k>>] = i + k /\ i \in Int /\ i + k \in i..(i + n - 1)
               /\ i + k \in Words(d) /\ WordAt(d, i + k) = i
    <3>1. f[<<i, k>>] = i + k
      BY <2>1
    <3>2. i \in Int /\ \A x \in i..(i + LongBits - 1) : WordAt(d, x) = i
      BY <1>5, WholeWord
    <3>3. i + k \in i..(i + n - 1)
      BY <1>1, <3>2
    <3> QED
      BY <1>1, <1>5, <3>1, <3>2, <3>3 DEF Words
  <2>3. f \in [W \X (0..(n - 1)) -> Words(d)]
    BY <2>1, <2>2
  <2>4. \A x, y \in W \X (0..(n - 1)) : f[x] = f[y] => x = y
    <3> SUFFICES ASSUME NEW i \in W, NEW k \in 0..(n - 1), NEW j \in W, NEW l \in 0..(n - 1),
                        f[<<i, k>>] = f[<<j, l>>]
                 PROVE  i = j /\ k = l
      OBVIOUS
    <3>1. i + k = j + l /\ i \in Int /\ j \in Int
      BY <2>2
    <3>2. WordAt(d, i + k) = i /\ WordAt(d, j + l) = j
      BY <2>2
    <3>3. i = j
      BY <3>1, <3>2
    <3> QED
      BY <3>1, <3>3
  <2>5. \A t \in Words(d) : \E x \in W \X (0..(n - 1)) : f[x] = t
    <3> SUFFICES ASSUME NEW i \in W, NEW t \in i..(i + n - 1) PROVE \E x \in W \X (0..(n - 1)) : f[x] = t
      BY <1>1, <1>5 DEF Words
    <3>1. i \in Int
      BY <1>5, WholeWord
    <3>2. PICK k \in 0..(n - 1) : k = t - i
      BY <3>1
    <3>3. f[<<i, k>>] = t
      BY <2>2, <3>1, <3>2
    <3> QED
      BY <3>3
  <2>6. PICK S : S = W \X (0..(n - 1))
    OBVIOUS
  <2>7. IsFiniteSet(Words(d)) /\ Cardinality(Words(d)) = Cardinality(S)
    BY <1>6, <2>3, <2>4, <2>5, <2>6, SameSize
  <2> QED
    BY <1>6, <2>6, <2>7
<1>8. Cardinality({b \in Blocks(d) : b.pages = 1}) = Cardinality(Lone(d))
  <2>1. PICK S : S = {b \in Blocks(d) : b.pages = 1}
    OBVIOUS
  <2>2. PICK f : f = [i \in Lone(d) |-> [page |-> i, pages |-> 1]]
    OBVIOUS
  <2>3. Blocks(d) = {[page |-> i, pages |-> n] : i \in WholeWords(d)}
                      \cup {[page |-> i, pages |-> 1] : i \in Lone(d)}
    BY <1>1, ClearInWords
  <2>4. n # 1
    BY <1>1
  <2>5. f \in [Lone(d) -> S]
    BY <2>1, <2>2, <2>3
  <2>6. \A x, y \in Lone(d) : f[x] = f[y] => x = y
    BY <2>2
  <2>7. \A t \in S : \E x \in Lone(d) : f[x] = t
    BY <2>1, <2>2, <2>3, <2>4
  <2> QED
    BY <1>3, <2>1, <2>5, <2>6, <2>7, SameSize
<1>9. Cardinality(Clear(d)) = Cardinality(Words(d)) + Cardinality(Lone(d))
  <2>1. Cardinality(Words(d) \cup Lone(d)) = Cardinality(Words(d)) + Cardinality(Lone(d)) - Cardinality(Words(d) \cap Lone(d))
    BY <1>3, <1>7, FS_Union
  <2>2. Cardinality(Words(d) \cap Lone(d)) = 0
    BY ClearInWords, FS_EmptySet
  <2>3. Cardinality(Words(d)) \in Int /\ Cardinality(Lone(d)) \in Int
    BY <1>3, <1>7, FS_CardinalityType
  <2>4. Cardinality(Clear(d)) = Cardinality(Words(d) \cup Lone(d))
    BY ClearInWords
  <2> QED
    BY <2>1, <2>2, <2>3, <2>4
<1> QED
  BY <1>1, <1>3, <1>5, <1>7, <1>8, <1>9

\* free_all_bootmem_core's count is right, if the bitmap's pages are reserved.
LEMMA TotalCount ==
    ASSUME NEW d \in Bootmems, MapPages(d) \subseteq d.reserved
    PROVE  /\ IsFiniteSet(Clear(d) \cup MapPages(d))
           /\ FreeAll(d).total = Cardinality(Clear(d) \cup MapPages(d))
<1>1. PICK m \in Nat, k \in Int : m = d.node_bootmem_map /\ k = PagesUp((d.end - d.start) \div ByteBits)
  <2>1. d.end - d.start \in Int
    BY DEF Bootmems
  <2>2. (d.end - d.start) \div ByteBits \in Int
    BY <2>1, Widths, DivBounds
  <2>3. PagesUp((d.end - d.start) \div ByteBits) \in Int
    BY <2>2, PageOf
  <2> QED
    BY <2>3 DEF Bootmems
<1>2. MapPages(d) = m..(m + k - 1)
  BY <1>1 DEF MapPages
<1>3. IsFiniteSet(MapPages(d))
  <2>1. m \in Int /\ m + k - 1 \in Int
    OBVIOUS
  <2>2. IsFiniteSet(m..(m + k - 1))
    BY <2>1, FS_Interval
  <2> QED
    BY <1>2, <2>2
<1>4. Clear(d) \cap MapPages(d) = {}
  BY DEF Clear
<1>5. PICK c \in Nat, p \in Nat : c = Cardinality(Clear(d)) /\ p = Cardinality(MapPages(d))
  BY <1>3, ClearCount, FS_CardinalityType
<1>6. IsFiniteSet(Clear(d) \cup MapPages(d)) /\ Cardinality(Clear(d) \cup MapPages(d)) = c + p - 0
  <2>1. IsFiniteSet(Clear(d)) /\ Cardinality(Clear(d) \cap MapPages(d)) = 0
    BY <1>4, ClearCount, FS_EmptySet
  <2>2. PICK S, T : S = Clear(d) /\ T = MapPages(d)
    OBVIOUS
  <2>3. IsFiniteSet(S \cup T) /\ Cardinality(S \cup T) = Cardinality(S) + Cardinality(T) - Cardinality(S \cap T)
    BY <1>3, <2>1, <2>2, FS_Union
  <2> QED
    BY <1>5, <2>1, <2>2, <2>3
<1>7. FreeAll(d).total = c + p
  BY <1>5, ClearCount DEF FreeAll
<1> QED
  BY <1>6, <1>7

(****************************************************************************)
(* Rounding, and the sums of banks.                                         *)
(****************************************************************************)
LEMMA Remainder ==
    ASSUME NEW x \in Int, NEW n \in Nat \ {0}, NEW q \in Int, NEW t \in 0..(n - 1), x = q * n + t
    PROVE  x \div n = q /\ x % n = t
<1>1. PICK y \in Int : y = q * n
  OBVIOUS
<1>2. y <= x /\ x < y + n
  BY <1>1
<1>3. x \div n = q
  BY <1>1, <1>2, Quotient
<1>4. x = n * (x \div n) + (x % n) /\ x % n \in Int
  OBVIOUS
<1>5. n * q = y
  BY <1>1
<1> QED
  BY <1>1, <1>3, <1>4, <1>5

LEMMA PagesPast ==
    ASSUME NEW x \in Int, NEW q \in Int, At(q) < x, x <= At(q + 1)
    PROVE  PagesUp(x) = q + 1
<1>1. q + 1 \in Int /\ At(q) \in Int
  BY PageEdges
<1>2. PagesUp(x) \in Int /\ PagesUp(x) <= q + 1
  BY <1>1, Pagewise
<1>3. ~ (PagesUp(x) <= q)
  BY <1>1, Pagewise
<1> QED
  BY <1>2, <1>3

\* By how much the two ways to round the bitmap's size differ.
LEMMA MapGap ==
    ASSUME NEW N \in Nat
    PROVE  /\ PagesUp(N \div ByteBits) \in Nat
           /\ BootmapPages(N) = PagesUp(N \div ByteBits) +
                (IF N % (PageSize * ByteBits) \in 1..(ByteBits - 1) THEN 1 ELSE 0)
<1>1. PICK p \in Nat \ {0}, b \in Nat \ {0} : p = PageSize /\ b = ByteBits /\ p > 1
  BY Widths
<1>2. PICK d \in Nat, e \in 0..(b - 1) : d = N \div b /\ e = N % b /\ N = b * d + e
  OBVIOUS
<1>3. PICK q \in Nat, r \in 0..(p - 1) : q = d \div p /\ d = p * q + r
  OBVIOUS
<1>4. PICK u \in Nat : u = At(q) /\ u = q * p /\ d = u + r /\ At(q + 1) = u + p
  <2>1. q \in Int /\ q >= 0
    OBVIOUS
  <2>2. p * q = q * p
    OBVIOUS
  <2> QED
    BY <1>1, <1>3, <2>1, <2>2, PageEdges DEF At
<1>5. PICK t \in Nat : t = r * b + e /\ (t \in 1..(b - 1) <=> r = 0 /\ e > 0) /\ t < p * b
  <2>1. PICK y \in Nat : y = r * b
    OBVIOUS
  <2>2. r = 0 => y = 0
    BY <2>1
  <2>3. r > 0 => y >= b
    BY <2>1
  <2>4. y + b <= p * b
    <3>1. (r + 1) * b = y + b
      BY <2>1
    <3>2. r + 1 <= p
      OBVIOUS
    <3>3. (r + 1) * b <= p * b
      BY <3>2
    <3> QED
      BY <3>1, <3>3
  <2>5. p * b \in Nat
    OBVIOUS
  <2>6. y + e \in Nat /\ (y + e \in 1..(b - 1) <=> r = 0 /\ e > 0) /\ y + e < p * b
    BY <2>2, <2>3, <2>4, <2>5
  <2> QED
    BY <2>1, <2>6
<1>6. N % (p * b) = t
  <2>1. PICK n \in Nat \ {0} : n = p * b
    OBVIOUS
  <2>2. N = q * n + t
    <3>1. b * d = b * (p * q) + b * r
      BY <1>3
    <3>2. b * (p * q) = q * (p * b) /\ b * r = r * b
      OBVIOUS
    <3>3. b * (p * q) \in Nat /\ b * r \in Nat
      OBVIOUS
    <3> QED
      BY <1>2, <1>5, <2>1, <3>1, <3>2, <3>3
  <2>3. t \in 0..(n - 1)
    BY <1>5, <2>1
  <2>4. N \in Int /\ q \in Int
    OBVIOUS
  <2> QED
    BY <2>1, <2>2, <2>3, <2>4, Remainder
<1>7. RoundUp(N, b) = d + (IF e > 0 THEN 1 ELSE 0)
  <2>1. PICK c \in Nat : c = d * b /\ N = c + e
    BY <1>2
  <2>2. \A x \in Int : RoundUp(N, b) \in Int /\ (RoundUp(N, b) <= x <=> N <= x * b)
    BY RoundUpAtMost
  <2>3. (d - 1) * b = c - b /\ (d + 1) * b = c + b
    BY <2>1
  <2>4. RoundUp(N, b) <= d <=> e = 0
    BY <2>1, <2>2
  <2>5. ~ (RoundUp(N, b) <= d - 1)
    BY <2>1, <2>2, <2>3
  <2>6. RoundUp(N, b) <= d + 1
    BY <2>1, <2>2, <2>3
  <2>7. RoundUp(N, b) \in Int
    BY <2>2
  <2> QED
    BY <2>4, <2>5, <2>6, <2>7
<1>8. CASE r = 0
  <2>1. PagesUp(d) = q
    <3>1. d = At(q) /\ q \in Int
      BY <1>4, <1>8
    <3> QED
      BY <3>1, WholePages
  <2>2. CASE e = 0
    BY <1>1, <1>2, <1>5, <1>6, <1>7, <1>8, <2>1, <2>2 DEF BootmapPages
  <2>3. CASE e > 0
    <3>1. d + 1 \in Int /\ q \in Int /\ At(q) < d + 1 /\ d + 1 <= At(q + 1)
      BY <1>1, <1>4, <1>8
    <3>2. PagesUp(d + 1) = q + 1
      BY <3>1, PagesPast
    <3> QED
      BY <1>1, <1>2, <1>5, <1>6, <1>7, <1>8, <2>1, <2>3, <3>2 DEF BootmapPages
  <2> QED
    BY <2>2, <2>3
<1>9. CASE r > 0
  <2>1. /\ d \in Int /\ d + 1 \in Int /\ q \in Int /\ At(q) < d /\ d <= At(q + 1)
        /\ At(q) < d + 1 /\ d + 1 <= At(q + 1)
    BY <1>4, <1>9
  <2>2. PagesUp(d) = q + 1 /\ PagesUp(d + 1) = q + 1
    BY <2>1, PagesPast
  <2> QED
    BY <1>1, <1>2, <1>5, <1>6, <1>7, <1>9, <2>2 DEF BootmapPages
<1> QED
  BY <1>8, <1>9

\* A bank's whole frames are no more than its size has.
LEMMA FramesBounded ==
    ASSUME NEW b \in BankType
    PROVE  /\ IsFiniteSet(FramesOf(b)) /\ Frame(b.size) \in Nat
           /\ Cardinality(FramesOf(b)) <= Frame(b.size)
<1>1. PICK s \in Nat, z \in Nat : s = b.start /\ z = b.size
  BY DEF BankType
<1>2. s + z \in Int /\ s \in Int /\ z \in Int /\ z >= 0
  OBVIOUS
<1>3. PICK x \in Int, y \in Int, k \in Nat : x = PagesUp(s) /\ y = Frame(s + z) /\ k = Frame(z)
  BY <1>2, PageOf
<1>4. y - x <= k
  <2>1. s <= At(x) /\ At(y) <= s + z
    BY <1>2, <1>3, PageOf
  <2>2. At((y - x) + x) = At(y - x) + At(x) /\ (y - x) + x = y
    BY PageSums
  <2>3. At(y - x) \in Int /\ At(x) \in Int /\ At(y) \in Int /\ y - x \in Int
    BY PageEdges
  <2>4. At(y - x) <= z
    BY <2>1, <2>2, <2>3
  <2> QED
    BY <1>2, <1>3, <2>3, <2>4, Pagewise
<1>5. FramesOf(b) = x..(y - 1)
  BY <1>1, <1>3 DEF FramesOf, StartPfn, EndPfn
<1>6. IsFiniteSet(x..(y - 1)) /\ Cardinality(x..(y - 1)) = IF x > y - 1 THEN 0 ELSE (y - 1) - x + 1
  BY FS_Interval
<1>7. Cardinality(x..(y - 1)) <= k
  BY <1>4, <1>6
<1> QED
  BY <1>1, <1>3, <1>5, <1>6, <1>7

Sums(f, banks) ==
    /\ f \in [0..Len(banks) -> Nat] /\ f[0] = 0
    /\ \A i \in 1..Len(banks) : f[i] = f[i - 1] + Frame(banks[i].size)

LEMMA FramesSummed ==
    ASSUME NEW banks \in Seq(BankType)
    PROVE  \E f : Sums(f, banks) /\ FramesIn(banks) = f[Len(banks)]
<1>1. Len(banks) \in Nat /\ \A i \in 1..Len(banks) : Frame(banks[i].size) \in Nat
  <2>1. Len(banks) \in Nat /\ \A i \in 1..Len(banks) : banks[i] \in BankType
    BY SeqParts
  <2> QED
    BY <2>1, FramesBounded
<1>2. PICK m \in Nat : m = Len(banks)
  BY <1>1
<1>3. PICK step : step = [i \in 1..m |-> [x \in Nat |-> x + Frame(banks[i].size)]]
  OBVIOUS
<1>4. Loop(m, Nat, 0, step)
  BY <1>1, <1>2, <1>3 DEF Loop
<1>5. PICK f : Run(f, m, Nat, 0, step)
  BY <1>4, Recursion
<1>6. f \in [0..m -> Nat] /\ f[0] = 0 /\ \A i \in 1..m : f[i] = step[i][f[i - 1]]
  BY <1>5 DEF Run
<1>7. \A i \in 1..m : f[i] = f[i - 1] + Frame(banks[i].size)
  <2> TAKE i \in 1..m
  <2>1. f[i - 1] \in Nat
    BY <1>6
  <2> QED
    BY <1>3, <1>6, <2>1
<1> DEFINE Coming(h) == h = [n \in 0..Len(banks) |-> IF n = 0 THEN 0 ELSE h[n - 1] + Frame(banks[n].size)]
           g == CHOOSE h : Coming(h)
<1>8. Coming(f)
  <2>1. \A i \in 0..m : i # 0 => i \in 1..m
    OBVIOUS
  <2>2. \A i \in 0..m : f[i] = IF i = 0 THEN 0 ELSE f[i - 1] + Frame(banks[i].size)
    BY <1>6, <1>7, <2>1
  <2> QED
    BY <1>2, <1>6, <2>2
<1>9. Coming(g)
  <2> HIDE DEF Coming
  <2> QED
    BY <1>8
<1>10. FramesIn(banks) = g[Len(banks)]
  BY DEF FramesIn
<1> HIDE DEF g
<1>11. g[0] = 0 /\ \A i \in 1..m : g[i] = g[i - 1] + Frame(banks[i].size)
  <2>1. \A i \in 0..m : g[i] = IF i = 0 THEN 0 ELSE g[i - 1] + Frame(banks[i].size)
    BY <1>2, <1>9
  <2>2. 0 \in 0..m /\ \A i \in 1..m : i \in 0..m /\ i # 0
    OBVIOUS
  <2> QED
    BY <2>1, <2>2
<1> HIDE DEF Coming
<1> DEFINE G == {i \in 0..m : g[i] = f[i]}
<1>12. \A i \in 0..m : i \in G
  <2>1. 0 \in G
    BY <1>6, <1>11
  <2>2. ASSUME NEW i \in 1..m, i - 1 \in G PROVE i \in G
    BY <1>7, <1>11, <2>2
  <2> HIDE DEF G
  <2> QED
    BY <2>1, <2>2, UpTo
<1>13. m \in 0..m
  OBVIOUS
<1> QED
  BY <1>2, <1>6, <1>7, <1>10, <1>12, <1>13 DEF Sums

\* num_physpages is no less than the memory there is.
LEMMA RamCounted ==
    ASSUME Laid
    PROVE  /\ IsFiniteSet(Ram) /\ FramesIn(mem) + FramesIn(high) \in Nat
           /\ Cardinality(Ram) <= FramesIn(mem) + FramesIn(high)
<1>1. PICK m \in Nat : m = Len(mem) /\ Banks \subseteq 1..m /\ \A i \in 1..m : mem[i] \in BankType
  BY BankFacts
<1>2. mem \in Seq(BankType) /\ high \in Seq(BankType) /\ Len(high) > 0
  BY DEF Laid
<1>3. PICK f : Sums(f, mem) /\ FramesIn(mem) = f[m]
  BY <1>1, <1>2, FramesSummed
<1>4. /\ f \in [0..m -> Nat] /\ f[0] = 0
      /\ \A i \in 1..m : f[i] = f[i - 1] + Frame(mem[i].size)
  BY <1>1, <1>3 DEF Sums
<1>17. \A k \in Banks : k \in Int /\ 1 <= k /\ k <= m
  BY <1>1
<1> DEFINE Low(n) == UNION {FramesOf(mem[i]) : i \in {k \in Banks : k <= n}}
           G == {n \in 0..m : IsFiniteSet(Low(n)) /\ Cardinality(Low(n)) <= f[n]}
<1>5. 0 \in G
  <2>1. {k \in Banks : k <= 0} = {}
    BY <1>17
  <2>2. Low(0) = {}
    BY <2>1
  <2>3. 0 \in 0..m
    OBVIOUS
  <2>4. IsFiniteSet(Low(0)) /\ Cardinality(Low(0)) = 0
    BY <2>2, FS_EmptySet
  <2> HIDE DEF Low
  <2> QED
    BY <1>4, <2>3, <2>4
<1>6. ASSUME NEW n \in 1..m, n - 1 \in G PROVE n \in G
  <2>1. PICK S : S = Low(n - 1)
    OBVIOUS
  <2>2. PICK c \in Nat, x \in Nat : c = Cardinality(S) /\ x = f[n - 1] /\ c <= x /\ IsFiniteSet(S)
    <3>1. n - 1 \in 0..m
      OBVIOUS
    <3> QED
      BY <1>4, <1>6, <2>1, <3>1, FS_CardinalityType
  <2>3. PICK T : T = FramesOf(mem[n])
    OBVIOUS
  <2>9. PICK y \in Nat : y = Frame(mem[n].size)
    BY <1>1, FramesBounded
  <2>4. IsFiniteSet(T) /\ Cardinality(T) <= y /\ Cardinality(T) \in Nat
    BY <1>1, <2>3, <2>9, FramesBounded, FS_CardinalityType
  <2>5. f[n] = x + y /\ n \in 0..m
    BY <1>4, <2>2, <2>9
  <2>6. CASE n \in Banks
    <3>1. {k \in Banks : k <= n} = {k \in Banks : k <= n - 1} \cup {n}
      <4>1. \A k \in Banks : k <= n <=> k <= n - 1 \/ k = n
        BY <1>17
      <4>2. n <= n
        OBVIOUS
      <4> QED
        BY <2>6, <4>1, <4>2
    <3>2. Low(n) = S \cup T
      BY <2>1, <2>3, <3>1
    <3>3. IsFiniteSet(S \cup T) /\ Cardinality(S \cup T) = Cardinality(S) + Cardinality(T) - Cardinality(S \cap T)
      BY <2>2, <2>4, FS_Union
    <3>4. Cardinality(S \cap T) \in Nat
      BY <2>2, FS_Intersection, FS_CardinalityType
    <3>5. Cardinality(S \cup T) <= x + y
      BY <2>2, <2>4, <3>3, <3>4
    <3> QED
      BY <2>5, <3>2, <3>3, <3>5
  <2>7. CASE n \notin Banks
    <3>1. {k \in Banks : k <= n} = {k \in Banks : k <= n - 1}
      BY <1>17, <2>7
    <3>2. Low(n) = S
      BY <2>1, <3>1
    <3> QED
      BY <2>2, <2>5, <3>2
  <2> QED
    BY <2>6, <2>7
<1>7. m \in G
  <2>1. \A n \in 0..m : n \in G
    <3> HIDE DEF G
    <3> QED
      BY <1>5, <1>6, UpTo
  <2>2. m \in 0..m
    OBVIOUS
  <2> HIDE DEF G
  <2> QED
    BY <2>1, <2>2
<1>8. Low(m) = LowRam
  <2>1. {k \in Banks : k <= m} = Banks
    BY <1>17
  <2> QED
    BY <2>1 DEF LowRam
<1>9. PICK c \in Nat, x \in Nat : c = Cardinality(LowRam) /\ x = FramesIn(mem) /\ c <= x /\ IsFiniteSet(LowRam)
  BY <1>3, <1>4, <1>7, <1>8, FS_CardinalityType
<1> HIDE DEF G, Low
<1>10. PICK y \in Nat : y = FramesIn(high) /\ Frame(high[1].size) <= y
  <2>1. PICK k \in Nat : k = Len(high) /\ k > 0 /\ \A i \in 1..k : high[i] \in BankType
    BY <1>2, SeqParts
  <2>2. PICK g : Sums(g, high) /\ FramesIn(high) = g[k]
    BY <1>2, <2>1, FramesSummed
  <2>3. /\ g \in [0..k -> Nat] /\ g[0] = 0
        /\ \A i \in 1..k : g[i] = g[i - 1] + Frame(high[i].size) /\ Frame(high[i].size) \in Nat
    BY <2>1, <2>2, FramesBounded DEF Sums
  <2> DEFINE H == {n \in 0..k : n = 0 \/ Frame(high[1].size) <= g[n]}
  <2>4. 0 \in H
    OBVIOUS
  <2>5. ASSUME NEW n \in 1..k, n - 1 \in H PROVE n \in H
    <3>1. PICK a \in Nat, b \in Nat, c1 \in Nat :
             a = g[n - 1] /\ b = Frame(high[n].size) /\ c1 = Frame(high[1].size) /\ g[n] = a + b
      <4>1. n - 1 \in 0..k /\ 1 \in 1..k
        BY <2>1
      <4> QED
        BY <2>3, <4>1
    <3> QED
      BY <2>5, <3>1
  <2>6. \A n \in 0..k : n \in H
    <3> HIDE DEF H
    <3> QED
      BY <2>4, <2>5, UpTo
  <2>7. k \in 0..k /\ k # 0
    BY <2>1
  <2> QED
    BY <2>2, <2>3, <2>6, <2>7
<1>11. PICK h \in Nat : h = Cardinality(FramesOf(high[1])) /\ h <= y /\ IsFiniteSet(FramesOf(high[1]))
  <2>1. high[1] \in BankType
    BY BankFacts
  <2>2. IsFiniteSet(FramesOf(high[1])) /\ Cardinality(FramesOf(high[1])) \in Nat
    BY <2>1, FramesBounded, FS_CardinalityType
  <2>3. Cardinality(FramesOf(high[1])) <= Frame(high[1].size) /\ Frame(high[1].size) \in Nat
    BY <2>1, FramesBounded
  <2> QED
    BY <1>10, <2>2, <2>3
<1>12. PICK S, T : S = LowRam /\ T = FramesOf(high[1])
  OBVIOUS
<1>13. IsFiniteSet(S \cup T) /\ Cardinality(S \cup T) = c + h - Cardinality(S \cap T)
  BY <1>9, <1>11, <1>12, FS_Union
<1>14. Cardinality(S \cap T) \in Nat
  BY <1>9, <1>12, FS_Intersection, FS_CardinalityType
<1>15. Cardinality(S \cup T) <= x + y
  BY <1>9, <1>11, <1>13, <1>14
<1>16. Ram = S \cup T
  BY <1>12 DEF Ram
<1> QED
  BY <1>9, <1>10, <1>13, <1>15, <1>16

(****************************************************************************)
(* The bitmap's pages, and what mem_init hands over.                        *)
(****************************************************************************)
LEMMA BitmapFacts ==
    ASSUME Laid, NodePlaced
    PROVE  /\ Sized(Bitmap) /\ Spanned \in Nat /\ Spanned = NodeEnd - NodeStart
           /\ Within(Bitmap.start, Bitmap.size) = TouchedBy(Bitmap)
           /\ TouchedBy(Bitmap) \subseteq LowRam
           /\ MapPages(bd) \subseteq TouchedBy(Bitmap)
           /\ TouchedBy(Bitmap) \ MapPages(bd) =
                IF Spanned % (PageSize * ByteBits) \in 1..(ByteBits - 1)
                THEN {bd.node_bootmem_map + BootmapPages(Spanned) - 1} ELSE {}
           /\ Apart(Kernel, Bitmap) /\ Apart(Pgdir, Bitmap)
<1>1. PICK b : b = mem[FirstRoomy] /\ FirstRoomy \in Roomy /\ FirstRoomy \in Banks
  BY MapPlace DEF NodePlaced
<1>2. PICK m \in Nat, N \in Nat \ {0}, n \in Nat \ {0} :
         m = bd.node_bootmem_map /\ m = BootmapAt(b) /\ N = Spanned /\ N = NodeEnd - NodeStart /\ n = BootmapPages(N)
  <2>1. NodeEnd - NodeStart \in Nat \ {0} /\ Spanned = NodeEnd - NodeStart
    BY NodeSize DEF NodePlaced, Spanned
  <2> QED
    BY <1>1, <2>1, MapPlace DEF NodePlaced
<1>3. Bitmap = [start |-> At(m), size |-> At(n)]
  BY <1>2 DEF Bitmap, Bank, At
<1>4. At(m) \in Nat /\ At(n) \in Nat \ {0} /\ At(m + n) = At(m) + At(n) /\ PagesUp(At(n)) = n /\ PagesUp(At(m)) = m
      /\ Frame(At(m + n)) = m + n
  <2>1. m \in Int /\ n \in Int /\ m + n \in Int /\ 0 \in Int /\ 0 < n /\ m >= 0 /\ n >= 0
    OBVIOUS
  <2>2. At(0) = 0 /\ At(0) < At(n) /\ At(m) \in Nat /\ At(n) \in Nat
    BY <2>1, PageEdges, PageOrder
  <2>3. PagesUp(At(n)) = n /\ PagesUp(At(m)) = m /\ Frame(At(m + n)) = m + n
    BY <2>1, WholePages
  <2>4. At(m + n) = At(m) + At(n)
    BY <2>1, PageSums
  <2> QED
    BY <2>2, <2>3, <2>4
<1>5. TouchedBy(Bitmap) = m..(m + n - 1)
  BY <1>3, <1>4, TouchedRun DEF TouchedBy
<1>6. Within(Bitmap.start, Bitmap.size) = m..(m + n - 1)
  BY <1>3, <1>4 DEF Within
<1>7. Sized(Bitmap)
  BY <1>3, <1>4 DEF Sized
<1>8. PICK s \in Nat, e \in Nat, k \in Nat : s = StartPfn(b) /\ e = EndPfn(b) /\ k = PagesUp(Kernel.start + Kernel.size)
  <2>1. Kernel.start + Kernel.size \in Nat
    BY KernelSized DEF Sized
  <2>2. PagesUp(Kernel.start + Kernel.size) \in Nat
    BY <2>1, PageOf
  <2> QED
    BY <1>1, <2>2, BankFacts
<1>9. s <= m /\ k <= m /\ m + n <= e
  <2>1. m = IF s < k THEN k ELSE s
    BY <1>2, <1>8 DEF BootmapAt
  <2>2. e - m >= n
    BY <1>1, <1>2, <1>8 DEF Roomy
  <2> QED
    BY <2>1, <2>2
<1>10. TouchedBy(Bitmap) \subseteq LowRam
  <2>1. m..(m + n - 1) \subseteq s..(e - 1)
    BY <1>9
  <2>2. s..(e - 1) \subseteq LowRam
    BY <1>1, <1>8 DEF LowRam, FramesOf
  <2> QED
    BY <1>5, <2>1, <2>2
<1>11. PICK g \in Nat : g = PagesUp(N \div ByteBits) /\ MapPages(bd) = m..(m + g - 1)
  BY <1>2, MapGap DEF MapPages, Spanned
<1>12. n = g + (IF N % (PageSize * ByteBits) \in 1..(ByteBits - 1) THEN 1 ELSE 0)
  BY <1>2, <1>11, MapGap
<1>13. MapPages(bd) \subseteq TouchedBy(Bitmap)
  BY <1>5, <1>11, <1>12
<1>14. TouchedBy(Bitmap) \ MapPages(bd) =
         IF N % (PageSize * ByteBits) \in 1..(ByteBits - 1) THEN {m + n - 1} ELSE {}
  <2>1. CASE n = g + 1
    <3>1. (m..(m + n - 1)) \ (m..(m + g - 1)) = {m + n - 1}
      BY <2>1
    <3>2. N % (PageSize * ByteBits) \in 1..(ByteBits - 1)
      BY <1>12, <2>1
    <3>3. TouchedBy(Bitmap) \ MapPages(bd) = {m + n - 1}
      BY <1>5, <1>11, <3>1
    <3> QED
      BY <3>2, <3>3, Zenon
  <2>2. CASE n = g
    <3>1. (m..(m + n - 1)) \ (m..(m + g - 1)) = {}
      BY <2>2
    <3>2. ~ (N % (PageSize * ByteBits) \in 1..(ByteBits - 1))
      BY <1>12, <2>2
    <3>3. TouchedBy(Bitmap) \ MapPages(bd) = {}
      BY <1>5, <1>11, <3>1
    <3> QED
      BY <3>2, <3>3, Zenon
  <2> QED
    BY <1>12, <2>1, <2>2
<1>15. Apart(Kernel, Bitmap) /\ Apart(Pgdir, Bitmap)
  <2>1. PICK x \in Nat, z \in Nat : x = Kernel.start /\ z = Kernel.size
    BY KernelSized DEF Sized
  <2>2. x + z <= At(m)
    <3>1. x + z \in Int /\ m \in Int
      OBVIOUS
    <3> QED
      BY <1>8, <1>9, <2>1, <3>1, Pagewise
  <2>3. PICK y \in Nat, w \in Nat : y = Pgdir.start /\ w = Pgdir.size
    BY KernelSized DEF Sized
  <2>4. y + w <= x
    BY <2>1, <2>3, BootAssumption
  <2>5. y + w <= At(m)
    BY <1>4, <2>2, <2>4
  <2> QED
    BY <1>3, <2>1, <2>2, <2>3, <2>5 DEF Apart
<1> QED
  BY <1>2, <1>5, <1>6, <1>7, <1>10, <1>13, <1>14, <1>15

InUse == (UNION {TouchedBy(b) : b \in Fixed \cup (live \ {MemMap})})
           \cup (UNION {Touched(StructOf(f), StructPage) : f \in Ram})

\* What mem_init has done of what it should.
Hands == stage \in {"marks", "up"} /\ WellFormed /\ (initrd.size > 0 => Apart(initrd, Bitmap)) /\ HandInv

LEMMA HandsFacts ==
    ASSUME Hands
    PROVE  /\ Laid /\ Booted /\ ~ Early /\ NodePlaced /\ Booking /\ Handing /\ MemMapping
           /\ bd \in Bootmems /\ bd.start = NodeStart /\ bd.end = NodeEnd
           /\ Zoning /\ Len(zones) = 3
<1>1. Laid /\ Booted /\ ~ Early
  BY LaidOut DEF Hands, HandInv, Booted, Early
<1>2. Zoning /\ Len(zones) = 3
  BY <1>1 DEF Hands, HandInv, BootInv, Zoning
<1> QED
  BY <1>1, <1>2 DEF Hands, HandInv, BootInv, Booking, NodePlaced

LEMMA HandedIs == ASSUME Hands PROVE Handed = Clear(bd) \cup MapPages(bd)
  BY HandsFacts, BlocksCover DEF Hands, Handing, Handed

\* Nobody else has a part of a page of the bitmap.
LEMMA BitmapAlone ==
    ASSUME Hands
    PROVE  TouchedBy(Bitmap) \cap (InUse \cup TouchedBy(MemMap)) = {}
<1>1. /\ Laid /\ Booted /\ ~ Early /\ NodePlaced /\ Booking /\ Handing /\ MemMapping
  BY HandsFacts
<1>2. \A a \in live : Held(a)
  BY <1>1 DEF Booking, Booted
<1>3. ASSUME NEW b, Sized(b), Apart(b, Bitmap) PROVE TouchedBy(Bitmap) \cap TouchedBy(b) = {}
  <2>1. Apart(Bitmap, b) /\ Sized(Bitmap)
    BY <1>1, <1>3, ApartSym, BitmapFacts
  <2>2. Within(Bitmap.start, Bitmap.size) \cap TouchedBy(b) = {}
    BY <1>3, <2>1, WithinApart
  <2> QED
    BY <1>1, <2>2, BitmapFacts
<1>4. ASSUME NEW a \in live PROVE TouchedBy(Bitmap) \cap TouchedBy(a) = {}
  <2>1. Sized(a) /\ Apart(a, Bitmap)
    BY <1>2 DEF Held
  <2> QED
    BY <1>3, <2>1
<1>5. ASSUME NEW b \in Fixed PROVE TouchedBy(Bitmap) \cap TouchedBy(b) = {}
  <2>1. Sized(b)
    BY <1>1, FixedFacts
  <2>2. Apart(b, Bitmap)
    BY <1>1, BitmapFacts DEF Fixed, Hands
  <2> QED
    BY <1>3, <2>1, <2>2
<1>6. MemMap \in live
  BY <1>1, MemMapHeld
<1>7. \A f \in Ram : Touched(StructOf(f), StructPage) \subseteq TouchedBy(MemMap)
  BY <1>1, StructTouched DEF Hands
<1> QED
  BY <1>4, <1>5, <1>6, <1>7 DEF InUse

LEMMA ReservedInUse ==
    ASSUME Hands
    PROVE  /\ InUse \subseteq bd.reserved /\ TouchedBy(Bitmap) \subseteq bd.reserved
           /\ Clear(bd) \subseteq Ram /\ Ram \ bd.reserved \subseteq Clear(bd)
           /\ Ram \cap bd.reserved \subseteq InUse \cup TouchedBy(MemMap) \cup TouchedBy(Bitmap) \cup kept
<1>1. Handing /\ Laid /\ bd.start = NodeStart /\ bd.end = NodeEnd /\ WellFormed
  BY HandsFacts DEF Hands
<1>2. /\ Clear(bd) \subseteq Ram
      /\ \A b \in Fixed \cup {Bitmap} \cup (live \ {MemMap}) : TouchedBy(b) \subseteq bd.reserved
      /\ \A f \in Ram : Touched(StructOf(f), StructPage) \subseteq bd.reserved \cap TouchedBy(MemMap)
      /\ Ram \cap bd.reserved \subseteq UsedPages(Used) \cup kept
  BY <1>1 DEF Handing, Hands
<1>3. InUse \subseteq bd.reserved /\ TouchedBy(Bitmap) \subseteq bd.reserved
  BY <1>2 DEF InUse
<1>4. Ram \ bd.reserved \subseteq Clear(bd)
  BY <1>1, HighFrames DEF Clear
<1>5. UsedPages(Used) \subseteq InUse \cup TouchedBy(MemMap) \cup TouchedBy(Bitmap)
  BY DEF UsedPages, Used, InUse
<1> QED
  BY <1>2, <1>3, <1>4, <1>5

LEMMA HandedApart == ASSUME Hands PROVE Handed \cap InUse = {} /\ Handed \subseteq Ram
<1>1. MapPages(bd) \subseteq TouchedBy(Bitmap) /\ TouchedBy(Bitmap) \subseteq Ram
  BY HandsFacts, BitmapFacts DEF Ram
<1>2. Clear(bd) \cap bd.reserved = {}
  BY DEF Clear
<1> QED
  BY <1>1, <1>2, HandedIs, ReservedInUse, BitmapAlone

LEMMA HandedCount ==
    ASSUME Hands
    PROVE  total = Cardinality(Handed) /\ total <= physpages
<1>1. bd \in Bootmems /\ MapPages(bd) \subseteq bd.reserved /\ Laid
  BY HandsFacts, BitmapFacts, ReservedInUse
<1>2. total = FreeAll(bd).total /\ physpages = FramesIn(mem) + FramesIn(high)
  BY HandsFacts DEF Handing, Hands
<1>3. total = Cardinality(Handed) /\ IsFiniteSet(Handed)
  BY <1>1, <1>2, TotalCount, HandedIs
<1>4. IsFiniteSet(Ram) /\ Handed \in SUBSET Ram
  BY <1>1, RamCounted, HandedApart
<1>5. Cardinality(Handed) <= Cardinality(Ram)
  BY <1>4, FS_Subset
<1>6. Cardinality(Handed) \in Nat /\ Cardinality(Ram) \in Nat
  BY <1>3, <1>4, FS_CardinalityType
<1> QED
  BY <1>1, <1>2, <1>3, <1>5, <1>6, RamCounted

\* Only the bitmap's last page can be lost.
LEMMA HandedAll ==
    ASSUME Hands
    PROVE  Ram \ (Handed \cup InUse \cup kept \cup TouchedBy(MemMap)) =
             IF Spanned % (PageSize * ByteBits) \in 1..(ByteBits - 1)
             THEN {bd.node_bootmem_map + BootmapPages(Spanned) - 1} \ kept ELSE {}
<1>1. PICK L : L = Ram \ (Handed \cup InUse \cup kept \cup TouchedBy(MemMap))
  OBVIOUS
<1>2. PICK lost : lost = TouchedBy(Bitmap) \ MapPages(bd)
  OBVIOUS
<1>3. L \subseteq lost \ kept
  BY <1>1, <1>2, HandedIs, ReservedInUse
<1>4. lost \ kept \subseteq L
  <2>1. TouchedBy(Bitmap) \subseteq Ram
    BY HandsFacts, BitmapFacts DEF Ram
  <2>2. TouchedBy(Bitmap) \cap Clear(bd) = {}
    BY ReservedInUse DEF Clear
  <2> QED
    BY <1>1, <1>2, <2>1, <2>2, HandedIs, BitmapAlone
<1>5. L = lost \ kept
  BY <1>3, <1>4
<1>6. lost = IF Spanned % (PageSize * ByteBits) \in 1..(ByteBits - 1)
             THEN {bd.node_bootmem_map + BootmapPages(Spanned) - 1} ELSE {}
  BY <1>2, HandsFacts, BitmapFacts
<1> QED
  BY <1>1, <1>5, <1>6

\* The zones are one behind the other.
LEMMA ZonesTile ==
    ASSUME Laid, Zoning, Booted, Len(zones) = 3
    PROVE  /\ Zone(1) = NodeStart..(NodeStart + DmaFrames - 1)
           /\ Zone(2) = (NodeStart + DmaFrames)..(Memend - 1)
           /\ Zone(3) = Memend..(NodeEnd - 1)
           /\ NodeStart + DmaFrames <= Memend /\ Memend <= NodeEnd
<1>1. PICK a \in Nat, b \in Nat, c \in Nat, x \in Nat, y \in Nat, w \in Nat :
         /\ a = Starts[1] /\ b = Starts[2] /\ c = Starts[3] /\ x = Sizes[1] /\ y = Sizes[2] /\ w = Sizes[3]
  BY SizesType
<1>2. ZoneIs(zones[1], 1) /\ ZoneIs(zones[2], 2) /\ ZoneIs(zones[3], 3)
  BY DEF Zoning
<1>3. Zone(1) = a..(a + x - 1) /\ Zone(2) = b..(b + y - 1) /\ Zone(3) = c..(c + w - 1)
  BY <1>1, <1>2 DEF Zone, ZoneIs
<1>4. /\ NodeStart = a /\ a + x = b /\ b + y = c /\ Memend = c /\ NodeEnd = c + w /\ DmaFrames = x
  BY <1>1, SizesType
<1>5. b <= c /\ c <= c + w
  BY <1>4
<1> QED
  BY <1>3, <1>4, <1>5

\* A word that starts at a multiple of words from the first of three areas that are all
\* made of words, but for the last, is in one of them.
LEMMA WordInZone ==
    ASSUME NEW s \in Nat, NEW n \in Nat \ {0}, NEW p \in Nat, NEW q \in Nat, NEW w \in Nat, NEW i \in Int,
           i = s + w * n
    PROVE  /\ w < p => i + n <= s + p * n
           /\ p <= w => s + p * n <= i
<1>1. PICK x \in Nat, y \in Nat : x = w * n /\ y = p * n
  OBVIOUS
<1>2. w < p => x + n <= y
  <2>1. (w + 1) * n = x + n
    BY <1>1
  <2>2. w + 1 <= p => (w + 1) * n <= p * n
    OBVIOUS
  <2> QED
    BY <1>1, <2>1, <2>2
<1>3. p <= w => y <= x
  BY <1>1
<1> QED
  BY <1>1, <1>2, <1>3

LEMMA Whole ==
    ASSUME NEW x \in Nat, NEW n \in Nat \ {0}, x % n = 0
    PROVE  \E q \in Nat : x = q * n
<1>1. x \div n \in Nat /\ x = n * (x \div n) + (x % n)
  OBVIOUS
<1>2. PICK q \in Nat : q = x \div n
  BY <1>1
<1>3. n * q = q * n /\ n * q \in Nat
  OBVIOUS
<1> QED
  BY <1>1, <1>2, <1>3

LEMMA HandedZones ==
    ASSUME Hands, {DmaFrames % LongBits, (Memend - Base) % LongBits} = {0}
    PROVE  \A b \in freed : \E z \in 1..3 : b.page..(b.page + b.pages - 1) \subseteq Zone(z)
<1>1. PICK n \in Nat \ {0}, s \in Nat, e \in Nat, m \in Nat, d \in Nat :
         n = LongBits /\ s = NodeStart /\ e = NodeEnd /\ m = Memend /\ d = DmaFrames
  BY Widths, HandsFacts, Extent, ProbedType
<1>2. /\ Zone(1) = s..(s + d - 1) /\ Zone(2) = (s + d)..(m - 1) /\ Zone(3) = m..(e - 1)
      /\ s + d <= m /\ m <= e
  BY <1>1, HandsFacts, ZonesTile
<1>3. s = Base /\ bd.start = s /\ bd.end = e /\ bd \in Bootmems
  BY <1>1, HandsFacts DEF Hands, WellFormed
<1>4. PICK p \in Nat, q \in Nat : d = p * n /\ m = s + q * n
  <2>1. d % n = 0 /\ (m - s) % n = 0 /\ m - s \in Nat
    <3>1. DmaFrames % LongBits = 0 /\ (Memend - Base) % LongBits = 0
      OBVIOUS
    <3>2. d % n = 0 /\ (m - s) % n = 0
      BY <1>1, <1>3, <3>1
    <3>3. m - s \in Nat
      BY <1>2
    <3> QED
      BY <3>2, <3>3
  <2>2. \E p \in Nat : d = p * n
    BY <2>1, Whole
  <2>3. \E q \in Nat : m - s = q * n
    BY <2>1, Whole
  <2>4. PICK p \in Nat, q \in Nat : d = p * n /\ m - s = q * n
    BY <2>2, <2>3
  <2>5. m = s + q * n
    BY <2>4
  <2> QED
    BY <2>4, <2>5
<1> SUFFICES ASSUME NEW b \in freed
             PROVE  \E z \in 1..3 : b.page..(b.page + b.pages - 1) \subseteq Zone(z)
  OBVIOUS
<1>5. freed = {[page |-> i, pages |-> n] : i \in WholeWords(bd)}
                \cup {[page |-> i, pages |-> 1] : i \in Lone(bd) \cup MapPages(bd)}
  <2>1. freed = FreeAll(bd).blocks
    BY HandsFacts DEF Handing, Hands
  <2> QED
    BY <1>1, <1>3, <2>1, ClearInWords DEF FreeAll
<1>6. CASE \E i \in WholeWords(bd) : b = [page |-> i, pages |-> n]
  <2>1. PICK i \in WholeWords(bd) : b = [page |-> i, pages |-> n]
    BY <1>6
  <2>2. i \in Int /\ s <= i /\ i + n <= e /\ (i - s) % n = 0
    BY <1>1, <1>3, WholeWord
  <2>3. PICK w \in Nat : i = s + w * n
    <3>1. i - s \in Nat
      BY <2>2
    <3>2. PICK w \in Nat : i - s = w * n
      BY <2>2, <3>1, Whole
    <3>3. i = s + w * n
      BY <2>2, <3>2
    <3> QED
      BY <3>3
  <2>4. /\ w < p => i + n <= s + d
        /\ p <= w => s + d <= i
        /\ w < q => i + n <= m
        /\ q <= w => m <= i
    BY <1>4, <2>2, <2>3, WordInZone
  <2>5. CASE w < p
    <3>1. i..(i + n - 1) \subseteq Zone(1)
      BY <1>2, <2>2, <2>4, <2>5
    <3> QED
      BY <2>1, <3>1
  <2>6. CASE p <= w /\ w < q
    <3>1. i..(i + n - 1) \subseteq Zone(2)
      BY <1>2, <2>2, <2>4, <2>6
    <3> QED
      BY <2>1, <3>1
  <2>7. CASE q <= w
    <3>1. i..(i + n - 1) \subseteq Zone(3)
      BY <1>2, <2>2, <2>4, <2>7
    <3> QED
      BY <2>1, <3>1
  <2> QED
    BY <2>5, <2>6, <2>7
<1>7. CASE \E i \in Lone(bd) \cup MapPages(bd) : b = [page |-> i, pages |-> 1]
  <2>1. PICK i \in Lone(bd) \cup MapPages(bd) : b = [page |-> i, pages |-> 1]
    BY <1>7
  <2>2. i \in Ram
    <3>1. Lone(bd) \subseteq Clear(bd)
      BY <1>3, ClearInWords
    <3> QED
      BY <2>1, <3>1, HandedIs, HandedApart
  <2>3. i \in s..(e - 1)
    BY <1>1, <2>2, HandsFacts, HighFrames DEF Hands
  <2>4. i..(i + 1 - 1) = {i} /\ b.page..(b.page + b.pages - 1) = i..(i + 1 - 1)
    BY <2>1, <2>3
  <2>5. i \in Zone(1) \/ i \in Zone(2) \/ i \in Zone(3)
    BY <1>2, <2>3
  <2>6. b.page..(b.page + b.pages - 1) = {i}
    BY <2>4
  <2>7. \E z \in 1..3 : i \in Zone(z)
    <3>1. 1 \in 1..3 /\ 2 \in 1..3 /\ 3 \in 1..3
      OBVIOUS
    <3> QED
      BY <2>5, <3>1
  <2> QED
    BY <2>6, <2>7
<1> QED
  BY <1>5, <1>6, <1>7

LEMMA HandedIsOver == HandInv => HandedOver
<1> SUFFICES ASSUME HandInv, stage \in {"marks", "up"}, WellFormed, initrd.size > 0 => Apart(initrd, Bitmap)
             PROVE  HandedOver
  BY DEF HandedOver
<1>1. Hands
  BY DEF Hands
<1>2. PICK lost : lost = bd.node_bootmem_map + BootmapPages(Spanned) - 1
  OBVIOUS
<1>3. /\ Handed \cap InUse = {} /\ Handed \subseteq Ram
      /\ total = Cardinality(Handed) /\ total <= physpages
      /\ {DmaFrames % LongBits, (Memend - Base) % LongBits} = {0} =>
            \A b \in freed : \E z \in 1..3 : b.page..(b.page + b.pages - 1) \subseteq Zone(z)
      /\ Ram \ (Handed \cup InUse \cup kept \cup TouchedBy(MemMap)) =
            IF Spanned % (PageSize * ByteBits) \in 1..(ByteBits - 1) THEN {lost} \ kept ELSE {}
  BY <1>1, <1>2, HandedApart, HandedCount, HandedZones, HandedAll
<1> QED
  BY <1>2, <1>3 DEF HandedOver, InUse

\* mem_init gives away every frame that is not in use, once, and no other, however the
\* bank list and the boot-time callers turned out.
THEOREM BootHandedOver == BootSpec => []HandedOver
  BY HandInvHolds, HandedIsOver, PTL

(****************************************************************************)
(* The page tables of lowmem.                                               *)
(****************************************************************************)
LEMMA MultipleOfFrames ==
    ASSUME NEW x \in Nat, x % (SectionFrames * PageSize) = 0
    PROVE  \E f \in Nat : x = At(f) /\ f % SectionFrames = 0
<1>1. PICK s \in Nat \ {0}, p \in Nat \ {0} : s = SectionFrames /\ p = PageSize
  <2>1. SectionFrames \in Nat \ {0}
    BY BootAssumption
  <2>2. PageSize \in Nat \ {0}
    BY BootAssumption, Widths
  <2> QED
    BY <2>1, <2>2
<1>2. PICK n \in Nat \ {0} : n = s * p
  BY <1>1
<1>3. PICK q \in Nat : x = q * n
  BY <1>1, <1>2, Whole
<1>4. PICK f \in Nat : f = q * s
  OBVIOUS
<1>5. x = f * p
  BY <1>2, <1>3, <1>4
<1>6. f % s = 0
  BY <1>4
<1> QED
  BY <1>1, <1>5, <1>6 DEF At

LEMMA DirectoryOfSections ==
    ASSUME NEW f \in Nat, f % PgdFrames = 0
    PROVE  f % SectionFrames = 0
<1>1. PICK s \in Nat \ {0}, g \in Nat \ {0} : s = SectionFrames /\ g = PgdFrames /\ g % s = 0
  BY BootAssumption
<1>2. PICK q \in Nat : f = q * g
  BY <1>1, Whole
<1>3. PICK k \in Nat : g = k * s
  BY <1>1, Whole
<1>4. PICK r \in Nat : r = q * k
  OBVIOUS
<1>5. f = r * s
  BY <1>2, <1>3, <1>4
<1>6. (r * s) % s = 0
  OBVIOUS
<1> QED
  BY <1>1, <1>5, <1>6

\* What a bank of whole sections gets: every frame it has, and no other.
LEMMA SectionsMapped ==
    ASSUME Laid, Sectioned, NEW i \in Banks
    PROVE  SectionMapped(mem[i]) = FramesOf(mem[i])
<1>1. PICK b : b = mem[i] /\ Sized(b)
  BY BankFacts
<1>2. b.start % (SectionFrames * PageSize) = 0 /\ b.size % (SectionFrames * PageSize) = 0
  BY <1>1 DEF Sectioned
<1>3. PICK a \in Nat : b.start = At(a) /\ a % SectionFrames = 0
  BY <1>1, <1>2, MultipleOfFrames DEF Sized
<1>4. PICK c \in Nat : b.size = At(c) /\ c % SectionFrames = 0
  BY <1>1, <1>2, MultipleOfFrames DEF Sized
<1>5. PICK e \in Nat : e = a + c /\ e % SectionFrames = 0
  <2>1. PICK s \in Nat \ {0} : s = SectionFrames
    BY BootAssumption
  <2>2. PICK x \in Nat : a = x * s
    BY <1>3, <2>1, Whole
  <2>3. PICK y \in Nat : c = y * s
    BY <1>4, <2>1, Whole
  <2>4. (x + y) * s = x * s + y * s
    OBVIOUS
  <2>5. PICK z \in Nat : z = x + y
    OBVIOUS
  <2>6. a + c = z * s /\ (z * s) % s = 0
    BY <2>2, <2>3, <2>4, <2>5
  <2> QED
    BY <2>1, <2>6
<1>6. b.start + b.size = At(e) /\ PagesUp(At(e)) = e /\ Frame(At(e)) = e /\ PagesUp(At(a)) = a /\ Frame(At(a)) = a
  <2>1. a \in Int /\ c \in Int /\ e \in Int
    OBVIOUS
  <2> QED
    BY <1>3, <1>4, <1>5, <2>1, PageSums, WholePages
<1>7. FramesOf(b) = a..(e - 1)
  BY <1>3, <1>6 DEF FramesOf, StartPfn, EndPfn
<1>8. b.start % PageSize = 0
  BY <1>3, AlignDivides
<1> DEFINE cut == {a, e} \cup {f \in a..e : f % PgdFrames = 0}
<1>9. cut \subseteq a..e /\ a \in cut /\ e \in cut /\ cut \subseteq Nat
  <2>1. a <= e
    BY <1>5
  <2> QED
    BY <2>1
<1>10. \A f \in cut : f % SectionFrames = 0
  BY <1>3, <1>5, DirectoryOfSections
<1>11. Pieces(b) = {p \in cut \X cut : p[1] < p[2] /\ \A f \in cut : f <= p[1] \/ p[2] <= f}
  BY <1>3, <1>6 DEF Pieces
<1> HIDE DEF cut
<1>12. SectionMapped(b) \subseteq a..(e - 1)
  <2> SUFFICES ASSUME NEW p \in Pieces(b), NEW f \in p[1]..(p[2] - 1) PROVE f \in a..(e - 1)
    BY DEF SectionMapped
  <2>1. PICK x \in Nat, y \in Nat : x = p[1] /\ y = p[2] /\ x \in a..e /\ y \in a..e
    BY <1>9, <1>11
  <2> QED
    BY <2>1
<1>13. ASSUME NEW f \in a..(e - 1) PROVE f \in SectionMapped(b)
  <2>1. f \in Nat /\ a <= f /\ f + 1 <= e
    OBVIOUS
  <2> DEFINE Below == {x \in cut : x <= f}
             Above == {x \in cut : f + 1 <= x}
  <2>2. Below \subseteq Nat /\ Below # {} /\ \A x \in Below : x <= f
    BY <1>9, <2>1
  <2>3. Above \subseteq Nat /\ Above # {}
    BY <1>9, <2>1
  <2>4. PICK x \in Below : \A k \in Below : k <= x
    <3> HIDE DEF Below
    <3> QED
      BY <2>1, <2>2, GreatestElement
  <2>5. PICK y \in Above : \A k \in Above : y <= k
    <3> HIDE DEF Above
    <3> QED
      BY <2>3, LeastElement
  <2>6. x \in cut /\ y \in cut /\ x \in Nat /\ y \in Nat /\ x <= f /\ f + 1 <= y
    BY <1>9, <2>4, <2>5
  <2>7. \A k \in cut : k <= x \/ y <= k
    <3> TAKE k \in cut
    <3>1. k <= f \/ f + 1 <= k
      BY <1>9, <2>1
    <3> QED
      BY <2>4, <2>5, <3>1
  <2>8. PICK p : p = <<x, y>>
    OBVIOUS
  <2>9. p \in Pieces(b)
    BY <1>11, <2>6, <2>7, <2>8
  <2>10. {p[1] % SectionFrames, p[2] % SectionFrames, b.start % PageSize} = {0}
    BY <1>8, <1>10, <2>6, <2>8
  <2>11. f \in p[1]..(p[2] - 1)
    BY <2>1, <2>6, <2>8
  <2> QED
    BY <2>9, <2>10, <2>11 DEF SectionMapped
<1> QED
  BY <1>1, <1>7, <1>12, <1>13

Mapping ==
    stage \notin {"cmdline", "panic", "tests", "memtable"} =>
      mapped = UNION {SectionMapped(mem[i]) : i \in Banks}

LEMMA MappedIs ==
    ASSUME Laid, Sectioned, Mapping, stage \notin {"cmdline", "panic", "tests", "memtable"}
    PROVE  mapped = LowRam
  BY SectionsMapped DEF Mapping, LowRam

(****************************************************************************)
(* Batches, zonelists and marks.                                            *)
(****************************************************************************)
LEMMA PowersGrow ==
    ASSUME NEW m \in Nat, NEW n \in Nat, m < n
    PROVE  2 * Pow2[m] <= Pow2[n]
<1> DEFINE G == {i \in 0..n : m < i => 2 * Pow2[m] <= Pow2[i]}
<1>1. 0 \in G
  OBVIOUS
<1>2. ASSUME NEW i \in 1..n, i - 1 \in G PROVE i \in G
  <2>1. PICK k \in Nat : k = i - 1 /\ i = k + 1
    OBVIOUS
  <2>2. PICK x \in Nat, y \in Nat, z \in Nat : x = Pow2[m] /\ y = Pow2[k] /\ z = Pow2[i] /\ z = 2 * y
    BY <2>1, Powers
  <2>3. m < i => m < k \/ m = k
    BY <2>1
  <2>4. m < k => 2 * x <= y
    BY <1>2, <2>1, <2>2
  <2>5. m = k => x = y
    BY <2>2
  <2>6. m < i => 2 * x <= z
    BY <2>2, <2>3, <2>4, <2>5
  <2>7. i \in 0..n
    OBVIOUS
  <2>8. m < i => 2 * Pow2[m] <= Pow2[i]
    BY <2>2, <2>6
  <2> QED
    BY <2>7, <2>8
<1>3. \A i \in 0..n : i \in G
  <2> HIDE DEF G
  <2> QED
    BY <1>1, <1>2, UpTo
<1>4. n \in 0..n
  OBVIOUS
<1> QED
  BY <1>3, <1>4

LEMMA LogOfPower == ASSUME NEW k \in Nat PROVE Log2(Pow2[k]) = k
<1>1. PICK p \in Nat \ {0} : p = Pow2[k]
  <2>1. Pow2[k] \in Nat /\ Pow2[k] > k
    BY Powers
  <2> QED
    BY <2>1
<1>2. PICK l \in Nat : l = Log2(p) /\ Pow2[l] <= p /\ p < Pow2[l + 1]
  BY Logarithm
<1>3. PICK x \in Nat, y \in Nat : x = Pow2[l] /\ y = Pow2[l + 1] /\ y = 2 * x
  BY Powers
<1>4. ~ (k < l)
  BY <1>1, <1>2, <1>3, PowersGrow
<1>5. ~ (l < k)
  BY <1>1, <1>2, <1>3, PowersGrow
<1> QED
  BY <1>1, <1>2, <1>4, <1>5

\* A batch is one less than a power of two.
LEMMA BatchFacts ==
    ASSUME NEW pages \in Nat
    PROVE  /\ PcpBatch(pages) \in Nat
           /\ Pow2[Log2(PcpBatch(pages) + 1)] = PcpBatch(pages) + 1
<1>1. PICK quarter \in Nat : quarter = Clamp(pages \div BatchPages, 0, BatchMax) \div 4
  <2>0. PICK n \in Nat \ {0} : n = BatchPages
    BY BootAssumption
  <2>1. PICK x \in Nat : x = pages \div BatchPages
    <3>1. pages \div n \in Nat
      OBVIOUS
    <3> QED
      BY <2>0, <3>1
  <2>2. PICK c \in Nat : c = BatchMax
    BY BootAssumption
  <2>3. PICK y \in Nat : y = Clamp(x, 0, c)
    BY <2>1, <2>2 DEF Clamp
  <2>4. y \div 4 \in Nat
    OBVIOUS
  <2> QED
    BY <2>1, <2>2, <2>3, <2>4
<1>2. PICK batch \in Nat \ {0} : batch = IF quarter < 1 THEN 1 ELSE quarter
  OBVIOUS
<1>3. PICK n \in Nat \ {0} : n = batch + batch \div 2
  <2>1. batch \div 2 \in Nat
    OBVIOUS
  <2> QED
    BY <2>1
<1>4. PICK k \in Nat : k = Log2(n) + 1
  <2>1. Log2(n) \in Nat
    BY Logarithm
  <2> QED
    BY <2>1
<1>5. PcpBatch(pages) = Pow2[k] - 1
  BY <1>1, <1>2, <1>3, <1>4 DEF PcpBatch
<1>6. PICK p \in Nat \ {0} : p = Pow2[k]
  <2>1. Pow2[k] \in Nat /\ Pow2[k] > k
    BY Powers
  <2> QED
    BY <2>1
<1>7. PcpBatch(pages) \in Nat /\ PcpBatch(pages) + 1 = Pow2[k]
  BY <1>5, <1>6
<1> QED
  BY <1>7, LogOfPower

PagesetSound(p) ==
    /\ Pow2[Log2(p.hot.batch + 1)] = p.hot.batch + 1
    /\ p.hot.low >= p.hot.batch /\ p.cold.high >= p.cold.batch

LEMMA PagesetIsSound == ASSUME NEW n \in Nat PROVE PagesetSound(Pageset(PcpBatch(n)))
<1>1. PICK b \in Nat : b = PcpBatch(n) /\ Pow2[Log2(b + 1)] = b + 1
  BY BatchFacts
<1>2. /\ Pageset(b).hot.batch = b /\ Pageset(b).hot.low = 2 * b
      /\ Pageset(b).cold.batch = b /\ Pageset(b).cold.high = 2 * b
  BY DEF Pageset
<1> QED
  BY <1>1, <1>2 DEF PagesetSound

Descends(l) == \A k \in 1..3 : k + 1 \in DOMAIN l => l[k] > l[k + 1]
Listing == \A i \in DOMAIN zonelists : Descends(zonelists[i])

\* A list that falls from at least n.
Falls(l, n) ==
    /\ l \in Seq(Nat)
    /\ \A k \in 1..Len(l) : l[k] >= n /\ (k + 1 <= Len(l) => l[k] > l[k + 1])

LEMMA ListGrows ==
    ASSUME NEW n \in Nat, NEW l, Falls(l, n + 1), NEW t \in {<<>>, <<n>>}
    PROVE  Falls(l \o t, n)
<1>1. PICK c \in Nat : c = Len(l)
  BY DEF Falls
<1>2. CASE t = <<>>
  <2>1. l \o t = l
    BY <1>2, ConcatEmptySeq DEF Falls
  <2> QED
    BY <2>1 DEF Falls
<1>3. CASE t = <<n>>
  <2>1. t \in Seq(Nat) /\ Len(t) = 1 /\ t[1] = n
    BY <1>3
  <2>2. PICK x : x = l \o t
    OBVIOUS
  <2>3. /\ x \in Seq(Nat) /\ Len(x) = c + 1
        /\ \A k \in 1..(c + 1) : x[k] = IF k <= c THEN l[k] ELSE t[k - c]
    <3>1. l \in Seq(Nat)
      BY DEF Falls
    <3>2. /\ x \in Seq(Nat) /\ Len(x) = Len(l) + Len(t)
          /\ \A k \in 1..(Len(l) + Len(t)) : x[k] = IF k <= Len(l) THEN l[k] ELSE t[k - Len(l)]
      BY <2>1, <2>2, <3>1, ConcatProperties
    <3> QED
      BY <1>1, <2>1, <3>2
  <2>4. \A k \in 1..c : x[k] = l[k] /\ l[k] \in Nat /\ l[k] >= n + 1 /\ (k + 1 <= c => l[k] > l[k + 1])
    BY <1>1, <2>3 DEF Falls
  <2>5. x[c + 1] = n
    BY <2>1, <2>3
  <2>6. ASSUME NEW k \in 1..(c + 1) PROVE x[k] >= n /\ (k + 1 <= c + 1 => x[k] > x[k + 1])
    <3>1. CASE k = c + 1
      BY <2>5, <3>1
    <3>2. CASE k = c
      BY <2>4, <2>5, <3>2
    <3>3. CASE k < c
      BY <2>4, <3>3
    <3> QED
      BY <3>1, <3>2, <3>3
  <2> QED
    BY <2>2, <2>3, <2>6 DEF Falls
<1> QED
  BY <1>2, <1>3

LEMMA ListsDescend ==
    ASSUME NEW a \in {<<>>, << 3 >>}, NEW b \in {<<>>, << 2 >>}, NEW c \in {<<>>, << 1 >>}
    PROVE  Descends(a \o b \o c)
<1>1. Falls(a, 2 + 1)
  <2>1. CASE a = <<>>
    <3>1. a \in Seq(Nat) /\ Len(a) = 0
      BY <2>1
    <3> QED
      BY <3>1 DEF Falls
  <2>2. CASE a = << 3 >>
    <3>1. a \in Seq(Nat) /\ Len(a) = 1 /\ a[1] = 3
      BY <2>2
    <3> QED
      BY <3>1 DEF Falls
  <2> QED
    BY <2>1, <2>2
<1>2. Falls(a \o b, 1 + 1)
  <2>1. Falls(a \o b, 2)
    BY <1>1, ListGrows
  <2> QED
    BY <2>1
<1>3. Falls((a \o b) \o c, 1)
  BY <1>2, ListGrows
<1>4. PICK l : l = (a \o b) \o c /\ Falls(l, 1)
  BY <1>3
<1>5. DOMAIN l = 1..Len(l)
  BY <1>4 DEF Falls
<1>6. Descends(l)
  <2>1. ASSUME NEW k \in 1..3, k + 1 \in DOMAIN l PROVE l[k] > l[k + 1]
    <3>1. PICK n \in Nat : n = Len(l)
      BY <1>4 DEF Falls
    <3>2. k \in 1..Len(l) /\ k + 1 <= Len(l)
      BY <1>5, <2>1, <3>1
    <3> QED
      BY <1>4, <3>2 DEF Falls
  <2> QED
    BY <2>1 DEF Descends
<1> QED
  BY <1>4, <1>6

LEMMA ListingBuilt == ASSUME BuildZonelists PROVE Listing'
<1>1. zonelists' = [i \in 0..2 |-> Populated(3, i) \o Populated(2, i) \o Populated(1, i)]
  BY DEF BuildZonelists
<1>2. \A i \in 0..2 : Populated(3, i) \in {<<>>, << 3 >>} /\ Populated(2, i) \in {<<>>, << 2 >>} /\ Populated(1, i) \in {<<>>, << 1 >>}
  BY DEF Populated
<1>3. \A i \in 0..2 : Descends(Populated(3, i) \o Populated(2, i) \o Populated(1, i))
  BY <1>2, ListsDescend
<1>4. \A l : Descends(l)' <=> Descends(l)
  BY DEF Descends
<1>5. \A i \in 0..2 : Descends(zonelists'[i])
  BY <1>1, <1>3
<1> QED
  BY <1>1, <1>5 DEF Listing, Descends

(****************************************************************************)
(* The marks of the zones.                                                  *)
(****************************************************************************)
LEMMA SquareRoot == ASSUME NEW n \in Nat PROVE Sqrt(n) \in Nat
<1> DEFINE S == {k \in 0..n : k * k <= n}
<1>1. S \subseteq Nat /\ S # {} /\ \A k \in S : k <= n
  <2>1. 0 \in 0..n /\ 0 * 0 <= n
    OBVIOUS
  <2> QED
    BY <2>1
<1>2. PICK k \in S : \A x \in S : x <= k
  <2> HIDE DEF S
  <2> QED
    BY <1>1, GreatestElement
<1>3. k \in 0..n /\ k \in Nat /\ k * k <= n
  BY <1>2
<1>4. n < (k + 1) * (k + 1)
  <2>1. CASE k + 1 \in 0..n
    <3>1. k + 1 \notin S
      BY <1>2, <1>3
    <3>2. ~ ((k + 1) * (k + 1) <= n)
      BY <2>1, <3>1
    <3>3. (k + 1) * (k + 1) \in Nat
      BY <1>3
    <3> QED
      BY <3>2, <3>3
  <2>2. CASE k + 1 \notin 0..n
    <3>1. k = n
      BY <1>3, <2>2
    <3>2. (n + 1) * (n + 1) = n * n + 2 * n + 1 /\ n * n \in Nat
      OBVIOUS
    <3> QED
      BY <3>1, <3>2
  <2> QED
    BY <2>1, <2>2
<1>5. \E x \in 0..n : x * x <= n /\ n < (x + 1) * (x + 1)
  BY <1>3, <1>4
<1>6. Sqrt(n) \in 0..n
  BY <1>5 DEF Sqrt
<1> QED
  BY <1>6

LEMMA Quotients ==
    ASSUME NEW x \in Nat, NEW y \in Nat, x <= y, NEW n \in Nat \ {0}
    PROVE  x \div n \in Nat /\ y \div n \in Nat /\ x \div n <= y \div n
<1>1. x \div n \in Nat /\ y \div n \in Nat
  OBVIOUS
<1>2. (x \div n) * n <= x
  BY <1>1, DivAtLeast
<1>3. (x \div n) * n \in Nat
  BY <1>1
<1>4. (x \div n) * n <= y
  BY <1>2, <1>3
<1> QED
  BY <1>1, <1>4, DivAtLeast

\* What is shared out by rounded-down parts is never more than there was.
LEMMA Shares ==
    ASSUME NEW a \in Nat, NEW p \in Nat, NEW q \in Nat, NEW l \in Nat \ {0}, l = p + q
    PROVE  /\ (a * p) \div l \in Nat /\ (a * q) \div l \in Nat
           /\ (a * p) \div l + (a * q) \div l <= a
<1>1. PICK x \in Nat, y \in Nat : x = a * p /\ y = a * q
  OBVIOUS
<1>2. PICK u \in Nat, v \in Nat : u = x \div l /\ v = y \div l
  <2>1. x \div l \in Nat /\ y \div l \in Nat
    OBVIOUS
  <2> QED
    BY <2>1
<1>3. u * l <= x /\ v * l <= y
  <2>1. x \in Int /\ y \in Int /\ u \in Int /\ v \in Int /\ u <= x \div l /\ v <= y \div l
    BY <1>2
  <2>2. u * l <= x
    BY <2>1, DivAtLeast
  <2>3. v * l <= y
    BY <2>1, DivAtLeast
  <2> QED
    BY <2>2, <2>3
<1>4. x + y = a * l
  BY <1>1
<1>5. (u + v) * l <= a * l
  <2>1. (u + v) * l = u * l + v * l
    OBVIOUS
  <2>2. u * l \in Nat /\ v * l \in Nat /\ a * l \in Nat
    OBVIOUS
  <2> QED
    BY <1>3, <1>4, <2>1, <2>2
<1>6. u + v <= a
  <2>1. PICK s \in Nat : s = u + v
    OBVIOUS
  <2>2. s * l <= a * l
    BY <1>5, <2>1
  <2>3. CASE a < s
    <3>1. PICK d \in Nat : s = a + d + 1
      <4>1. s - a - 1 \in Nat /\ s = a + (s - a - 1) + 1
        BY <2>3
      <4> QED
        BY <4>1
    <3>2. s * l = a * l + d * l + l
      BY <3>1
    <3>3. a * l \in Nat /\ d * l \in Nat
      OBVIOUS
    <3> QED
      BY <2>2, <3>2, <3>3
  <2> QED
    BY <2>1, <2>3
<1> QED
  BY <1>1, <1>2, <1>6

MarkRise(z) ==
    /\ 0 <= zones[z].pages_min /\ zones[z].pages_min <= zones[z].pages_low
    /\ zones[z].pages_low <= zones[z].pages_high
    /\ \A j \in 1..2 : reserve[z][j] <= reserve[z][j + 1]

Marking ==
    stage = "up" =>
      /\ \A z \in 1..3 : MarkRise(z)
      /\ zones[1].pages_min + zones[2].pages_min <= MinFree \div PageSize

LEMMA ClampType ==
    ASSUME NEW x \in Nat, NEW lo \in Nat, NEW hi \in Nat PROVE Clamp(x, lo, hi) \in Nat
  BY DEF Clamp

LEMMA MinFreeType == ASSUME Lowmem \in Nat PROVE MinFree \in Nat
<1>1. PICK p \in Nat, l \in Nat : p = PageSize /\ l = Lowmem
  BY Widths
<1>2. PICK x \in Nat : x = l * p
  OBVIOUS
<1>3. PICK y \in Nat : y = x * 16
  OBVIOUS
<1>4. y = Lowmem * PageSize * 16
  BY <1>1, <1>2, <1>3
<1>5. PICK s \in Nat : s = Sqrt(y)
  BY SquareRoot
<1>6. MinFreeMin \in Nat /\ MinFreeMax \in Nat
  BY BootAssumption
<1> QED
  BY <1>4, <1>5, <1>6, ClampType DEF MinFree

\* What the marks are computed from.
Present(p, q, r) ==
    /\ zones[1].present_pages = p /\ zones[2].present_pages = q /\ zones[3].present_pages = r
    /\ Lowmem = p + q

LEMMA MarksShared ==
    ASSUME NEW p \in Nat, NEW q \in Nat, NEW r \in Nat, p + q > 0, Present(p, q, r)
    PROVE  /\ \A z \in 1..3 : PagesMin(z) \in Nat
           /\ MinFree \in Nat /\ PagesMin(1) + PagesMin(2) <= MinFree \div PageSize
<1>1. PICK l \in Nat \ {0} : l = p + q
  OBVIOUS
<1>2. Lowmem = l /\ Lowmem \in Nat
  BY <1>1 DEF Present
<1>3. MinFree \in Nat
  BY <1>2, MinFreeType
<1>4. PICK a \in Nat : a = MinFree \div PageSize
  <2>1. PageSize \in Nat \ {0}
    BY Widths
  <2> QED
    BY <1>3, <2>1, Quotients
<1>5. PagesMin(1) = (a * p) \div l /\ PagesMin(2) = (a * q) \div l
  BY <1>2, <1>4 DEF PagesMin, Present
<1>6. PagesMin(1) \in Nat /\ PagesMin(2) \in Nat /\ PagesMin(1) + PagesMin(2) <= a
  BY <1>1, <1>5, Shares
<1>7. PagesMin(3) \in Nat
  <2>1. HighScale \in Nat \ {0} /\ HighMin \in Nat /\ HighMax \in Nat
    BY BootAssumption
  <2>2. PICK x \in Nat : x = r \div HighScale
    BY <2>1, Quotients
  <2> QED
    BY <2>1, <2>2, ClampType DEF PagesMin, Present
<1> QED
  BY <1>3, <1>4, <1>6, <1>7

LEMMA ReservesRise ==
    ASSUME NEW p \in Nat, NEW q \in Nat, NEW r \in Nat, Present(p, q, r), NEW z \in 1..3, NEW j \in 1..2
    PROVE  LowmemReserve(z, j) <= LowmemReserve(z, j + 1)
<1>1. CASE z = 3
  <2>1. LowmemReserve(z, j) = 0 /\ LowmemReserve(z, j + 1) = 0
    BY <1>1 DEF LowmemReserve
  <2> QED
    BY <2>1
<1>2. CASE z = 2
  <2>0. Ratio[2] \in Nat \ {0}
    <3>1. \A i \in 1..2 : Ratio[i] \in Nat \ {0}
      BY BootAssumption
    <3> QED
      BY <3>1
  <2>1. PICK n \in Nat \ {0} : n = Ratio[2]
    BY <2>0
  <2>2. LowmemReserve(z, 1) = 0 /\ LowmemReserve(z, 2) = 0
    BY <1>2 DEF LowmemReserve
  <2>3. LowmemReserve(z, 3) = (0 + r) \div n
    BY <1>2, <2>1 DEF LowmemReserve, Present
  <2>4. LowmemReserve(z, 3) \in Nat
    BY <2>3, Quotients
  <2> QED
    BY <2>2, <2>4
<1>3. CASE z = 1
  <2>0. Ratio[1] \in Nat \ {0}
    <3>1. \A i \in 1..2 : Ratio[i] \in Nat \ {0}
      BY BootAssumption
    <3> QED
      BY <3>1
  <2>1. PICK n \in Nat \ {0} : n = Ratio[1]
    BY <2>0
  <2>2. LowmemReserve(z, 1) = 0
    BY <1>3 DEF LowmemReserve
  <2>3. LowmemReserve(z, 2) = (q + 0) \div n
    BY <1>3, <2>1 DEF LowmemReserve, Present
  <2>4. LowmemReserve(z, 3) = (q + r) \div n
    BY <1>3, <2>1 DEF LowmemReserve, Present
  <2>5. PICK s \in Nat, t \in Nat : s = q + 0 /\ t = q + r /\ s <= t
    OBVIOUS
  <2>6. s \div n \in Nat /\ s \div n <= t \div n
    BY <2>5, Quotients
  <2> QED
    BY <2>2, <2>3, <2>4, <2>5, <2>6
<1> QED
  BY <1>1, <1>2, <1>3

LEMMA ZonesPresent ==
    ASSUME BootInv, Booted, Len(zones) = 3
    PROVE  \E p \in Nat, q \in Nat, r \in Nat : p + q > 0 /\ Present(p, q, r)
<1>1. Laid /\ Zoning
  BY LaidOut DEF BootInv, Booted
<1>2. PICK p \in Nat, q \in Nat, r \in Nat : p = Sizes[1] /\ q = Sizes[2] /\ r = Sizes[3]
  BY <1>1, SizesType
<1>3. p + q > 0
  <2>1. PICK d \in Nat, n \in Nat : d = DmaFrames /\ n = NormalFrames /\ d + n > 0
    BY BootAssumption
  <2>2. d + n <= p + q
    BY <1>1, <1>2, <2>1, SizesType
  <2> QED
    BY <2>1, <2>2
<1>4. ZoneIs(zones[1], 1) /\ ZoneIs(zones[2], 2) /\ ZoneIs(zones[3], 3)
  BY <1>1 DEF Zoning
<1>5. zones[1].present_pages = p /\ zones[2].present_pages = q /\ zones[3].present_pages = r
  BY <1>2, <1>4 DEF ZoneIs
<1> QED
  BY <1>3, <1>5 DEF Present, Lowmem

LEMMA MarksRise == ASSUME BootInv, InitPerZonePagesMin PROVE Marking'
<1>1. /\ stage = "marks"
      /\ zones' = [z \in 1..3 |-> [zones[z] EXCEPT !.pages_min = PagesMin(z),
                                                   !.pages_low = (PagesMin(z) * 5) \div 4,
                                                   !.pages_high = (PagesMin(z) * 6) \div 4]]
      /\ reserve' = [z \in 1..3 |-> [j \in 1..3 |-> LowmemReserve(z, j)]]
  BY DEF InitPerZonePagesMin
<1>2. Booted /\ zones \in Seq(ZoneType) /\ Len(zones) = 3
  BY <1>1 DEF BootInv, Zoning, Booted
<1>3. PICK p \in Nat, q \in Nat, r \in Nat : p + q > 0 /\ Present(p, q, r)
  BY <1>2, ZonesPresent
<1>4. /\ \A z \in 1..3 : PagesMin(z) \in Nat
      /\ MinFree \in Nat /\ PagesMin(1) + PagesMin(2) <= MinFree \div PageSize
  BY <1>3, MarksShared
<1>5. ASSUME NEW z \in 1..3 PROVE zones[z] \in ZoneType
  <2>1. z \in 1..Len(zones)
    BY <1>2
  <2>2. PICK S : S = ZoneType
    OBVIOUS
  <2>3. zones \in Seq(S)
    BY <1>2, <2>2
  <2> QED
    BY <2>1, <2>2, <2>3
<1>6. ASSUME NEW z \in 1..3
      PROVE  /\ zones'[z].pages_min = PagesMin(z)
             /\ zones'[z].pages_low = (PagesMin(z) * 5) \div 4
             /\ zones'[z].pages_high = (PagesMin(z) * 6) \div 4
             /\ zones'[z].present_pages = zones[z].present_pages
  <2>1. zones'[z] = [zones[z] EXCEPT !.pages_min = PagesMin(z), !.pages_low = (PagesMin(z) * 5) \div 4,
                                     !.pages_high = (PagesMin(z) * 6) \div 4]
    BY <1>1
  <2>2. zones[z] \in ZoneType
    BY <1>5
  <2> QED
    BY <2>1, <2>2 DEF ZoneType
<1>7. Lowmem' = Lowmem
  BY <1>6 DEF Lowmem
<1>8. MinFree' = MinFree
  BY <1>7 DEF MinFree, Clamp, Sqrt
<1>9. ASSUME NEW z \in 1..3 PROVE MarkRise(z)'
  <2>1. PICK m \in Nat : m = PagesMin(z)
    BY <1>4
  <2>2. 0 <= m /\ m <= (m * 5) \div 4 /\ (m * 5) \div 4 <= (m * 6) \div 4
    OBVIOUS
  <2>3. ASSUME NEW j \in 1..2 PROVE reserve'[z][j] <= reserve'[z][j + 1]
    <3>1. reserve'[z][j] = LowmemReserve(z, j) /\ reserve'[z][j + 1] = LowmemReserve(z, j + 1)
      BY <1>1
    <3> QED
      BY <1>3, <3>1, ReservesRise
  <2>4. zones'[z].pages_min = m /\ zones'[z].pages_low = (m * 5) \div 4 /\ zones'[z].pages_high = (m * 6) \div 4
    BY <1>6, <2>1
  <2> QED
    BY <2>2, <2>3, <2>4 DEF MarkRise
<1>10. (zones[1].pages_min + zones[2].pages_min)' = PagesMin(1) + PagesMin(2)
  BY <1>6
<1> QED
  BY <1>4, <1>8, <1>9, <1>10 DEF Marking

(****************************************************************************)
(* The invariant of the zones.                                              *)
(****************************************************************************)
ZoneInv == BootInv /\ Mapping /\ Listing /\ Marking

LEMMA ZoneInvInit == BootInit => ZoneInv
<1> SUFFICES ASSUME BootInit PROVE ZoneInv
  OBVIOUS
<1>1. stage = "cmdline" /\ zonelists = <<>> /\ DOMAIN zonelists = {}
  BY DEF BootInit
<1>2. Mapping /\ Listing /\ Marking
  BY <1>1 DEF Mapping, Listing, Marking
<1> QED
  BY <1>2, BootInvInit DEF ZoneInv

LEMMA MappedStays ==
    ASSUME Mapping, mem' = mem, mapped' = mapped, stage \in {"cmdline", "panic", "tests", "memtable"} =>
                            stage' \in {"cmdline", "panic", "tests", "memtable"}
    PROVE  Mapping'
<1>1. \A b : SectionMapped(b)' = SectionMapped(b)
  BY DEF SectionMapped, Pieces
<1>2. Banks' = Banks
  BY DEF Banks
<1> QED
  BY <1>1, <1>2 DEF Mapping

LEMMA ListingStays == ASSUME Listing, zonelists' = zonelists PROVE Listing'
  BY DEF Listing, Descends

LEMMA ZoneInvStep == ASSUME ZoneInv, [BootNext]_bootVars PROVE ZoneInv'
<1>1. BootInv /\ Mapping /\ Listing /\ Marking /\ BootInv'
  BY BootInvStep DEF ZoneInv
<1>2. CASE MemtableInit
  <2>1. /\ stage = "memtable" /\ stage' = "mem_map" /\ UNCHANGED <<mem, zonelists>>
        /\ mapped' = UNION {SectionMapped(mem[i]) : i \in Banks}
    BY <1>2 DEF MemtableInit, layout
  <2>2. (UNION {SectionMapped(mem[i]) : i \in Banks})' = UNION {SectionMapped(mem[i]) : i \in Banks}
    BY <2>1 DEF Banks, SectionMapped, Pieces
  <2>3. Mapping' /\ Marking'
    BY <2>1, <2>2 DEF Mapping, Marking
  <2> QED
    BY <1>1, <2>1, <2>3, ListingStays DEF ZoneInv
<1>3. CASE BuildZonelists
  <2>1. stage = "zonelists" /\ stage' = "dcache" /\ UNCHANGED <<mem, mapped>>
    BY <1>3 DEF BuildZonelists, layout
  <2>2. Marking'
    BY <2>1 DEF Marking
  <2> QED
    BY <1>1, <1>3, <2>1, <2>2, MappedStays, ListingBuilt DEF ZoneInv
<1>4. CASE InitPerZonePagesMin
  <2>1. stage = "marks" /\ UNCHANGED <<mem, mapped, zonelists>>
    BY <1>4 DEF InitPerZonePagesMin, layout
  <2> QED
    BY <1>1, <1>4, <2>1, MappedStays, ListingStays, MarksRise DEF ZoneInv
<1>5. CASE UNCHANGED bootVars
  <2>1. UNCHANGED <<stage, mem, mapped, zonelists, zones, reserve>>
    BY <1>5 DEF bootVars, layout
  <2>2. Marking'
    <3>1. MinFree' = MinFree /\ \A z : MarkRise(z)' <=> MarkRise(z)
      BY <2>1 DEF MinFree, Lowmem, MarkRise
    <3> QED
      BY <1>1, <2>1, <3>1 DEF Marking
  <2> QED
    BY <1>1, <2>1, <2>2, MappedStays, ListingStays DEF ZoneInv
<1>6. CASE ParseArg
  <2>1. stage = "cmdline" /\ stage' = "cmdline" /\ zonelists' = zonelists
    BY <1>6 DEF ParseArg
  <2>2. Mapping' /\ Marking'
    BY <2>1 DEF Mapping, Marking
  <2> QED
    BY <1>1, <2>1, <2>2, ListingStays DEF ZoneInv
<1>7. CASE BootNext /\ ~ ParseArg /\ ~ MemtableInit /\ ~ BuildZonelists /\ ~ InitPerZonePagesMin
  <2>1. /\ mem' = mem /\ mapped' = mapped /\ zonelists' = zonelists /\ stage' # "up"
        /\ stage \in {"cmdline", "panic", "tests", "memtable"} => stage' \in {"cmdline", "panic", "tests", "memtable"}
    BY <1>7 DEF BootNext, BootmemInit, TestAlloc, TestFree, TestReserve, ZeroPage,
                NodeMemMap, InitZone, KmapInit, KmapInitFixmap, SetupPerCpuAreas,
                DcacheInit, InodeInit, MemInit, Claim, layout, later
  <2>2. Marking'
    BY <2>1 DEF Marking
  <2> QED
    BY <1>1, <2>1, <2>2, MappedStays, ListingStays DEF ZoneInv
<1> QED
  BY <1>2, <1>3, <1>4, <1>5, <1>6, <1>7

\* Once memtable_init, build_zonelists and init_per_zone_pages_min have run, what is mapped
\* is what is in whole sections of the banks, the lists descend and the marks rise.
THEOREM ZoneInvHolds == BootSpec => []ZoneInv
<1>1. ZoneInv /\ [BootNext]_bootVars => ZoneInv'
  BY ZoneInvStep
<1> QED
  BY <1>1, ZoneInvInit, PTL DEF BootSpec

LEMMA ZonesAreSound == ZoneInv => ZonesSound
<1> SUFFICES ASSUME ZoneInv, Len(zones) = 3, stage # "panic", WellFormed PROVE ZonesSound
  BY DEF ZonesSound
<1>1. BootInv /\ Mapping /\ Listing /\ Marking /\ Zoning
  BY DEF ZoneInv, BootInv
<1>2. stage \notin {"cmdline", "panic", "tests", "memtable", "mem_map"}
  <2>1. zones # <<>>
    <3>1. Len(<<>>) = 0
      OBVIOUS
    <3> QED
      BY <3>1
  <2> QED
    BY <1>1, <2>1 DEF Zoning
<1>3. Laid /\ Booted
  BY <1>1, <1>2, LaidOut DEF Booted
<1>4. PICK s \in Nat, d \in Nat, m \in Nat, e \in Nat :
         s = NodeStart /\ d = DmaFrames /\ m = Memend /\ e = NodeEnd /\ s + d <= m /\ m <= e
  <2>1. DmaFrames \in Nat
    BY ProbedType
  <2>2. NodeStart \in Nat /\ Memend \in Nat /\ NodeEnd \in Nat
    BY <1>3, Extent, BankFacts
  <2> QED
    BY <1>1, <1>3, <2>1, <2>2, ZonesTile
<1>5. Zone(1) = s..(s + d - 1) /\ Zone(2) = (s + d)..(m - 1) /\ Zone(3) = m..(e - 1)
  BY <1>1, <1>3, <1>4, ZonesTile
<1>6. FramesOf(high[1]) = m..(e - 1) /\ LowRam \subseteq s..(m - 1)
  BY <1>3, <1>4, HighFrames
<1>7. UNION {Zone(z) : z \in 1..3} = NodeStart..(NodeEnd - 1)
  <2>1. UNION {Zone(z) : z \in 1..3} = Zone(1) \cup Zone(2) \cup Zone(3)
    <3>1. 1..3 = {1, 2, 3}
      OBVIOUS
    <3> QED
      BY <3>1
  <2>2. (s..(s + d - 1)) \cup ((s + d)..(m - 1)) \cup (m..(e - 1)) = s..(e - 1)
    BY <1>4
  <2> QED
    BY <1>4, <1>5, <2>1, <2>2
<1>8. Zone(1) \cap Zone(2) = {} /\ Zone(3) = FramesOf(high[1])
  <2>1. (s..(s + d - 1)) \cap ((s + d)..(m - 1)) = {}
    OBVIOUS
  <2> QED
    BY <1>5, <1>6, <2>1
<1>9. Sectioned => (Zone(1) \cup Zone(2)) \cap LowRam \subseteq mapped /\ mapped \cap Zone(3) = {}
  <2> SUFFICES ASSUME Sectioned PROVE (Zone(1) \cup Zone(2)) \cap LowRam \subseteq mapped /\ mapped \cap Zone(3) = {}
    OBVIOUS
  <2>1. mapped = LowRam
    BY <1>1, <1>2, <1>3, MappedIs
  <2>2. (s..(m - 1)) \cap (m..(e - 1)) = {}
    OBVIOUS
  <2> QED
    BY <1>5, <1>6, <2>1, <2>2
<1>10. ASSUME NEW z \in 1..3 PROVE PagesetSound(zones[z].pageset)
  <2>1. ZoneIs(zones[z], z)
    BY <1>1, <1>3 DEF Zoning
  <2>2. PICK n \in Nat : n = Sizes[z]
    BY <1>3, SizesType
  <2>3. zones[z].pageset = Pageset(PcpBatch(n))
    BY <2>1, <2>2 DEF ZoneIs
  <2> QED
    BY <2>3, PagesetIsSound
<1>11. \A z \in 1..3 : LET p == zones[z].pageset
                       IN  /\ Pow2[Log2(p.hot.batch + 1)] = p.hot.batch + 1
                           /\ p.hot.low >= p.hot.batch /\ p.cold.high >= p.cold.batch
  BY <1>10 DEF PagesetSound
<1>12. \A i \in DOMAIN zonelists, k \in 1..3 :
          k + 1 \in DOMAIN zonelists[i] => zonelists[i][k] > zonelists[i][k + 1]
  BY <1>1 DEF Listing, Descends
<1>13. stage = "up" =>
          /\ \A z \in 1..3 : /\ 0 <= zones[z].pages_min /\ zones[z].pages_min <= zones[z].pages_low
                             /\ zones[z].pages_low <= zones[z].pages_high
                             /\ \A j \in 1..2 : reserve[z][j] <= reserve[z][j + 1]
          /\ zones[1].pages_min + zones[2].pages_min <= MinFree \div PageSize
  BY <1>1 DEF Marking, MarkRise
<1> QED
  BY <1>7, <1>8, <1>9, <1>11, <1>12, <1>13 DEF ZonesSound

\* For every well-formed layout the zones divide the node, a bank of whole sections is
\* mapped and high memory is not, and batches, fallback lists, marks and reserves are
\* in order (free_area_init_node, build_zonelists, init_per_zone_pages_min).
THEOREM BootZonesSound == BootSpec => []ZonesSound
  BY ZoneInvHolds, ZonesAreSound, PTL

(****************************************************************************)
(* Permanent mappings.                                                      *)
(****************************************************************************)
\* What a task knows of the slot it was given, and who is on the wait queue.
Placed ==
    /\ \A t \in Tasks : pc[t] = "mapped" =>
         page[t] \in Pages /\ vaddr[t] \in Slots /\ vaddr[t] = addr[page[t]]
    /\ queue = {t \in Tasks : pc[t] = "sleep"}

\* The inductive invariant.
IInv == TypeOK /\ Placed /\ CountsMatch /\ NoLostWakeup

------------------------------------------------------------------------------
LEMMA MappersFinite ==
    ASSUME NEW p PROVE IsFiniteSet(Mappers(p)) /\ Cardinality(Mappers(p)) \in Nat
<1>1. Mappers(p) \in SUBSET Tasks
  BY DEF Mappers
<1> QED
  BY <1>1, FS_Subset, FS_CardinalityType, KmapAssumption

\* A slot that some task uses has a count of 2 or more: it is not torn down.
LEMMA UsedSlot ==
    ASSUME TypeOK, Placed, CountsMatch, NEW t \in Tasks, pc[t] = "mapped"
    PROVE  /\ page[t] \in Pages /\ addr[page[t]] \in Slots
           /\ pte[addr[page[t]]] = page[t]
           /\ cnt[addr[page[t]]] >= 2
<1> DEFINE s == addr[page[t]]
<1>1. page[t] \in Pages /\ s \in Slots
  BY DEF Placed
<1>2. pte[s] = page[t] /\ pte[s] # None
  BY <1>1, KmapAssumption DEF CountsMatch
<1>3. t \in Mappers(page[t])
  BY DEF Mappers
<1>4. Cardinality(Mappers(page[t])) \in Nat /\ Cardinality(Mappers(page[t])) # 0
  BY <1>3, MappersFinite, FS_EmptySet
<1>5. cnt[s] = 1 + Cardinality(Mappers(page[t]))
  BY <1>1, <1>2 DEF CountsMatch
<1> QED
  BY <1>1, <1>2, <1>4, <1>5

\* A page with users has a slot; a slot with a count of 1 or less has no users.
LEMMA UnusedSlot ==
    ASSUME TypeOK, Placed, CountsMatch, NEW p \in Pages,
           addr[p] = None \/ (addr[p] \in Slots /\ cnt[addr[p]] < 2)
    PROVE  Mappers(p) = {}
<1>1. SUFFICES ASSUME NEW t \in Mappers(p) PROVE FALSE
  OBVIOUS
<1>2. t \in Tasks /\ pc[t] = "mapped" /\ page[t] = p
  BY <1>1 DEF Mappers
<1>3. addr[p] \in Slots /\ cnt[addr[p]] >= 2
  BY <1>2, UsedSlot
<1>4. cnt[addr[p]] \in Nat
  BY <1>3 DEF TypeOK
<1> QED
  BY <1>3, <1>4, KmapAssumption

\* A task that is given a mapping is one more user of its page, and of no other.
LEMMA OneMore ==
    ASSUME TypeOK, NEW t \in Tasks, NEW p \in Pages, NEW s,
           Wants(t, p), Given(t, p, s)
    PROVE  /\ Mappers(p)' = Mappers(p) \cup {t}
           /\ Cardinality(Mappers(p)') = Cardinality(Mappers(p)) + 1
           /\ \A q : q # p => Mappers(q)' = Mappers(q)
<1>1. t \notin Mappers(p)
  BY DEF Mappers, Wants
<1>2. Mappers(p)' = Mappers(p) \cup {t}
  BY DEF Mappers, Given, Goto, TypeOK
<1>3. \A q : q # p => Mappers(q)' = Mappers(q)
  BY DEF Mappers, Given, Goto, TypeOK, Wants
<1>4. Cardinality(Mappers(p) \cup {t}) = Cardinality(Mappers(p)) + 1
  BY <1>1, MappersFinite, FS_AddElement
<1> QED
  BY <1>2, <1>3, <1>4

\* A task that unmaps is one user less.
LEMMA OneLess ==
    ASSUME TypeOK, NEW t \in Tasks, NEW p, p = page[t], Kunmap(t)
    PROVE  /\ Cardinality(Mappers(p)') = Cardinality(Mappers(p)) - 1
           /\ \A q : q # p => Mappers(q)' = Mappers(q)
<1>1. t \in Mappers(p)
  BY DEF Mappers, Kunmap
<1>2. /\ pc[t] = "mapped" /\ pc'[t] # "mapped"
      /\ \A u \in Tasks : u # t => pc'[u] = pc[u] /\ page'[u] = page[u]
  BY DEF Kunmap, Goto, TypeOK
<1>3. Mappers(p)' = Mappers(p) \ {t}
  BY <1>2 DEF Mappers
<1>5. \A q : q # p => Mappers(q)' = Mappers(q)
  BY <1>2 DEF Mappers
<1>6. Cardinality(Mappers(p) \ {t}) = Cardinality(Mappers(p)) - 1
  BY <1>1, MappersFinite, FS_RemoveElement
<1> QED
  BY <1>3, <1>5, <1>6

\* CountsMatch after a step, with the page of each slot named.
LEMMA CountsMatchNext ==
    ASSUME \A s \in Slots, p \in Pages : pte'[s] = p <=> addr'[p] = s,
           \A s \in Slots : \A q : pte'[s] = q =>
               cnt'[s] = IF q = None THEN 0 ELSE 1 + Cardinality(Mappers(q)')
    PROVE  CountsMatch'
BY DEF CountsMatch, Mappers

LEMMA SameMappers ==
    ASSUME UNCHANGED <<pc, page>>
    PROVE  \A q : Mappers(q)' = Mappers(q)
BY DEF Mappers

------------------------------------------------------------------------------
LEMMA BaseInit == Init => IInv
<1> SUFFICES ASSUME Init PROVE IInv
  OBVIOUS
<1>1. 0 \in Slots
  BY KmapAssumption DEF Slots
<1>2. CountsMatch
  BY KmapAssumption DEF Init, CountsMatch
<1> QED
  BY <1>1, <1>2, KmapAssumption DEF Init, IInv, TypeOK, Placed, NoLostWakeup

\* The actions, one lemma each.
LEMMA MappedStep ==
    ASSUME IInv, NEW t \in Tasks, NEW p \in Pages, KmapMapped(t, p)
    PROVE  IInv'
<1> DEFINE s == addr[p]
<1> USE DEF IInv
<1>1. s \in Slots /\ pte[s] = p /\ p # None /\ cnt[s] \in Nat
  BY KmapAssumption DEF KmapMapped, TypeOK, CountsMatch
<1>2. Wants(t, p) /\ Given(t, p, s)
  BY DEF KmapMapped
<1>3. TypeOK'
  BY <1>1 DEF TypeOK, KmapMapped, Given, Goto
<1>4. Placed'
  BY <1>1, <1>2 DEF TypeOK, KmapMapped, Given, Goto, Placed, Wants
<1>5. CountsMatch'
  <2>1. ASSUME NEW u \in Slots, NEW q, pte'[u] = q
        PROVE  cnt'[u] = IF q = None THEN 0 ELSE 1 + Cardinality(Mappers(q)')
    <3>0. pte[u] = q /\ cnt[u] = IF q = None THEN 0 ELSE 1 + Cardinality(Mappers(q))
      BY <2>1 DEF KmapMapped, CountsMatch
    <3>1. CASE q = p
      <4>1. u = s
        BY <3>0, <3>1, <1>1 DEF CountsMatch
      <4>2. cnt'[u] = cnt[u] + 1
        BY <4>1, <1>1 DEF KmapMapped, TypeOK
      <4>3. Cardinality(Mappers(p)') = Cardinality(Mappers(p)) + 1
        BY <1>2, OneMore
      <4>4. Cardinality(Mappers(p)) \in Nat
        BY MappersFinite
      <4> QED
        BY <3>0, <3>1, <4>2, <4>3, <4>4, <1>1
    <3>2. CASE q # p
      <4>1. u # s
        BY <3>0, <3>2, <1>1
      <4>2. cnt'[u] = cnt[u]
        BY <4>1 DEF KmapMapped, TypeOK
      <4>3. Mappers(q)' = Mappers(q)
        BY <1>2, <3>2, OneMore
      <4> QED
        BY <3>0, <4>2, <4>3
    <3> QED
      BY <3>1, <3>2
  <2>2. \A u \in Slots, q \in Pages : pte'[u] = q <=> addr'[q] = u
    BY DEF KmapMapped, CountsMatch
  <2> QED
    BY <2>1, <2>2, CountsMatchNext
<1>6. NoLostWakeup'
  BY <1>1, <1>2 DEF NoLostWakeup, KmapMapped, Given, Goto, TypeOK, Wants
<1> QED
  BY <1>3, <1>4, <1>5, <1>6

\* Counts c, a page table m and a hash table a that agree about the users of pages.
Agree(c, m, a) ==
    /\ c \in [Slots -> Nat]
    /\ m \in [Slots -> Pages \cup {None}]
    /\ a \in [Pages -> Slots \cup {None}]
    /\ \A u \in Slots, q \in Pages : m[u] = q <=> a[q] = u
    /\ \A u \in Slots : c[u] = IF m[u] = None THEN 0 ELSE 1 + Cardinality(Mappers(m[u]))

\* What a page that gets a slot of its own does to the counts: c, m and a are what
\* the search for a slot left, with or without a flush.
LEMMA NewMapping ==
    ASSUME TypeOK, Placed, CountsMatch, NEW t \in Tasks, NEW p \in Pages, NEW s \in Slots,
           NEW c, NEW m, NEW a, Agree(c, m, a),
           addr[p] = None, a[p] = None, c[s] = 0,
           cnt' = [c EXCEPT ![s] = 2], pte' = [m EXCEPT ![s] = p],
           addr' = [a EXCEPT ![p] = s],
           Wants(t, p), Given(t, p, s)
    PROVE  CountsMatch'
<1> USE DEF Agree
<1>1. m[s] = None
  <2>1. Cardinality(Mappers(m[s])) \in Nat
    BY MappersFinite
  <2> QED
    BY <2>1
<1>2. \A u \in Slots, q \in Pages : pte'[u] = q <=> addr'[q] = u
  BY <1>1, KmapAssumption
<1>3. ASSUME NEW u \in Slots, NEW q, pte'[u] = q
      PROVE  cnt'[u] = IF q = None THEN 0 ELSE 1 + Cardinality(Mappers(q)')
  <2>1. CASE u = s
    <3>1. q = p /\ q # None /\ cnt'[u] = 2
      BY <1>3, <2>1, KmapAssumption
    <3>2. Mappers(p) = {}
      BY UnusedSlot
    <3>3. Cardinality(Mappers(p)) = 0
      BY <3>2, FS_EmptySet
    <3>4. Cardinality(Mappers(p)') = 1
      BY <3>3, OneMore
    <3> QED
      BY <3>1, <3>4
  <2>2. CASE u # s
    <3>1. m[u] = q /\ cnt'[u] = c[u]
      BY <1>3, <2>2
    <3>2. q # p
      BY <3>1, KmapAssumption
    <3>3. Mappers(q)' = Mappers(q)
      BY <3>2, OneMore
    <3> QED
      BY <3>1, <3>3
  <2> QED
    BY <2>1, <2>2
<1> QED
  BY <1>2, <1>3, CountsMatchNext

LEMMA NewStep ==
    ASSUME IInv, NEW t \in Tasks, NEW p \in Pages, NEW s \in Slots, KmapNew(t, p, s)
    PROVE  IInv'
<1> USE DEF IInv
<1>1. Wants(t, p) /\ Given(t, p, s) /\ addr[p] = None /\ cnt[s] = 0
  BY DEF KmapNew, FirstFree
<1>2. pte[s] = None
  <2>1. Cardinality(Mappers(pte[s])) \in Nat
    BY MappersFinite
  <2> QED
    BY <1>1, <2>1 DEF CountsMatch
<1>3. TypeOK'
  BY DEF TypeOK, KmapNew, Given, Goto
<1>4. Placed'
  <2>1. \A u \in Tasks : u # t /\ pc[u] = "mapped" => page[u] # p
    BY <1>1, UsedSlot, KmapAssumption
  <2> QED
    BY <1>1, <2>1 DEF TypeOK, KmapNew, Given, Goto, Placed, Wants
<1>6. CountsMatch'
  <2>1. Agree(cnt, pte, addr)
    BY DEF Agree, TypeOK, CountsMatch
  <2>2. /\ cnt' = [cnt EXCEPT ![s] = 2]
        /\ pte' = [pte EXCEPT ![s] = p]
        /\ addr' = [addr EXCEPT ![p] = s]
    BY DEF KmapNew
  <2>3. TypeOK /\ Placed /\ CountsMatch
    OBVIOUS
  <2> HIDE DEF IInv
  <2> QED
    BY <1>1, <2>1, <2>2, <2>3, NewMapping
<1>7. NoLostWakeup'
  BY <1>1 DEF NoLostWakeup, KmapNew, Given, Goto, TypeOK, Wants
<1> QED
  BY <1>3, <1>4, <1>6, <1>7

LEMMA FlushStep ==
    ASSUME IInv, NEW t \in Tasks, NEW p \in Pages, NEW s \in Slots, KmapFlush(t, p, s)
    PROVE  IInv'
<1> USE DEF IInv
<1>1. Wants(t, p) /\ Given(t, p, s) /\ addr[p] = None /\ FlushedAddr[p] = None /\ FlushedCnt[s] = 0
  BY DEF KmapFlush, FirstFree, FlushedAddr
<1>2. /\ FlushedCnt \in [Slots -> Nat]
      /\ FlushedPte \in [Slots -> Pages \cup {None}]
      /\ FlushedAddr \in [Pages -> Slots \cup {None}]
  BY DEF TypeOK, FlushedCnt, FlushedPte, FlushedAddr
<1>3. \A u \in Slots, q \in Pages : FlushedPte[u] = q <=> FlushedAddr[q] = u
  BY KmapAssumption DEF FlushedPte, FlushedAddr, CountsMatch, TypeOK
<1>4. \A u \in Slots : FlushedCnt[u] =
        IF FlushedPte[u] = None THEN 0 ELSE 1 + Cardinality(Mappers(FlushedPte[u]))
  <2> TAKE u \in Slots
  <2>1. CASE cnt[u] = 1
    BY <2>1 DEF FlushedCnt, FlushedPte
  <2>2. CASE cnt[u] # 1
    BY <2>2 DEF FlushedCnt, FlushedPte, CountsMatch
  <2> QED
    BY <2>1, <2>2
<1>5. TypeOK'
  BY <1>2 DEF TypeOK, KmapFlush, Given, Goto
<1>6. Placed'
  <2>1. \A u \in Tasks : u # t /\ pc[u] = "mapped" =>
          page[u] \in Pages /\ page[u] # p /\ FlushedAddr[page[u]] = addr[page[u]]
    BY <1>1, UsedSlot, KmapAssumption DEF FlushedAddr
  <2> QED
    BY <1>1, <1>2, <2>1 DEF TypeOK, KmapFlush, Given, Goto, Placed, Wants
<1>8. CountsMatch'
  <2>1. /\ cnt' = [FlushedCnt EXCEPT ![s] = 2]
        /\ pte' = [FlushedPte EXCEPT ![s] = p]
        /\ addr' = [FlushedAddr EXCEPT ![p] = s]
    BY DEF KmapFlush
  <2>2. Agree(FlushedCnt, FlushedPte, FlushedAddr)
    BY <1>2, <1>3, <1>4 DEF Agree
  <2>3. TypeOK /\ Placed /\ CountsMatch
    OBVIOUS
  <2> HIDE DEF IInv
  <2> QED
    BY <1>1, <2>1, <2>2, <2>3, NewMapping
<1>9. NoLostWakeup'
  <2>1. \E u \in Slots : ~(cnt[u] >= 2)
    BY <1>1 DEF FlushedCnt
  <2>2. queue # woken => \E u \in Tasks : pc[u] = "wake"
    BY <2>1 DEF NoLostWakeup
  <2> QED
    BY <1>1, <2>2 DEF NoLostWakeup, KmapFlush, Given, Goto, TypeOK, Wants
<1> QED
  BY <1>5, <1>6, <1>8, <1>9

\* A task that sleeps, that wakes up, or that wakes the others maps nothing.
LEMMA SameMappersBut ==
    ASSUME TypeOK, NEW t \in Tasks, pc[t] # "mapped", pc'[t] # "mapped",
           \A u \in Tasks : u # t => pc'[u] = pc[u] /\ page'[u] = page[u]
    PROVE  \A q : Mappers(q)' = Mappers(q)
BY DEF Mappers

LEMMA SleepStep ==
    ASSUME IInv, NEW t \in Tasks, NEW p \in Pages, KmapSleep(t, p)
    PROVE  IInv'
<1> USE DEF IInv
<1>1. Wants(t, p)
  BY DEF KmapSleep
<1>2. LastPkmap - 1 \in Slots
  BY KmapAssumption DEF Slots
<1>3. TypeOK'
  BY <1>2 DEF TypeOK, KmapSleep, Goto
<1>4. Placed'
  BY <1>1 DEF TypeOK, KmapSleep, Goto, Placed, Wants
<1>5. CountsMatch'
  <2>1. \A q : Mappers(q)' = Mappers(q)
    BY <1>1, SameMappersBut DEF Wants, KmapSleep, Goto, TypeOK
  <2> QED
    BY <2>1, CountsMatchNext DEF CountsMatch, KmapSleep
<1>6. NoLostWakeup'
  <2>1. \A u \in Slots : cnt[u] \in Nat /\ cnt[u] # 0 /\ cnt[u] # 1
    BY DEF KmapSleep, FlushedCnt, TypeOK
  <2>2. \A u \in Slots : cnt[u] >= 2
    BY <2>1
  <2> QED
    BY <2>2 DEF NoLostWakeup, KmapSleep
<1> QED
  BY <1>3, <1>4, <1>5, <1>6

LEMMA AwakeStep ==
    ASSUME IInv, NEW t \in Tasks, Awake(t) PROVE IInv'
<1> USE DEF IInv
<1>1. TypeOK' /\ Placed'
  BY DEF TypeOK, Awake, Goto, Placed
<1>2. CountsMatch'
  <2>1. \A q : Mappers(q)' = Mappers(q)
    BY SameMappersBut DEF Awake, Goto, TypeOK
  <2> QED
    BY <2>1, CountsMatchNext DEF CountsMatch, Awake
<1>3. NoLostWakeup'
  BY DEF NoLostWakeup, Awake, Goto, TypeOK
<1> QED
  BY <1>1, <1>2, <1>3

LEMMA WakeUpStep ==
    ASSUME IInv, NEW t \in Tasks, WakeUp(t) PROVE IInv'
<1> USE DEF IInv
<1>1. TypeOK' /\ Placed'
  BY DEF TypeOK, WakeUp, Goto, Placed
<1>2. CountsMatch'
  <2>1. \A q : Mappers(q)' = Mappers(q)
    BY SameMappersBut DEF WakeUp, Goto, TypeOK
  <2> QED
    BY <2>1, CountsMatchNext DEF CountsMatch, WakeUp
<1>3. woken' = queue'
  BY DEF WakeUp, TypeOK
<1> QED
  BY <1>1, <1>2, <1>3 DEF NoLostWakeup

LEMMA KunmapStep ==
    ASSUME IInv, NEW t \in Tasks, NEW p, p = page[t], Kunmap(t) PROVE IInv'
<1> DEFINE s == addr[p]
<1> USE DEF IInv
<1>1. p \in Pages /\ s \in Slots /\ pte[s] = p /\ cnt[s] >= 2 /\ cnt[s] \in Nat
  BY UsedSlot DEF Kunmap, TypeOK
<1>2. cnt' = [cnt EXCEPT ![s] = @ - 1]
  BY DEF Kunmap
<1>3. cnt'[s] = cnt[s] - 1 /\ cnt'[s] \in Nat /\ \A u \in Slots : u # s => cnt'[u] = cnt[u]
  BY <1>1, <1>2 DEF TypeOK
<1>4. TypeOK'
  <2>1. cnt' \in [Slots -> Nat]
    BY <1>2, <1>3 DEF TypeOK
  <2> QED
    BY <2>1 DEF TypeOK, Kunmap, Goto
<1>5. Placed'
  BY DEF TypeOK, Kunmap, Goto, Placed
<1>6. CountsMatch'
  <2>1. ASSUME NEW u \in Slots, NEW q, pte'[u] = q
        PROVE  cnt'[u] = IF q = None THEN 0 ELSE 1 + Cardinality(Mappers(q)')
    <3>0. pte[u] = q /\ cnt[u] = IF q = None THEN 0 ELSE 1 + Cardinality(Mappers(q))
      BY <2>1 DEF Kunmap, CountsMatch
    <3>1. CASE q = p
      <4>1. u = s
        BY <3>0, <3>1, <1>1 DEF CountsMatch
      <4>2. Cardinality(Mappers(p)') = Cardinality(Mappers(p)) - 1
        BY OneLess
      <4>3. Cardinality(Mappers(p)) \in Nat /\ p # None
        BY MappersFinite, <1>1, KmapAssumption
      <4> QED
        BY <3>0, <3>1, <4>1, <4>2, <4>3, <1>3
    <3>2. CASE q # p
      <4>1. u # s
        BY <3>0, <3>2, <1>1
      <4>2. Mappers(q)' = Mappers(q)
        BY <3>2, OneLess
      <4> QED
        BY <3>0, <4>1, <4>2, <1>3
    <3> QED
      BY <3>1, <3>2
  <2>2. \A u \in Slots, q \in Pages : pte'[u] = q <=> addr'[q] = u
    BY DEF Kunmap, CountsMatch
  <2> QED
    BY <2>1, <2>2, CountsMatchNext
<1>7. NoLostWakeup'
  <2> SUFFICES ASSUME queue' # woken' PROVE NoLostWakeup'
    BY DEF NoLostWakeup
  <2>0. pc[t] = "mapped" /\ queue' = queue /\ woken' = woken
    BY DEF Kunmap
  <2>1. CASE \E u \in Tasks : pc[u] = "wake"
    BY <2>0, <2>1 DEF NoLostWakeup, Kunmap, Goto, TypeOK
  <2>2. CASE \A u \in Slots : cnt[u] >= 2
    <3>1. CASE cnt[s] = 2
      <4>1. queue # {}
        BY <2>0 DEF TypeOK
      <4>2. pc'[t] = "wake"
        BY <4>1, <3>1 DEF Kunmap, Goto, TypeOK
      <4> QED
        BY <4>2 DEF NoLostWakeup
    <3>2. CASE cnt[s] # 2
      <4>1. cnt'[s] >= 2
        BY <1>1, <1>3, <3>2
      <4>2. \A u \in Slots : cnt'[u] >= 2
        BY <4>1, <1>3, <2>2
      <4> QED
        BY <4>2 DEF NoLostWakeup
    <3> QED
      BY <3>1, <3>2
  <2> QED
    BY <2>0, <2>1, <2>2 DEF NoLostWakeup
<1> QED
  BY <1>4, <1>5, <1>6, <1>7

LEMMA StutterStep == ASSUME IInv, UNCHANGED vars PROVE IInv'
<1> USE DEF IInv, vars
<1>1. TypeOK' /\ Placed' /\ NoLostWakeup'
  BY DEF TypeOK, Placed, NoLostWakeup
<1>2. \A q : Mappers(q)' = Mappers(q)
  BY SameMappers
<1>3. CountsMatch'
  BY <1>2, CountsMatchNext DEF CountsMatch
<1> QED
  BY <1>1, <1>3

\* Every step keeps the invariant.
THEOREM IInvHolds == Spec => []IInv
<1>1. IInv /\ [Next]_vars => IInv'
  <2> SUFFICES ASSUME IInv, [Next]_vars PROVE IInv'
    OBVIOUS
  <2>1. ASSUME NEW t \in Tasks, NEW p \in Pages, KmapMapped(t, p) PROVE IInv'
    BY <2>1, MappedStep
  <2>2. ASSUME NEW t \in Tasks, NEW p \in Pages, KmapSleep(t, p) PROVE IInv'
    BY <2>2, SleepStep
  <2>3. ASSUME NEW t \in Tasks, NEW p \in Pages, NEW s \in Slots, KmapNew(t, p, s) PROVE IInv'
    BY <2>3, NewStep
  <2>4. ASSUME NEW t \in Tasks, NEW p \in Pages, NEW s \in Slots, KmapFlush(t, p, s) PROVE IInv'
    BY <2>4, FlushStep
  <2>5. ASSUME NEW t \in Tasks, Awake(t) PROVE IInv'
    BY <2>5, AwakeStep
  <2>6. ASSUME NEW t \in Tasks, Kunmap(t) PROVE IInv'
    BY <2>6, KunmapStep
  <2>7. ASSUME NEW t \in Tasks, WakeUp(t) PROVE IInv'
    BY <2>7, WakeUpStep
  <2>9. CASE UNCHANGED vars
    BY <2>9, StutterStep
  <2> QED
    BY <2>1, <2>2, <2>3, <2>4, <2>5, <2>6, <2>7, <2>9 DEF Next, Kmap
<1> QED
  BY <1>1, BaseInit, PTL DEF Spec

\* The address that kmap_high has returned is the page's own in the hash table and in
\* the page table until the page is unmapped.
THEOREM MappingStays == Spec => []MappingHolds
<1>1. IInv => MappingHolds
  <2> SUFFICES ASSUME IInv, NEW t \in Tasks, pc[t] = "mapped"
               PROVE  /\ vaddr[t] = addr[page[t]]
                      /\ pte[vaddr[t]] = page[t]
    BY DEF MappingHolds
  <2> QED
    BY UsedSlot DEF IInv, Placed
<1> QED
  BY <1>1, IInvHolds, PTL

\* Counts, hash table and page table agree, so that no BUG() is reached.
THEOREM CountsAgree == Spec => []CountsMatch
BY IInvHolds, PTL DEF IInv

\* No task sleeps beside a slot that can be had without its wakeup on the way.
THEOREM WakeupsArrive == Spec => []NoLostWakeup
BY IInvHolds, PTL DEF IInv

\* The type invariant.
THEOREM TypeCorrect == Spec => []TypeOK
BY IInvHolds, PTL DEF IInv
=============================================================================
