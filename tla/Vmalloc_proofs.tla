--------------------------- MODULE Vmalloc_proofs ---------------------------
(****************************************************************************)
(* That areas stay apart and in the range, that reads and writes through    *)
(* the list are exact, and that areas, frames and page tables are accounted *)
(* for, though a vmalloc may fail at any point and others search, map and   *)
(* free meanwhile.                                                          *)
(****************************************************************************)
EXTENDS Vmalloc, SequenceTheorems, WellFoundedInduction, TLAPS

(****************************************************************************)
(* Sequences.                                                               *)
(****************************************************************************)
\* What a sequence's length, its domain and its set of elements are.
LEMMA SeqParts ==
    ASSUME NEW S, NEW s \in Seq(S)
    PROVE  /\ Len(s) \in Nat /\ DOMAIN s = 1..Len(s) /\ s \in [1..Len(s) -> S]
           /\ \A i \in 1..Len(s) : s[i] \in S
           /\ \A x : x \in ToSet(s) <=> \E i \in 1..Len(s) : s[i] = x
           /\ s = <<>> <=> Len(s) = 0
<1>1. Len(s) \in Nat /\ DOMAIN s = 1..Len(s) /\ s \in [1..Len(s) -> S]
  BY LenProperties
<1>2. s = <<>> <=> Len(s) = 0
  BY EmptySeq
<1> QED
  BY <1>1, <1>2 DEF ToSet

\* Where the elements are after an insertion, a removal, a replacement and a push.
LEMMA InsertFacts ==
    ASSUME NEW S, NEW s \in Seq(S), NEW x \in S, NEW k \in Nat, k < Len(s) + 1
    PROVE  /\ InsertAt(s, k + 1, x) \in Seq(S)
           /\ Len(InsertAt(s, k + 1, x)) = Len(s) + 1
           /\ \A i \in 1..(Len(s) + 1) :
                 InsertAt(s, k + 1, x)[i] = IF i <= k THEN s[i] ELSE IF i = k + 1 THEN x ELSE s[i - 1]
<1> DEFINE a == SubSeq(s, 1, k)
           b == SubSeq(s, k + 1, Len(s))
<1>1. Len(s) \in Nat /\ \A i \in 1..Len(s) : s[i] \in S
  BY SeqParts
<1>2. a \in Seq(S) /\ Len(a) = k /\ \A i \in 1..k : a[i] = s[i]
  <2>1. 1 \in Int /\ k \in Int /\ \A i \in 1..k : s[i] \in S
    BY <1>1
  <2>2. /\ a \in Seq(S) /\ Len(a) = IF 1 <= k THEN k - 1 + 1 ELSE 0
        /\ \A i \in 1..(k - 1 + 1) : a[i] = s[1 + i - 1]
    BY <2>1, SubSeqProperties
  <2> HIDE DEF a
  <2> QED
    BY <2>2
<1>3. b \in Seq(S) /\ Len(b) = Len(s) - k /\ \A i \in 1..(Len(s) - k) : b[i] = s[k + i]
  <2>1. k + 1 \in Int /\ Len(s) \in Int /\ \A i \in (k + 1)..Len(s) : s[i] \in S
    BY <1>1
  <2>2. /\ b \in Seq(S) /\ Len(b) = IF k + 1 <= Len(s) THEN Len(s) - (k + 1) + 1 ELSE 0
        /\ \A i \in 1..(Len(s) - (k + 1) + 1) : b[i] = s[k + 1 + i - 1]
    BY <2>1, SubSeqProperties
  <2> HIDE DEF b
  <2> QED
    BY <2>2, <1>1
<1>4. InsertAt(s, k + 1, x) = (a \o <<x>>) \o b
  <2>1. (k + 1) - 1 = k
    OBVIOUS
  <2> QED
    BY <2>1, Zenon DEF InsertAt
<1> HIDE DEF a, b
<1>5. <<x>> \in Seq(S) /\ Len(<<x>>) = 1 /\ <<x>>[1] = x
  OBVIOUS
<1>6. PICK c : c = a \o <<x>>
  OBVIOUS
<1>7. /\ c \in Seq(S) /\ Len(c) = k + 1
      /\ \A i \in 1..(k + 1) : c[i] = IF i <= k THEN a[i] ELSE <<x>>[i - k]
  BY <1>2, <1>5, <1>6, ConcatProperties
<1>8. /\ c \o b \in Seq(S) /\ Len(c \o b) = Len(c) + Len(b)
      /\ \A i \in 1..(Len(c) + Len(b)) : (c \o b)[i] = IF i <= Len(c) THEN c[i] ELSE b[i - Len(c)]
  BY <1>3, <1>7, ConcatProperties
<1>9. PICK r : r = c \o b
  OBVIOUS
<1>10. InsertAt(s, k + 1, x) = r
  BY <1>4, <1>6, <1>9
<1>11. r \in Seq(S) /\ Len(r) = Len(s) + 1
  BY <1>1, <1>3, <1>7, <1>8, <1>9
<1>12. ASSUME NEW i \in 1..(Len(s) + 1)
       PROVE  r[i] = IF i <= k THEN s[i] ELSE IF i = k + 1 THEN x ELSE s[i - 1]
  <2>1. r[i] = IF i <= k + 1 THEN c[i] ELSE b[i - (k + 1)]
    BY <1>1, <1>3, <1>7, <1>8, <1>9
  <2>2. CASE i <= k
    BY <2>1, <2>2, <1>7, <1>2
  <2>3. CASE i = k + 1
    BY <2>1, <2>3, <1>7, <1>5
  <2>4. CASE ~(i <= k + 1)
    <3>1. b[i - (k + 1)] = s[k + (i - (k + 1))]
      BY <2>4, <1>1, <1>3
    <3> QED
      BY <2>1, <2>4, <3>1, <1>1
  <2> QED
    BY <2>2, <2>3, <2>4
<1> QED
  BY <1>10, <1>11, <1>12

LEMMA RemoveFacts ==
    ASSUME NEW S, NEW s \in Seq(S), NEW k \in 1..Len(s)
    PROVE  /\ RemoveAt(s, k) \in Seq(S)
           /\ Len(RemoveAt(s, k)) = Len(s) - 1
           /\ \A i \in 1..(Len(s) - 1) : RemoveAt(s, k)[i] = IF i < k THEN s[i] ELSE s[i + 1]
<1> DEFINE a == SubSeq(s, 1, k - 1)
           b == SubSeq(s, k + 1, Len(s))
<1>1. Len(s) \in Nat /\ \A i \in 1..Len(s) : s[i] \in S
  BY SeqParts
<1>2. a \in Seq(S) /\ Len(a) = k - 1 /\ \A i \in 1..(k - 1) : a[i] = s[i]
  <2>1. 1 \in Int /\ k - 1 \in Int /\ \A i \in 1..(k - 1) : s[i] \in S
    BY <1>1
  <2>2. /\ a \in Seq(S) /\ Len(a) = IF 1 <= k - 1 THEN k - 1 - 1 + 1 ELSE 0
        /\ \A i \in 1..(k - 1 - 1 + 1) : a[i] = s[1 + i - 1]
    BY <2>1, SubSeqProperties
  <2>3. /\ k - 1 - 1 + 1 = k - 1 /\ (1 <= k - 1 \/ k - 1 = 0)
        /\ \A i \in 1..(k - 1) : 1 + i - 1 = i
    BY <1>1
  <2> HIDE DEF a
  <2> QED
    BY <2>2, <2>3
<1>3. b \in Seq(S) /\ Len(b) = Len(s) - k /\ \A i \in 1..(Len(s) - k) : b[i] = s[k + i]
  <2>1. k + 1 \in Int /\ Len(s) \in Int /\ \A i \in (k + 1)..Len(s) : s[i] \in S
    BY <1>1
  <2>2. /\ b \in Seq(S) /\ Len(b) = IF k + 1 <= Len(s) THEN Len(s) - (k + 1) + 1 ELSE 0
        /\ \A i \in 1..(Len(s) - (k + 1) + 1) : b[i] = s[k + 1 + i - 1]
    BY <2>1, SubSeqProperties
  <2> HIDE DEF b
  <2> QED
    BY <2>2, <1>1
<1>4. RemoveAt(s, k) = a \o b
  BY DEF RemoveAt
<1> HIDE DEF a, b
<1>5. PICK r : r = a \o b
  OBVIOUS
<1>6. /\ r \in Seq(S) /\ Len(r) = Len(a) + Len(b)
      /\ \A i \in 1..(Len(a) + Len(b)) : r[i] = IF i <= Len(a) THEN a[i] ELSE b[i - Len(a)]
  BY <1>2, <1>3, <1>5, ConcatProperties
<1>7. ASSUME NEW i \in 1..(Len(s) - 1)
      PROVE  r[i] = IF i < k THEN s[i] ELSE s[i + 1]
  <2>1. r[i] = IF i <= k - 1 THEN a[i] ELSE b[i - (k - 1)]
    BY <1>1, <1>2, <1>3, <1>6
  <2>2. CASE i < k
    BY <2>1, <2>2, <1>2
  <2>3. CASE ~(i < k)
    <3>1. b[i - (k - 1)] = s[k + (i - (k - 1))]
      BY <2>3, <1>1, <1>3
    <3> QED
      BY <2>1, <2>3, <3>1, <1>1
  <2> QED
    BY <2>2, <2>3
<1>8. Len(r) = Len(s) - 1
  BY <1>1, <1>2, <1>3, <1>6
<1> QED
  BY <1>4, <1>5, <1>6, <1>7, <1>8

LEMMA PushFacts ==
    ASSUME NEW S, NEW s \in Seq(S), NEW x \in S
    PROVE  /\ Append(s, x) \in Seq(S)
           /\ Len(Append(s, x)) = Len(s) + 1
           /\ \A i \in 1..(Len(s) + 1) : Append(s, x)[i] = IF i <= Len(s) THEN s[i] ELSE x
OBVIOUS

LEMMA FrontFacts ==
    ASSUME NEW S, NEW s \in Seq(S), s # <<>>
    PROVE  /\ Front(s) \in Seq(S)
           /\ Len(Front(s)) = Len(s) - 1
           /\ \A i \in 1..(Len(s) - 1) : Front(s)[i] = s[i]
<1>1. Len(s) \in Nat /\ Len(s) # 0 /\ \A i \in 1..Len(s) : s[i] \in S
  BY SeqParts
<1>2. PICK m : m = Len(s) - 1
  OBVIOUS
<1>3. m \in Nat /\ 1 \in Int /\ m \in Int /\ \A i \in 1..m : s[i] \in S
  BY <1>1, <1>2
<1>4. PICK r : r = SubSeq(s, 1, m)
  OBVIOUS
<1>5. /\ r \in Seq(S) /\ Len(r) = IF 1 <= m THEN m - 1 + 1 ELSE 0
      /\ \A i \in 1..(m - 1 + 1) : r[i] = s[1 + i - 1]
  BY <1>3, <1>4, SubSeqProperties
<1>6. Len(r) = m /\ \A i \in 1..m : r[i] = s[i]
  BY <1>3, <1>5
<1> QED
  BY <1>2, <1>4, <1>5, <1>6 DEF Front

(****************************************************************************)
(* Loops over the list.                                                     *)
(****************************************************************************)
\* A set of natural numbers that is not empty has a least element.
LEMMA LeastElement ==
    ASSUME NEW S, S \subseteq Nat, S # {}
    PROVE  \E m \in S : \A k \in S : m <= k
<1>1. PICK m \in S : \A k \in S : ~ (<<k, m>> \in OpToRel(<, Nat))
  BY NatLessThanWellFounded, WFMin
<1>2. \A k \in S : ~(k < m)
  BY <1>1, Zenon DEF OpToRel
<1> QED
  BY <1>2

LEMMA LeastOf ==
    ASSUME NEW S, S \subseteq Nat, S # {}
    PROVE  Min(S) \in S /\ \A k \in S : Min(S) <= k
<1>1. PICK m \in S : \A k \in S : m <= k
  BY LeastElement
<1> QED
  BY <1>1 DEF Min

\* Nothing that holds at 0 and of each number after one that it holds of, up to m, fails there.
LEMMA UpTo ==
    ASSUME NEW m \in Nat, NEW G, 0 \in G, \A i \in 1..m : i - 1 \in G => i \in G
    PROVE  \A i \in 0..m : i \in G
<1> DEFINE Bad == (0..m) \ G
<1>1. SUFFICES ASSUME Bad # {} PROVE FALSE
  OBVIOUS
<1>2. Bad \subseteq Nat
  OBVIOUS
<1>3. PICK k \in Bad : \A j \in Bad : k <= j
  <2> HIDE DEF Bad
  <2> QED
    BY <1>1, <1>2, LeastElement
<1>4. k \in 1..m /\ k - 1 \in 0..m /\ ~(k <= k - 1)
  BY <1>3
<1>5. k - 1 \in G
  BY <1>3, <1>4
<1> QED
  BY <1>3, <1>4, <1>5

\* A loop goes on from the state it was in.
Loop(m, S, start, step) == m \in Nat /\ start \in S /\ step \in [1..m -> [S -> S]]
Run(f, m, S, start, step) ==
    f \in [0..m -> S] /\ f[0] = start /\ \A i \in 1..m : f[i] = step[i][f[i - 1]]

LEMMA Recursion ==
    ASSUME NEW m, NEW S, NEW start, NEW step, Loop(m, S, start, step)
    PROVE  \E f : Run(f, m, S, start, step)
<1>0. m \in Nat /\ start \in S /\ step \in [1..m -> [S -> S]]
  BY DEF Loop
<1> DEFINE Runs(k, f) == f[0] = start /\ \A i \in 1..k : f[i] = step[i][f[i - 1]]
           G == {k \in 0..m : \E f \in [0..m -> S] : Runs(k, f)}
<1>1. 0 \in G
  <2>1. [i \in 0..m |-> start] \in [0..m -> S] /\ 0 \in 0..m
    BY <1>0
  <2>2. Runs(0, [i \in 0..m |-> start])
    BY <1>0
  <2> HIDE DEF Runs
  <2> QED
    BY <2>1, <2>2
<1>2. ASSUME NEW k \in 1..m, k - 1 \in G
      PROVE  k \in G
  <2>1. PICK f \in [0..m -> S] : Runs(k - 1, f)
    BY <1>2
  <2>2. PICK g : g = [f EXCEPT ![k] = step[k][f[k - 1]]]
    OBVIOUS
  <2>3. k - 1 \in 0..m /\ k \in 0..m /\ f[k - 1] \in S /\ step[k][f[k - 1]] \in S
    BY <1>0
  <2>4. g \in [0..m -> S]
    BY <2>2, <2>3
  <2>5. \A i \in 0..(k - 1) : g[i] = f[i]
    BY <1>0, <2>2
  <2>6. g[k] = step[k][g[k - 1]]
    BY <2>2, <2>3, <2>5
  <2>7. g[0] = start
    BY <2>1, <2>5
  <2>8. ASSUME NEW i \in 1..k
        PROVE  g[i] = step[i][g[i - 1]]
    <3>1. CASE i = k
      BY <2>6, <3>1
    <3>2. CASE i # k
      <4>1. i \in 1..(k - 1) /\ i \in 0..(k - 1) /\ i - 1 \in 0..(k - 1)
        BY <3>2
      <4>2. f[i] = step[i][f[i - 1]]
        BY <2>1, <4>1
      <4> QED
        BY <4>1, <4>2, <2>5
    <3> QED
      BY <3>1, <3>2
  <2>9. Runs(k, g)
    BY <2>7, <2>8
  <2> HIDE DEF Runs
  <2> QED
    BY <2>3, <2>4, <2>9
<1>3. m \in G
  <2> HIDE DEF G
  <2>1. \A i \in 0..m : i \in G
    BY <1>0, <1>1, <1>2, UpTo
  <2> QED
    BY <1>0, <2>1
<1> QED
  BY <1>3 DEF Run

(****************************************************************************)
(* The search for a place.                                                  *)
(****************************************************************************)
LEMMA AlignUp ==
    ASSUME NEW x \in Nat, NEW al \in Nat \ {0}
    PROVE  Align(x, al) \in Nat /\ Align(x, al) >= x
<1>1. PICK y \in Nat : y = x + al - 1
  OBVIOUS
<1>2. PICK q \in Nat : q = y \div al
  OBVIOUS
<1>3. al * q > y - al
  BY <1>1, <1>2
<1>4. Align(x, al) = q * al
  BY <1>1, <1>2 DEF Align
<1> QED
  BY <1>1, <1>3, <1>4

LEMMA AlignOne ==
    ASSUME NEW x \in Nat
    PROVE  Align(x, 1) = x
  BY DEF Align

\* What VmallocAssumption says of the constants, as the proofs need it.
LEMMA Constants ==
    /\ VmStart \in Nat \ {0} /\ VmEnd \in Nat /\ Top \in Nat /\ VmStart < VmEnd /\ VmEnd <= Top
    /\ Addresses \subseteq Nat \ {0}
    /\ \A x \in Nat : x \in Addresses <=> VmStart <= x /\ x <= Top
    /\ VmStart \in Addresses
    /\ Ptrs \in Nat /\ Ptrs > 1
    /\ \A n \in VmallocSizes \cup VmapSizes : n \in Nat \ {0}
    /\ None \notin Frames /\ None \notin Tasks /\ None \notin Addresses /\ None # Slab /\ None # Lent
    /\ Lent \notin Frames /\ Slab \notin Addresses
BY VmallocAssumption DEF Addresses

LEMMA AlignType ==
    ASSUME NEW n \in Nat, NEW io \in BOOLEAN
    PROVE  AlignOf(n, io) \in Nat \ {0} /\ (~io => AlignOf(n, io) = 1)
<1>1. CASE ~io
  BY <1>1 DEF AlignOf
<1>2. CASE io
  <2> DEFINE S == {a \in Aligns : a > n \/ \A b \in Aligns : b <= a}
  <2>1. S \subseteq Nat \ {0} /\ S \subseteq Nat /\ S # {}
    BY VmallocAssumption
  <2>2. PICK m \in S : \A k \in S : m <= k
    <3> HIDE DEF S
    <3> QED
      BY <2>1, LeastElement
  <2>3. Min(S) \in S
    <3> HIDE DEF S
    <3> QED
      BY <2>2 DEF Min
  <2>4. AlignOf(n, io) = Min(S)
    BY <1>2 DEF AlignOf
  <2> QED
    BY <1>2, <2>1, <2>3, <2>4
<1> QED
  BY <1>1, <1>2

LookState == [addr : Nat, before : Nat, done : {"no", "found", "out"}]

LEMMA AreaNumbers ==
    ASSUME NEW a \in AreaType
    PROVE  a.addr \in Nat /\ a.n \in Nat /\ Limit(a) \in Nat /\ Limit(a) = a.addr + a.n + 1
<1>1. a.addr \in Addresses \cup {0} /\ a.n \in Nat
  BY DEF AreaType
<1>2. a.addr \in Nat
  <2>1. \A x \in Addresses \cup {0} : x \in Nat
    BY Constants
  <2> QED
    BY <1>1, <2>1
<1> QED
  BY <1>1, <1>2 DEF Limit

LEMMA LookType ==
    ASSUME NEW s \in LookState, NEW a \in AreaType, NEW n \in Nat, NEW al \in Nat \ {0}
    PROVE  Look(s, a, n, al) \in LookState
<1>1. Align(Limit(a), al) \in Nat
  BY AreaNumbers, AlignUp
<1>2. s.addr \in Nat /\ s.before \in Nat /\ s.done \in {"no", "found", "out"}
      /\ s = [addr |-> s.addr, before |-> s.before, done |-> s.done]
  BY DEF LookState
<1>3. PICK k \in Nat : k = s.before + 1
  BY <1>2
<1>4. PICK b \in Nat : b = Align(Limit(a), al)
  BY <1>1
<1>5. \/ Look(s, a, n, al) = s
      \/ \E x \in {s.addr, b} : Look(s, a, n, al) = [addr |-> x, before |-> k, done |-> s.done]
      \/ Look(s, a, n, al) = [addr |-> s.addr, before |-> s.before, done |-> "found"]
      \/ \E d \in {"out", "no"} : Look(s, a, n, al) = [addr |-> b, before |-> k, done |-> d]
  BY <1>2, <1>3, <1>4 DEF Look
<1> QED
  BY <1>2, <1>3, <1>4, <1>5 DEF LookState

\* The search is the last state of a loop over the list.
LEMMA SearchRuns ==
    ASSUME vmlist \in Seq(AreaType), NEW n \in Nat, NEW io \in BOOLEAN, NEW al, al = AlignOf(n, io)
    PROVE  \E f \in [0..Len(vmlist) -> LookState] :
              /\ f[0] = [addr |-> Align(VmStart, al), before |-> 0, done |-> "no"]
              /\ \A i \in 1..Len(vmlist) : f[i] = Look(f[i - 1], vmlist[i], n, al)
              /\ Search(n, io) = f[Len(vmlist)]
<1> DEFINE start == [addr |-> Align(VmStart, al), before |-> 0, done |-> "no"]
           Coming(f) == f = [i \in 0..Len(vmlist) |->
                               IF i = 0 THEN [addr |-> Align(VmStart, al), before |-> 0, done |-> "no"]
                               ELSE Look(f[i - 1], vmlist[i], n, al)]
<1>1. Len(vmlist) \in Nat /\ \A i \in 1..Len(vmlist) : vmlist[i] \in AreaType
  BY SeqParts
<1>2. al \in Nat \ {0}
  BY AlignType
<1>3. start \in LookState
  BY <1>2, AlignUp, Constants DEF LookState
<1>4. PICK step : step = [i \in 1..Len(vmlist) |-> [s \in LookState |-> Look(s, vmlist[i], n, al)]]
  OBVIOUS
<1>5. step \in [1..Len(vmlist) -> [LookState -> LookState]]
  BY <1>1, <1>2, <1>4, LookType
<1>6. PICK f \in [0..Len(vmlist) -> LookState] :
           f[0] = start /\ \A i \in 1..Len(vmlist) : f[i] = step[i][f[i - 1]]
  <2> HIDE DEF start
  <2>1. Loop(Len(vmlist), LookState, start, step)
    BY <1>1, <1>3, <1>5 DEF Loop
  <2>2. PICK f : Run(f, Len(vmlist), LookState, start, step)
    BY <2>1, Recursion
  <2> QED
    BY <2>2 DEF Run
<1>7. \A i \in 1..Len(vmlist) : f[i] = Look(f[i - 1], vmlist[i], n, al)
  <2> TAKE i \in 1..Len(vmlist)
  <2>1. i - 1 \in 0..Len(vmlist)
    BY <1>1
  <2> QED
    BY <1>4, <1>6, <2>1
<1>8. Coming(f)
  <2>1. \A i \in 0..Len(vmlist) : i # 0 => i \in 1..Len(vmlist)
    BY <1>1
  <2>2. \A i \in 0..Len(vmlist) : f[i] = IF i = 0 THEN start ELSE Look(f[i - 1], vmlist[i], n, al)
    BY <1>6, <1>7, <2>1
  <2> QED
    BY <2>2
<1> DEFINE g == CHOOSE h : Coming(h)
<1>9. Coming(g)
  <2> HIDE DEF Coming
  <2> QED
    BY <1>8
<1>10. Search(n, io) = g[Len(vmlist)]
  BY DEF Search
<1> HIDE DEF g
<1>11. g = f
  <2>0. \A i \in 0..Len(vmlist) : g[i] = IF i = 0 THEN start ELSE Look(g[i - 1], vmlist[i], n, al)
    BY <1>9
  <2>1. \A i \in 1..Len(vmlist) : g[i] = Look(g[i - 1], vmlist[i], n, al)
    <3> TAKE i \in 1..Len(vmlist)
    <3>1. i \in 0..Len(vmlist) /\ i # 0
      BY <1>1
    <3> HIDE DEF start
    <3> QED
      BY <2>0, <3>1
  <2>2. g[0] = f[0]
    <3>1. 0 \in 0..Len(vmlist)
      BY <1>1
    <3> HIDE DEF start
    <3> QED
      BY <2>0, <3>1, <1>6
  <2> DEFINE G == {i \in 0..Len(vmlist) : g[i] = f[i]}
  <2>3. 0 \in G
    BY <1>1, <2>2
  <2>4. ASSUME NEW i \in 1..Len(vmlist), i - 1 \in G
        PROVE  i \in G
    BY <1>1, <1>7, <2>1, <2>4
  <2>5. \A i \in 0..Len(vmlist) : i \in G
    <3> HIDE DEF G
    <3> QED
      BY <1>1, <2>3, <2>4, UpTo
  <2>6. g = [i \in 0..Len(vmlist) |-> g[i]]
    BY <1>9
  <2> QED
    BY <2>5, <2>6
<1> QED
  BY <1>6, <1>7, <1>10, <1>11

\* The areas in their order, apart.
Ordered == \A i, j \in 1..Len(vmlist) : i < j => Limit(vmlist[i]) <= vmlist[j].addr

Ranged ==
    \A a \in Listed : /\ a.addr \in Addresses /\ a.n \in Nat \ {0} /\ a.addr + a.n <= Top
                      /\ ~strained => Limit(a) <= VmEnd

\* Where the search is after i areas: behind all of them, or before the next one with room.
CameTo(i, s, n) ==
    /\ s.addr >= VmStart
    /\ s.done = "no" => s.before = i /\ \A j \in 1..i : Limit(vmlist[j]) <= s.addr
    /\ s.done = "found" =>
         /\ s.before < i /\ s.addr + n + 1 <= vmlist[s.before + 1].addr
         /\ \A j \in 1..s.before : Limit(vmlist[j]) <= s.addr

LEMMA LookComes ==
    ASSUME NEW i \in 1..Len(vmlist), vmlist \in Seq(AreaType), NEW s \in LookState,
           NEW n \in Nat, NEW al \in Nat \ {0}, CameTo(i - 1, s, n)
    PROVE  CameTo(i, Look(s, vmlist[i], n, al), n)
<1>1. Len(vmlist) \in Nat /\ \A j \in 1..Len(vmlist) : vmlist[j] \in AreaType /\ Limit(vmlist[j]) \in Nat
  BY SeqParts, AreaNumbers
<1>2. PICK a \in AreaType : a = vmlist[i]
  BY <1>1
<1>3. PICK b \in Nat : b = Align(Limit(a), al) /\ b >= Limit(a)
  BY AlignUp, AreaNumbers
<1>4. PICK k \in Nat : k = s.before + 1
  BY DEF LookState
<1>5. s.addr \in Nat /\ s.before \in Nat /\ a.addr \in Nat /\ a.n \in Nat /\ Limit(a) \in Nat
      /\ Limit(a) > a.addr /\ VmStart \in Nat
      /\ s = [addr |-> s.addr, before |-> s.before, done |-> s.done]
  BY AreaNumbers, Constants DEF LookState
<1>6. /\ s.addr >= VmStart
      /\ s.done = "no" => s.before = i - 1 /\ \A j \in 1..(i - 1) : Limit(vmlist[j]) <= s.addr
      /\ s.done = "found" =>
           /\ s.before < i - 1 /\ s.addr + n + 1 <= vmlist[s.before + 1].addr
           /\ \A j \in 1..s.before : Limit(vmlist[j]) <= s.addr
  BY DEF CameTo
<1>7. CASE s.done # "no"
  <2>1. Look(s, a, n, al) = s
    BY <1>7 DEF Look
  <2> QED
    BY <1>1, <1>2, <1>5, <1>6, <1>7, <2>1 DEF CameTo
<1>8. ASSUME s.done = "no", NEW x \in Nat, NEW d \in {"no", "out"}, x >= s.addr, x >= Limit(a),
             Look(s, a, n, al) = [addr |-> x, before |-> k, done |-> d]
      PROVE  CameTo(i, Look(s, a, n, al), n)
  <2>1. \A j \in 1..i : Limit(vmlist[j]) <= x
    <3> TAKE j \in 1..i
    <3>1. CASE j = i
      BY <3>1, <1>2, <1>8
    <3>2. CASE j # i
      <4>1. j \in 1..(i - 1) /\ j \in 1..Len(vmlist)
        BY <1>1, <3>2
      <4>2. Limit(vmlist[j]) <= s.addr /\ Limit(vmlist[j]) \in Nat
        BY <1>1, <1>6, <1>8, <4>1
      <4> QED
        BY <1>5, <1>8, <4>2
    <3> QED
      BY <3>1, <3>2
  <2>2. k = i /\ x >= VmStart
    BY <1>1, <1>4, <1>5, <1>6, <1>8
  <2> QED
    BY <1>8, <2>1, <2>2 DEF CameTo
<1>9. CASE s.done = "no"
  <2>1. CASE a.addr < s.addr
    <3>1. PICK x \in Nat : x = IF Limit(a) >= s.addr THEN b ELSE s.addr
      BY <1>3, <1>5
    <3>2. Look(s, a, n, al) = [addr |-> x, before |-> k, done |-> "no"]
      BY <1>3, <1>4, <1>5, <1>9, <2>1, <3>1 DEF Look
    <3>3. x >= s.addr /\ x >= Limit(a)
      BY <1>3, <1>5, <3>1
    <3>4. CameTo(i, Look(s, a, n, al), n)
      BY <1>8, <1>9, <3>2, <3>3
    <3> QED
      BY <1>2, <3>4
  <2>2. CASE ~(a.addr < s.addr) /\ s.addr + n + 1 <= a.addr
    <3>1. Look(s, a, n, al) = [addr |-> s.addr, before |-> s.before, done |-> "found"]
      BY <1>5, <1>9, <2>2 DEF Look
    <3>2. s.before + 1 = i /\ s.before < i /\ s.before = i - 1
      BY <1>1, <1>6, <1>9
    <3> QED
      BY <1>2, <1>6, <1>9, <2>2, <3>1, <3>2 DEF CameTo
  <2>3. CASE ~(a.addr < s.addr) /\ ~(s.addr + n + 1 <= a.addr)
    <3>1. PICK d \in {"no", "out"} : Look(s, a, n, al) = [addr |-> b, before |-> k, done |-> d]
      BY <1>3, <1>4, <1>9, <2>3 DEF Look
    <3>2. b >= s.addr /\ b >= Limit(a)
      BY <1>3, <1>5, <2>3
    <3>3. CameTo(i, Look(s, a, n, al), n)
      BY <1>8, <1>9, <3>1, <3>2
    <3> QED
      BY <1>2, <3>3
  <2> QED
    BY <2>1, <2>2, <2>3
<1> QED
  BY <1>2, <1>7, <1>9

\* Without an alignment the search stays at the end of the area it has passed, and there is
\* room for what is asked before the end of the range.
Fitting(i, s, n) ==
    s.done = "no" =>
        /\ s.addr + n + 1 <= VmEnd
        /\ IF i = 0 THEN s.addr = VmStart ELSE s.addr = Limit(vmlist[i])

LEMMA LookFits ==
    ASSUME NEW i \in 1..Len(vmlist), vmlist \in Seq(AreaType), Ordered, Ranged, NEW s \in LookState,
           NEW n \in Nat, Fitting(i - 1, s, n)
    PROVE  Fitting(i, Look(s, vmlist[i], n, 1), n)
<1>1. Len(vmlist) \in Nat /\ \A j \in 1..Len(vmlist) : vmlist[j] \in AreaType /\ Limit(vmlist[j]) \in Nat
  BY SeqParts, AreaNumbers
<1>2. PICK a \in AreaType : a = vmlist[i]
  BY <1>1
<1>3. a \in Listed
  BY <1>2, SeqParts DEF Listed
<1>4. s.addr \in Nat /\ s.before \in Nat /\ a.addr \in Nat /\ a.n \in Nat /\ Limit(a) \in Nat
      /\ a.addr >= VmStart /\ VmEnd \in Nat /\ i \in Nat /\ i > 0
  BY <1>3, AreaNumbers, Constants DEF LookState, Ranged
<1>5. Align(Limit(a), 1) = Limit(a)
  BY <1>4, AlignOne
<1>6. CASE s.done # "no"
  BY <1>6 DEF Look, Fitting
<1>7. CASE s.done = "no"
  <2>1. ~(a.addr < s.addr)
    <3>1. CASE i = 1
      BY <3>1, <1>4, <1>7, Constants DEF Fitting
    <3>2. CASE i # 1
      <4>1. i - 1 \in 1..Len(vmlist) /\ i - 1 < i /\ i - 1 # 0
        BY <1>1, <3>2
      <4>2. Limit(vmlist[i - 1]) <= a.addr /\ Limit(vmlist[i - 1]) \in Nat
        BY <1>1, <1>2, <4>1 DEF Ordered
      <4>3. s.addr = Limit(vmlist[i - 1])
        BY <1>7, <4>1 DEF Fitting
      <4> QED
        BY <1>4, <4>2, <4>3
    <3> QED
      BY <3>1, <3>2
  <2>2. CASE s.addr + n + 1 <= a.addr
    BY <1>2, <1>7, <2>1, <2>2 DEF Look, Fitting, LookState
  <2>3. CASE ~(s.addr + n + 1 <= a.addr)
    <3>1. Look(s, a, n, 1) = [addr |-> Limit(a), before |-> s.before + 1,
                              done |-> IF Limit(a) > VmEnd - (n + 1) THEN "out" ELSE "no"]
      BY <1>5, <1>7, <2>1, <2>3 DEF Look
    <3> QED
      BY <1>2, <1>4, <3>1 DEF Fitting
  <2> QED
    BY <2>2, <2>3
<1> QED
  BY <1>2, <1>6, <1>7

\* The place that a search has found is behind the areas before it and in front of those
\* behind it, and in the range if no alignment is asked for.
LEMMA SearchFinds ==
    ASSUME vmlist \in Seq(AreaType), Ordered, Ranged, NEW n \in Nat \ {0}, NEW io \in BOOLEAN,
           NEW s, s = Search(n, io), s.done # "out"
    PROVE  /\ s.addr \in Nat /\ s.addr >= VmStart /\ s.before \in Nat /\ s.before < Len(vmlist) + 1
           /\ \A j \in 1..Len(vmlist) : IF j <= s.before THEN Limit(vmlist[j]) <= s.addr
                                        ELSE s.addr + n + 1 <= vmlist[j].addr
           /\ ~io /\ ~strained /\ ~TooLarge(n) => s.addr + n + 1 <= VmEnd
<1>1. PICK m \in Nat : m = Len(vmlist)
  BY SeqParts
<1>2. \A j \in 1..m : vmlist[j] \in AreaType /\ Limit(vmlist[j]) \in Nat /\ vmlist[j].addr \in Nat
                      /\ vmlist[j] \in Listed /\ Limit(vmlist[j]) > vmlist[j].addr
  BY <1>1, SeqParts, AreaNumbers DEF Listed
<1>3. PICK al \in Nat \ {0} : al = AlignOf(n, io) /\ (~io => al = 1)
  BY AlignType
<1>4. PICK f \in [0..m -> LookState] :
          /\ f[0] = [addr |-> Align(VmStart, al), before |-> 0, done |-> "no"]
          /\ \A i \in 1..m : f[i] = Look(f[i - 1], vmlist[i], n, al)
          /\ s = f[m]
  BY <1>1, <1>3, SearchRuns
<1>5. Align(VmStart, al) \in Nat /\ Align(VmStart, al) >= VmStart
  BY AlignUp, Constants
<1>6. s \in LookState /\ s.addr \in Nat /\ s.before \in Nat
  BY <1>4 DEF LookState
<1>7. CameTo(m, s, n)
  <2> DEFINE G == {i \in 0..m : CameTo(i, f[i], n)}
  <2>1. 0 \in G
    BY <1>4, <1>5 DEF CameTo
  <2>2. ASSUME NEW i \in 1..m, i - 1 \in G
        PROVE  i \in G
    <3>1. f[i - 1] \in LookState /\ i \in 0..m
      BY <2>2
    <3> QED
      BY <1>1, <1>4, <2>2, <3>1, LookComes
  <2>3. m \in G
    <3> HIDE DEF G
    <3>1. \A i \in 0..m : i \in G
      BY <2>1, <2>2, UpTo
    <3> QED
      BY <3>1
  <2> QED
    BY <1>4, <2>3
<1>8. /\ s.before < m + 1
      /\ \A j \in 1..m : j <= s.before => Limit(vmlist[j]) <= s.addr
      /\ s.before < m => s.addr + n + 1 <= vmlist[s.before + 1].addr
  <2>1. s.done = "no" \/ s.done = "found"
    BY <1>6 DEF LookState
  <2> QED
    BY <1>6, <1>7, <2>1 DEF CameTo
<1>9. ASSUME NEW j \in 1..m, ~(j <= s.before)
      PROVE  s.addr + n + 1 <= vmlist[j].addr
  <2>1. PICK k \in 1..m : k = s.before + 1
    BY <1>6, <1>9
  <2>2. s.addr + n + 1 <= vmlist[k].addr
    BY <1>6, <1>8, <2>1
  <2>3. CASE j = k
    BY <2>2, <2>3
  <2>4. CASE j # k
    <3>1. k < j
      BY <1>6, <1>9, <2>1, <2>4
    <3>2. Limit(vmlist[k]) <= vmlist[j].addr
      BY <1>1, <3>1 DEF Ordered
    <3>3. PICK x \in Nat : x = vmlist[k].addr
      BY <1>2
    <3>4. PICK y \in Nat : y = vmlist[j].addr
      BY <1>2
    <3>5. x <= y
      BY <1>2, <3>2, <3>3, <3>4
    <3> QED
      BY <1>6, <2>2, <3>3, <3>4, <3>5
  <2> QED
    BY <2>3, <2>4
<1>10. ASSUME ~io, ~strained, ~TooLarge(n)
       PROVE  s.addr + n + 1 <= VmEnd
  <2> DEFINE G == {i \in 0..m : Fitting(i, f[i], n)}
  <2>1. al = 1 /\ Align(VmStart, al) = VmStart
    BY <1>3, <1>10, AlignOne, Constants
  <2>2. 0 \in G
    BY <1>4, <1>10, <2>1, Constants DEF Fitting, TooLarge
  <2>3. ASSUME NEW i \in 1..m, i - 1 \in G
        PROVE  i \in G
    <3>1. f[i - 1] \in LookState /\ i \in 0..m
      BY <2>3
    <3> QED
      BY <1>1, <1>4, <2>1, <2>3, <3>1, LookFits
  <2>4. m \in G
    <3> HIDE DEF G
    <3>1. \A i \in 0..m : i \in G
      BY <2>2, <2>3, UpTo
    <3> QED
      BY <3>1
  <2>5. Fitting(m, s, n)
    BY <1>4, <2>4
  <2>6. CASE s.done = "no"
    BY <2>5, <2>6 DEF Fitting
  <2>7. CASE s.done # "no"
    <3>1. s.before < m /\ s.done = "found"
      BY <1>6, <1>7, <2>7 DEF CameTo, LookState
    <3>2. PICK k \in 1..m : k = s.before + 1
      BY <1>6, <3>1
    <3>3. s.addr + n + 1 <= vmlist[k].addr
      BY <1>8, <3>1, <3>2
    <3>4. PICK x \in Nat : x = vmlist[k].addr
      BY <1>2
    <3>5. x <= VmEnd
      BY <1>2, <1>10, <3>4, Constants DEF Ranged
    <3>6. s.addr + n + 1 <= x /\ VmEnd \in Nat /\ s.addr \in Nat
      BY <1>6, <3>3, <3>4, Constants
    <3> QED
      BY <3>5, <3>6
  <2> QED
    BY <2>6, <2>7
<1> QED
  BY <1>1, <1>6, <1>7, <1>8, <1>9, <1>10 DEF CameTo

(****************************************************************************)
(* The list.                                                                *)
(****************************************************************************)
\* The list is in order, so that addresses tell areas apart.
Linked == vmlist \in Seq(AreaType) /\ Ordered /\ Ranged

LEMMA Areas ==
    ASSUME Linked
    PROVE  /\ Listed \subseteq AreaType
           /\ \A a \in Listed : /\ Place(a.addr) \in 1..Len(vmlist) /\ vmlist[Place(a.addr)] = a
                                /\ AreaAt(a.addr) = a
           /\ \A a, b \in Listed : a.addr = b.addr => a = b
           /\ \A a, b \in Listed : a = b \/ Limit(a) <= b.addr \/ Limit(b) <= a.addr
<1>1. /\ Len(vmlist) \in Nat /\ DOMAIN vmlist = 1..Len(vmlist)
      /\ \A i \in 1..Len(vmlist) : vmlist[i] \in AreaType /\ vmlist[i] \in Listed
      /\ \A a \in Listed : \E i \in 1..Len(vmlist) : vmlist[i] = a
  BY SeqParts DEF Linked, Listed
<1>2. \A i \in 1..Len(vmlist) : /\ vmlist[i].addr \in Nat /\ Limit(vmlist[i]) \in Nat
                                /\ Limit(vmlist[i]) > vmlist[i].addr
  BY <1>1, AreaNumbers
<1>3. \A i, j \in 1..Len(vmlist) : i < j => Limit(vmlist[i]) <= vmlist[j].addr
  BY DEF Linked, Ordered
<1>4. \A i, j \in 1..Len(vmlist) : i < j => vmlist[i].addr # vmlist[j].addr
  <2> TAKE i, j \in 1..Len(vmlist)
  <2> HAVE i < j
  <2>1. PICK x \in Nat : x = vmlist[i].addr
    BY <1>2
  <2>2. PICK y \in Nat : y = vmlist[j].addr
    BY <1>2
  <2>3. PICK z \in Nat : z = Limit(vmlist[i])
    BY <1>2
  <2>4. x < z /\ z <= y
    BY <1>2, <1>3, <2>1, <2>2, <2>3
  <2> QED
    BY <2>1, <2>2, <2>4
<1>5. \A i, j \in 1..Len(vmlist) : vmlist[i].addr = vmlist[j].addr => i = j
  <2> TAKE i, j \in 1..Len(vmlist)
  <2> HAVE vmlist[i].addr = vmlist[j].addr
  <2>1. i < j \/ i = j \/ j < i
    OBVIOUS
  <2> QED
    BY <1>4, <2>1
<1>6. \A a, b \in Listed : a.addr = b.addr => a = b
  BY <1>1, <1>5
<1>7. ASSUME NEW a \in Listed
      PROVE  /\ Place(a.addr) \in 1..Len(vmlist) /\ vmlist[Place(a.addr)] = a
             /\ AreaAt(a.addr) = a
  <2>1. PICK i \in 1..Len(vmlist) : vmlist[i] = a
    BY <1>1
  <2>2. PICK q : q = Place(a.addr)
    OBVIOUS
  <2>3. q \in 1..Len(vmlist) /\ vmlist[q].addr = a.addr
    BY <1>1, <2>1, <2>2 DEF Place
  <2>4. vmlist[q] = a
    BY <1>5, <2>1, <2>3
  <2> QED
    BY <2>2, <2>3, <2>4 DEF AreaAt
<1>8. \A a, b \in Listed : a = b \/ Limit(a) <= b.addr \/ Limit(b) <= a.addr
  <2> TAKE a, b \in Listed
  <2>1. PICK i \in 1..Len(vmlist) : vmlist[i] = a
    BY <1>1
  <2>2. PICK j \in 1..Len(vmlist) : vmlist[j] = b
    BY <1>1
  <2>3. i < j \/ i = j \/ j < i
    OBVIOUS
  <2> QED
    BY <1>3, <2>1, <2>2, <2>3
<1> QED
  BY <1>1, <1>6, <1>7, <1>8

LEMMA AreaFacts ==
    ASSUME Linked, NEW a \in Listed
    PROVE  /\ a \in AreaType /\ a.addr \in Addresses /\ a.addr \in Nat /\ a.n \in Nat \ {0}
           /\ a.addr + a.n <= Top /\ Limit(a) = a.addr + a.n + 1
           /\ Len(a.frames) \in Nat /\ a.frames \in Seq(Frames \cup {Lent, None})
           /\ a.array \in Addresses \cup {Slab, None} /\ a.nr \in Nat
           /\ \A p : p \in Span(a) <=> p \in Int /\ a.addr <= p /\ p < a.addr + a.n
           /\ Span(a) \subseteq Addresses
<1>1. a \in AreaType /\ a.addr \in Addresses /\ a.n \in Nat \ {0} /\ a.addr + a.n <= Top
  BY Areas DEF Linked, Ranged
<1>2. a.addr \in Nat /\ a.addr >= VmStart /\ VmStart \in Nat /\ Top \in Nat
  BY <1>1, Constants
<1>3. a.frames \in Seq(Frames \cup {Lent, None}) /\ a.array \in Addresses \cup {Slab, None} /\ a.nr \in Nat
  BY <1>1 DEF AreaType
<1>4. \A p : p \in Span(a) <=> p \in Int /\ a.addr <= p /\ p < a.addr + a.n
  BY <1>1, <1>2 DEF Span
<1>5. Span(a) \subseteq Addresses
  BY <1>1, <1>2 DEF Span, Addresses
<1> QED
  BY <1>1, <1>2, <1>3, <1>4, <1>5, SeqParts DEF Limit

LEMMA AfterInsert ==
    ASSUME Linked, NEW a \in AreaType, NEW k \in Nat, k < Len(vmlist) + 1,
           \A j \in 1..Len(vmlist) : IF j <= k THEN Limit(vmlist[j]) <= a.addr
                                     ELSE Limit(a) <= vmlist[j].addr,
           vmlist' = InsertAt(vmlist, k + 1, a)
    PROVE  /\ vmlist' \in Seq(AreaType) /\ Ordered' /\ Listed' = Listed \cup {a}
           /\ \A b \in Listed : b.addr # a.addr /\ (Limit(b) <= a.addr \/ Limit(a) <= b.addr)
<1> DEFINE s == vmlist
<1>1. /\ Len(s) \in Nat /\ \A i \in 1..Len(s) : s[i] \in AreaType /\ s[i] \in Listed
      /\ \A b : b \in Listed <=> \E i \in 1..Len(s) : s[i] = b
  BY SeqParts DEF Linked, Listed
<1>2. PICK r : r = vmlist'
  OBVIOUS
<1>3. /\ r \in Seq(AreaType) /\ Len(r) = Len(s) + 1
      /\ \A i \in 1..(Len(s) + 1) : r[i] = IF i <= k THEN s[i] ELSE IF i = k + 1 THEN a ELSE s[i - 1]
  <2>1. vmlist \in Seq(AreaType)
    BY DEF Linked
  <2>2. /\ InsertAt(vmlist, k + 1, a) \in Seq(AreaType)
        /\ Len(InsertAt(vmlist, k + 1, a)) = Len(vmlist) + 1
        /\ \A i \in 1..(Len(vmlist) + 1) :
              InsertAt(vmlist, k + 1, a)[i] =
                 IF i <= k THEN vmlist[i] ELSE IF i = k + 1 THEN a ELSE vmlist[i - 1]
    BY <2>1, InsertFacts
  <2>3. InsertAt(vmlist, k + 1, a) = r
    BY <1>2
  <2> QED
    BY <2>2, <2>3
<1>4. \A b : b \in ToSet(r) <=> \E i \in 1..Len(r) : r[i] = b
  BY <1>3, SeqParts
<1>5. ToSet(r) = Listed \cup {a}
  <2>1. \A i \in 1..Len(r) : r[i] \in Listed \cup {a}
    BY <1>1, <1>3
  <2>2. r[k + 1] = a /\ k + 1 \in 1..Len(r)
    BY <1>1, <1>3
  <2>3. ASSUME NEW i \in 1..Len(s)
        PROVE  \E j \in 1..Len(r) : r[j] = s[i]
    <3>1. CASE i <= k
      BY <1>1, <1>3, <3>1
    <3>2. CASE ~(i <= k)
      <4>1. i + 1 \in 1..(Len(s) + 1) /\ ~(i + 1 <= k) /\ i + 1 # k + 1 /\ (i + 1) - 1 = i
        BY <1>1, <3>2
      <4> QED
        BY <1>3, <4>1
    <3> QED
      BY <3>1, <3>2
  <2> QED
    BY <1>1, <1>4, <2>1, <2>2, <2>3
<1>6. ASSUME NEW i \in 1..Len(r), NEW j \in 1..Len(r), i < j
      PROVE  Limit(r[i]) <= r[j].addr
  <2>1. i \in 1..(Len(s) + 1) /\ j \in 1..(Len(s) + 1)
    BY <1>1, <1>3
  <2>2. CASE j <= k
    <3>1. r[i] = s[i] /\ r[j] = s[j] /\ i \in 1..Len(s) /\ j \in 1..Len(s)
      BY <1>1, <1>3, <1>6, <2>1, <2>2
    <3> QED
      BY <1>6, <3>1 DEF Linked, Ordered
  <2>3. CASE j = k + 1
    <3>1. r[i] = s[i] /\ r[j] = a /\ i \in 1..Len(s) /\ i <= k
      BY <1>1, <1>3, <1>6, <2>1, <2>3
    <3> QED
      BY <3>1
  <2>4. CASE j > k + 1
    <3>1. r[j] = s[j - 1] /\ j - 1 \in 1..Len(s) /\ ~(j - 1 <= k)
      BY <1>1, <1>3, <1>6, <2>1, <2>4
    <3>2. CASE i <= k
      <4>1. r[i] = s[i] /\ i \in 1..Len(s) /\ i < j - 1
        BY <1>1, <1>3, <1>6, <2>1, <2>4, <3>2
      <4> QED
        BY <3>1, <4>1 DEF Linked, Ordered
    <3>3. CASE i = k + 1
      BY <1>3, <2>1, <3>1, <3>3
    <3>4. CASE i > k + 1
      <4>1. r[i] = s[i - 1] /\ i - 1 \in 1..Len(s) /\ i - 1 < j - 1
        BY <1>1, <1>3, <1>6, <2>1, <3>4
      <4> QED
        BY <3>1, <4>1 DEF Linked, Ordered
    <3> QED
      BY <2>1, <3>2, <3>3, <3>4
  <2> QED
    BY <2>1, <2>2, <2>3, <2>4
<1>7. ASSUME NEW b \in Listed
      PROVE  b.addr # a.addr /\ (Limit(b) <= a.addr \/ Limit(a) <= b.addr)
  <2>1. PICK j \in 1..Len(s) : s[j] = b
    BY <1>1
  <2>2. b \in AreaType
    BY <1>1
  <2>3. b.addr \in Nat /\ a.addr \in Nat /\ b.n \in Nat /\ a.n \in Nat
        /\ Limit(a) = a.addr + a.n + 1 /\ Limit(b) = b.addr + b.n + 1
    BY <2>2, AreaNumbers
  <2>4. Limit(b) <= a.addr \/ Limit(a) <= b.addr
    BY <2>1
  <2> QED
    BY <2>3, <2>4
<1>8. Ordered'
  BY <1>2, <1>6 DEF Ordered, Limit
<1> QED
  BY <1>2, <1>3, <1>5, <1>7, <1>8 DEF Listed

LEMMA AfterRemove ==
    ASSUME Linked, NEW a \in Listed, vmlist' = Removed(a)
    PROVE  vmlist' \in Seq(AreaType) /\ Ordered' /\ Listed' = Listed \ {a}
<1> DEFINE s == vmlist
<1>1. /\ Len(s) \in Nat /\ \A i \in 1..Len(s) : s[i] \in AreaType /\ s[i] \in Listed
      /\ \A b : b \in Listed <=> \E i \in 1..Len(s) : s[i] = b
  BY SeqParts DEF Linked, Listed
<1>2. PICK k \in 1..Len(s) : k = Place(a.addr) /\ s[k] = a
  BY Areas
<1>3. PICK r : r = RemoveAt(vmlist, k)
  OBVIOUS
<1>4. vmlist' = r
  BY <1>2, <1>3 DEF Removed
<1>5. /\ r \in Seq(AreaType) /\ Len(r) = Len(s) - 1
      /\ \A i \in 1..(Len(s) - 1) : r[i] = IF i < k THEN s[i] ELSE s[i + 1]
  <2>1. vmlist \in Seq(AreaType)
    BY DEF Linked
  <2>2. /\ RemoveAt(vmlist, k) \in Seq(AreaType)
        /\ Len(RemoveAt(vmlist, k)) = Len(vmlist) - 1
        /\ \A i \in 1..(Len(vmlist) - 1) :
              RemoveAt(vmlist, k)[i] = IF i < k THEN vmlist[i] ELSE vmlist[i + 1]
    BY <2>1, RemoveFacts
  <2> QED
    BY <1>3, <2>2
<1>6. \A b : b \in ToSet(r) <=> \E i \in 1..Len(r) : r[i] = b
  BY <1>5, SeqParts
<1>7. ASSUME NEW i \in 1..Len(s), NEW j \in 1..Len(s), s[i] = s[j]
      PROVE  i = j
  <2>1. s[i].addr \in Nat /\ Limit(s[i]) \in Nat /\ Limit(s[i]) > s[i].addr
    BY <1>1, AreaNumbers
  <2>2. i < j => Limit(s[i]) <= s[i].addr
    BY <1>7 DEF Linked, Ordered
  <2>3. j < i => Limit(s[i]) <= s[i].addr
    BY <1>7 DEF Linked, Ordered
  <2>4. PICK x \in Nat : x = s[i].addr
    BY <2>1
  <2>5. PICK y \in Nat : y = Limit(s[i])
    BY <2>1
  <2>6. ~(y <= x)
    BY <2>1, <2>4, <2>5
  <2> QED
    BY <2>2, <2>3, <2>4, <2>5, <2>6
<1>8. ToSet(r) = Listed \ {a}
  <2>1. ASSUME NEW i \in 1..Len(r)
        PROVE  r[i] \in Listed \ {a}
    <3>1. CASE i < k
      <4>0. i \in 1..(Len(s) - 1) /\ i \in 1..Len(s) /\ i # k
        BY <1>1, <1>5, <3>1
      <4>1. i \in 1..Len(s) /\ r[i] = s[i] /\ i # k
        BY <1>5, <3>1, <4>0
      <4> QED
        BY <1>1, <1>2, <1>7, <4>1
    <3>2. CASE ~(i < k)
      <4>0. i \in 1..(Len(s) - 1) /\ i + 1 \in 1..Len(s) /\ i + 1 # k
        BY <1>1, <1>5, <3>2
      <4>1. i + 1 \in 1..Len(s) /\ r[i] = s[i + 1] /\ i + 1 # k
        BY <1>5, <3>2, <4>0
      <4> QED
        BY <1>1, <1>2, <1>7, <4>1
    <3> QED
      BY <3>1, <3>2
  <2>2. ASSUME NEW i \in 1..Len(s), s[i] # a
        PROVE  \E j \in 1..Len(r) : r[j] = s[i]
    <3>1. CASE i < k
      BY <1>1, <1>5, <3>1
    <3>2. CASE ~(i < k)
      <4>1. i - 1 \in 1..Len(r) /\ ~(i - 1 < k) /\ (i - 1) + 1 = i
        BY <1>1, <1>2, <1>5, <2>2, <3>2
      <4> QED
        BY <1>1, <1>5, <4>1
    <3> QED
      BY <3>1, <3>2
  <2>3. ASSUME NEW b \in Listed \ {a}
        PROVE  b \in ToSet(r)
    <3>1. PICK i \in 1..Len(s) : s[i] = b
      BY <1>1
    <3> QED
      BY <1>6, <2>2, <3>1
  <2>4. ASSUME NEW b \in ToSet(r)
        PROVE  b \in Listed \ {a}
    <3>1. PICK i \in 1..Len(r) : r[i] = b
      BY <1>6
    <3> QED
      BY <2>1, <3>1
  <2> QED
    BY <2>3, <2>4
<1>9. ASSUME NEW i \in 1..Len(r), NEW j \in 1..Len(r), i < j
      PROVE  Limit(r[i]) <= r[j].addr
  <2>0. \A h \in 1..Len(r) : IF h < k THEN h \in 1..Len(s) /\ r[h] = s[h]
                              ELSE h + 1 \in 1..Len(s) /\ r[h] = s[h + 1]
    BY <1>1, <1>5
  <2>1. PICK p \in 1..Len(s) : r[i] = s[p] /\ p = IF i < k THEN i ELSE i + 1
    BY <2>0
  <2>2. PICK q \in 1..Len(s) : r[j] = s[q] /\ q = IF j < k THEN j ELSE j + 1
    BY <2>0
  <2>3. p < q
    BY <1>9, <2>1, <2>2
  <2> QED
    BY <2>1, <2>2, <2>3 DEF Linked, Ordered
<1>10. Ordered'
  BY <1>4, <1>9 DEF Ordered, Limit
<1> QED
  BY <1>4, <1>5, <1>8, <1>10 DEF Listed

LEMMA AfterUpdate ==
    ASSUME Linked, NEW a \in Listed, NEW b \in AreaType, b.addr = a.addr, b.n = a.n,
           vmlist' = Update(b)
    PROVE  vmlist' \in Seq(AreaType) /\ Ordered' /\ Listed' = (Listed \ {a}) \cup {b}
<1> DEFINE s == vmlist
<1>1. /\ Len(s) \in Nat /\ \A i \in 1..Len(s) : s[i] \in AreaType /\ s[i] \in Listed
      /\ \A c : c \in Listed <=> \E i \in 1..Len(s) : s[i] = c
  BY SeqParts DEF Linked, Listed
<1>2. PICK k \in 1..Len(s) : k = Place(a.addr) /\ s[k] = a
  BY Areas
<1>3. PICK r : r = [vmlist EXCEPT ![k] = b]
  OBVIOUS
<1>4. vmlist' = r
  BY <1>2, <1>3 DEF Update
<1>5. /\ r \in Seq(AreaType) /\ Len(r) = Len(s)
      /\ \A i \in 1..Len(s) : r[i] = IF i = k THEN b ELSE s[i]
  <2>1. vmlist \in Seq(AreaType)
    BY DEF Linked
  <2>2. /\ [vmlist EXCEPT ![k] = b] \in Seq(AreaType)
        /\ Len([vmlist EXCEPT ![k] = b]) = Len(vmlist)
        /\ \A i \in 1..Len(vmlist) : [vmlist EXCEPT ![k] = b][i] = IF i = k THEN b ELSE vmlist[i]
    BY <2>1, ExceptSeq
  <2> QED
    BY <1>3, <2>2
<1>6. \A c : c \in ToSet(r) <=> \E i \in 1..Len(r) : r[i] = c
  BY <1>5, SeqParts
<1>7. \A i \in 1..Len(s) : s[i] = a => i = k
  <2> TAKE i \in 1..Len(s)
  <2>0. s[i] \in AreaType
    BY <1>1
  <2>1. s[i].addr \in Nat /\ Limit(s[i]) \in Nat /\ Limit(s[i]) > s[i].addr
    BY <2>0, AreaNumbers
  <2>2. PICK x \in Nat : x = s[i].addr
    BY <2>1
  <2>3. PICK y \in Nat : y = Limit(s[i])
    BY <2>1
  <2>4. ~(y <= x)
    BY <2>1, <2>2, <2>3
  <2>5. s[i] = a => ~(i < k) /\ ~(k < i)
    BY <1>2, <2>2, <2>3, <2>4 DEF Linked, Ordered
  <2> QED
    BY <2>5
<1>8. ToSet(r) = (Listed \ {a}) \cup {b}
  <2>1. \A i \in 1..Len(r) : r[i] \in (Listed \ {a}) \cup {b}
    BY <1>1, <1>5, <1>7
  <2>2. \A i \in 1..Len(s) : s[i] # a => \E j \in 1..Len(r) : r[j] = s[i]
    BY <1>2, <1>5
  <2>3. \E j \in 1..Len(r) : r[j] = b
    BY <1>5
  <2> QED
    BY <1>1, <1>6, <2>1, <2>2, <2>3
<1>9. ASSUME NEW i \in 1..Len(r), NEW j \in 1..Len(r), i < j
      PROVE  Limit(r[i]) <= r[j].addr
  <2>1. Limit(r[i]) = Limit(s[i]) /\ r[j].addr = s[j].addr
    BY <1>2, <1>5 DEF Limit
  <2> QED
    BY <1>5, <1>9, <2>1 DEF Linked, Ordered
<1>10. Ordered'
  BY <1>4, <1>9 DEF Ordered, Limit
<1> QED
  BY <1>4, <1>5, <1>8, <1>10 DEF Listed

(****************************************************************************)
(* The inductive invariant: who has which area, and what its state is then. *)
(****************************************************************************)
\* The list has an area at x. (The list is in order: AreaAt(x) is the only one.)
Has(x) == \E a \in Listed : a.addr = x

\* An area that is being built, from its array of pages on; one of the caller's pages; and
\* one that is complete.
AllFrames(a) == \A i \in 1..Len(a.frames) : a.frames[i] \in Frames
Bare(a) == a.array = None /\ a.nr = 0 /\ a.frames = <<>>
Stocked(a) == a.array # None /\ a.nr = a.n /\ (a.array = Slab <=> a.n <= Ptrs) /\ AllFrames(a)
Borrowed(a) == a.array = None /\ a.nr = 0 /\ \A i \in 1..Len(a.frames) : a.frames[i] \notin Frames
Whole(a) == Len(a.frames) = a.n /\ (Stocked(a) \/ Borrowed(a))

\* One that is being taken down: its array is an area's if it was to have many pages, though
\* it may have few.
Taken(a) ==
    /\ a.array # None /\ a.nr = Len(a.frames) /\ a.nr <= a.n
    /\ (a.array = Slab <=> a.n <= Ptrs) /\ AllFrames(a)

\* A call that builds area a, at each step.
Active(c) == c.step \notin {"undo", "oops"}
Mapping(c) == c.step \in {"map", "table"}
Fits(c, a) ==
    /\ c.step = "array" => Bare(a)
    /\ c.step = "wait" => Bare(a) /\ a.n > Ptrs
    /\ c.step = "given" => /\ Bare(a)
                           /\ \/ c.cur = None
                              \/ c.cur = Slab /\ a.n <= Ptrs
                              \/ c.cur \in Addresses /\ a.n > Ptrs
    /\ c.step = "fill" => Stocked(a) /\ Len(a.frames) < a.n /\ c.cur = a.addr
    /\ c.step = "lock" => Whole(a) /\ c.cur = a.addr
    /\ Mapping(c) => Whole(a) /\ c.cur \in Span(a)
    /\ c.step = "fail" => Whole(a)

\* What a task's stack says: the area of its i-th call, the array that the innermost holds
\* and the frames that it is to free.
BuiltIn(s, i) == IF i \in 1..Len(s) /\ Active(s[i]) THEN s[i].addr ELSE None
KeptIn(s) ==
    IF s = <<>> THEN None
    ELSE IF s[Len(s)].step = "given" THEN s[Len(s)].cur
    ELSE IF s[Len(s)].step = "undo" THEN s[Len(s)].area.array ELSE None
GoneIn(s) == IF s # <<>> /\ s[Len(s)].step = "undo" THEN s[Len(s)].area.frames ELSE <<>>
StackedIn(s) ==
    \A i \in 1..Len(s) : /\ i < Len(s) <=> s[i].step = "wait"
                         /\ s[i].step = "undo" => Taken(s[i].area)
Stacked == \A t \in Tasks : StackedIn(stack[t])

ArrayOf(x) == IF Has(x) THEN AreaAt(x).array ELSE None
PagesOf(x) == IF Has(x) THEN AreaAt(x).frames ELSE <<>>

\* Each value in V is f's at one place, or at none if it is not in L.
Unique(f, V, L) ==
    /\ \A o, p \in DOMAIN f : f[o] \in V /\ f[o] = f[p] => o = p
    /\ \A v \in V : v \in L <=> \E o \in DOMAIN f : f[o] = v

\* Who has an area: a call that builds it, a task that holds it as an array, the area of which
\* it is the array, or the user.
Owners ==
    ({"call"} \X Tasks \X Nat) \cup ({"keep"} \X Tasks \X {0})
       \cup ({"area", "user"} \X Addresses \X {0})
Title ==
    [o \in Owners |-> IF o[1] = "call" THEN BuiltIn(stack[o[2]], o[3])
                      ELSE IF o[1] = "keep" THEN KeptIn(stack[o[2]])
                      ELSE IF o[1] = "area" THEN ArrayOf(o[2])
                      ELSE (IF o[2] \in live THEN o[2] ELSE None)]
Owned == Unique(Title, Addresses, {a.addr : a \in Listed})

\* Where a frame is: in an area on the list, or in one that is being taken down.
Holders == ({"area"} \X Addresses \X (Nat \ {0})) \cup ({"undo"} \X Tasks \X (Nat \ {0}))
Entry(fs, j) == IF j <= Len(fs) THEN fs[j] ELSE None
FrameAt ==
    [h \in Holders |-> Entry(IF h[1] = "area" THEN PagesOf(h[2]) ELSE GoneIn(stack[h[2]]), h[3])]
Framed == Unique(FrameAt, Frames, Frames \ free)

\* Area a is what its owner o takes it for, and mapped as far as it should be.
Caller(o) == stack[o[2]][o[3]]
Serves(o, a) ==
    IF o[1] = "call"
    THEN /\ Fits(Caller(o), a)
         /\ o[3] > 1 /\ (Caller(o).step \in {"lock", "fail"} \/ Mapping(Caller(o))) => Stocked(a)
    ELSE Whole(a) /\ (o[1] \in {"area", "keep"} => Stocked(a))
Shows(o, a) ==
    \A p \in Span(a) :
       \/ p - a.addr < Len(a.frames) /\ pte[p] = a.frames[p - a.addr + 1]
       \/ o[1] = "call" /\ pte[p] = None /\ (Mapping(Caller(o)) => p >= Caller(o).cur)
Right(o) == Serves(o, AreaAt(Title[o])) /\ (~replaced => Shows(o, AreaAt(Title[o])))
Served == \A o \in Owners : Title[o] \in Addresses => Right(o)

\* Nothing else is mapped, and there is a table behind what is.
Tabled ==
    ~replaced => \A p \in Addresses : /\ (\A a \in Listed : p \notin Span(a)) => pte[p] = None
                                      /\ pte[p] # None => TableOf(p) \in present

Inv == TypeOK /\ Ordered /\ Ranged /\ Stacked /\ Owned /\ Served /\ Framed /\ Tabled

\* Values that the places in D exchange among themselves stay unique.
Exchange(f, g, V, L, M, D) ==
    /\ DOMAIN g = DOMAIN f /\ D \subseteq DOMAIN f /\ Unique(f, V, L)
    /\ \A o \in DOMAIN f \ D : g[o] = f[o]
    /\ \A o, p \in D : g[o] \in V /\ g[o] = g[p] => o = p
    /\ \A o \in D : g[o] \in V => g[o] \in M /\ (g[o] \in L => \E p \in D : f[p] = g[o])
    /\ \A v \in V : v \in M /\ v \notin L => \E o \in D : g[o] = v
    /\ \A v \in V : v \in L /\ v \notin M => \E o \in D : f[o] = v
    /\ \A o \in D : f[o] \in V /\ f[o] \in M => \E p \in D : g[p] = f[o]

LEMMA Moved ==
    ASSUME NEW f, NEW g, NEW V, NEW L, NEW M, NEW D, Exchange(f, g, V, L, M, D)
    PROVE  Unique(g, V, M)
<1> USE DEF Exchange
<1>1. ASSUME NEW o \in DOMAIN f, NEW p \in DOMAIN f, g[o] \in V, g[o] = g[p]
      PROVE  o = p
  <2>1. CASE o \in D /\ p \in D
    BY <1>1, <2>1
  <2>2. CASE o \notin D /\ p \notin D
    BY <1>1, <2>2 DEF Unique
  <2>3. ASSUME NEW q \in DOMAIN f \ D, NEW r \in D, g[q] = g[r], g[q] \in V
        PROVE  FALSE
    <3>1. f[q] = g[q] /\ g[q] \in L
      BY <2>3 DEF Unique
    <3>2. PICK z \in D : f[z] = g[r]
      BY <2>3, <3>1
    <3> QED
      BY <2>3, <3>1, <3>2 DEF Unique
  <2> QED
    BY <1>1, <2>1, <2>2, <2>3
<1>2. ASSUME NEW v \in V, v \in M
      PROVE  \E o \in DOMAIN f : g[o] = v
  <2>1. CASE v \notin L
    BY <1>2, <2>1
  <2>2. CASE v \in L
    <3>1. PICK o \in DOMAIN f : f[o] = v
      BY <2>2 DEF Unique
    <3> QED
      BY <1>2, <3>1
  <2> QED
    BY <2>1, <2>2
<1>3. ASSUME NEW v \in V, NEW o \in DOMAIN f, g[o] = v
      PROVE  v \in M
  <2>1. CASE o \in D
    BY <1>3, <2>1
  <2>2. CASE o \notin D
    <3>1. f[o] = v /\ v \in L
      BY <1>3, <2>2 DEF Unique
    <3> QED
      BY <2>2, <3>1 DEF Unique
  <2> QED
    BY <2>1, <2>2
<1> QED
  BY <1>1, <1>2, <1>3 DEF Unique

\* The kinds of owners, and what they have.
LEMMA OwnerKinds ==
    /\ \A t \in Tasks, i \in Nat : <<"call", t, i>> \in Owners
    /\ \A t \in Tasks : <<"keep", t, 0>> \in Owners
    /\ \A x \in Addresses : /\ <<"area", x, 0>> \in Owners /\ <<"user", x, 0>> \in Owners
    /\ \A o \in Owners : \/ \E t \in Tasks, i \in Nat : o = <<"call", t, i>>
                         \/ \E t \in Tasks : o = <<"keep", t, 0>>
                         \/ \E x \in Addresses : o = <<"area", x, 0>>
                         \/ \E x \in Addresses : o = <<"user", x, 0>>
BY DEF Owners

LEMMA Titles ==
    /\ DOMAIN Title = Owners
    /\ \A t \in Tasks, i \in Nat : Title[<<"call", t, i>>] = BuiltIn(stack[t], i)
    /\ \A t \in Tasks : Title[<<"keep", t, 0>>] = KeptIn(stack[t])
    /\ \A x \in Addresses : Title[<<"area", x, 0>>] = ArrayOf(x)
    /\ \A x \in Addresses : Title[<<"user", x, 0>>] = IF x \in live THEN x ELSE None
BY OwnerKinds DEF Title

LEMMA TitlesNext ==
    /\ DOMAIN Title' = Owners
    /\ \A t \in Tasks, i \in Nat : Title'[<<"call", t, i>>] = BuiltIn(stack'[t], i)
    /\ \A t \in Tasks : Title'[<<"keep", t, 0>>] = KeptIn(stack'[t])
    /\ \A x \in Addresses : Title'[<<"area", x, 0>>] = ArrayOf(x)'
    /\ \A x \in Addresses : Title'[<<"user", x, 0>>] = IF x \in live' THEN x ELSE None
BY OwnerKinds DEF Title

\* A step of task t changes what the owners in D have.
Spared(t, D) ==
    /\ \A u \in Tasks \ {t} : stack'[u] = stack[u]
    /\ \A i \in Nat : <<"call", t, i>> \notin D =>
          BuiltIn(stack'[t], i) = BuiltIn(stack[t], i) /\ (BuiltIn(stack[t], i) # None => stack'[t][i] = stack[t][i])
    /\ <<"keep", t, 0>> \notin D => KeptIn(stack'[t]) = KeptIn(stack[t])
    /\ \A x \in Addresses : <<"area", x, 0>> \notin D => ArrayOf(x)' = ArrayOf(x)
    /\ \A x \in Addresses : <<"user", x, 0>> \notin D => (x \in live' <=> x \in live)

LEMMA Bystanders ==
    ASSUME NEW t \in Tasks, NEW D, Spared(t, D)
    PROVE  \A o \in Owners \ D : /\ Title'[o] = Title[o]
                                 /\ o[1] = "call" /\ Title[o] # None => Caller(o)' = Caller(o)
<1> USE DEF Spared
<1> TAKE o \in Owners \ D
<1>1. CASE \E u \in Tasks, i \in Nat : o = <<"call", u, i>>
  <2>1. PICK u \in Tasks, i \in Nat : o = <<"call", u, i>>
    BY <1>1
  <2>2. Title[o] = BuiltIn(stack[u], i) /\ Title'[o] = BuiltIn(stack'[u], i)
    BY <2>1, Titles, TitlesNext
  <2>3. o[2] = u /\ o[3] = i
    BY <2>1
  <2>4. Caller(o) = stack[u][i] /\ Caller(o)' = stack'[u][i]
    BY <2>3 DEF Caller
  <2>5. CASE u = t
    BY <2>1, <2>2, <2>4, <2>5
  <2>6. CASE u # t
    BY <2>2, <2>4, <2>6
  <2> QED
    BY <2>5, <2>6
<1>2. CASE \E u \in Tasks : o = <<"keep", u, 0>>
  <2>1. PICK u \in Tasks : o = <<"keep", u, 0>>
    BY <1>2
  <2>2. Title[o] = KeptIn(stack[u]) /\ Title'[o] = KeptIn(stack'[u]) /\ o[1] # "call"
    BY <2>1, Titles, TitlesNext
  <2> QED
    BY <2>1, <2>2
<1>3. CASE \E x \in Addresses : o = <<"area", x, 0>>
  <2>1. PICK x \in Addresses : o = <<"area", x, 0>>
    BY <1>3
  <2>2. Title[o] = ArrayOf(x) /\ Title'[o] = ArrayOf(x)' /\ o[1] # "call"
    BY <2>1, Titles, TitlesNext
  <2> QED
    BY <2>1, <2>2
<1>4. CASE \E x \in Addresses : o = <<"user", x, 0>>
  BY <1>4, Titles, TitlesNext
<1> QED
  BY <1>1, <1>2, <1>3, <1>4, OwnerKinds

\* An area that the list has is at its address, and only that one is.
ListFacts ==
    /\ \A x : Has(x) => AreaAt(x) \in Listed /\ AreaAt(x).addr = x /\ x \in Addresses
    /\ \A a \in Listed : \A x : a.addr = x => Has(x) /\ AreaAt(x) = a
    /\ \A x : Has(x) <=> x \in {a.addr : a \in Listed}

LEMMA HasFacts ==
    ASSUME Linked
    PROVE  ListFacts
  BY Areas, AreaFacts DEF Has, ListFacts

LEMMA HasFactsNext ==
    ASSUME Linked'
    PROVE  ListFacts'
BY HasFacts, PTL

\* What the owners in D do with the area at x leaves the others' areas as they were.
Handed(x, D) ==
    /\ D \subseteq Owners
    /\ \A o \in Owners \ D : /\ Title'[o] = Title[o]
                             /\ o[1] = "call" /\ Title[o] # None => Caller(o)' = Caller(o)
    /\ \A z \in Addresses \ {x} : (Has(z)' <=> Has(z)) /\ (Has(z) => AreaAt(z)' = AreaAt(z))
    /\ Has(x) => \E o \in D : Title[o] = x
    /\ Has(x)' => \E o \in D : Title'[o] = x
    /\ \A o, p \in D : Title'[o] \in Addresses /\ Title'[o] = Title'[p] => o = p
    /\ \A o \in D, z \in Addresses :
          Title'[o] = z => Has(z)' /\ (z = x \/ \E p \in D : Title[p] = z)
    /\ \A o \in D, z \in Addresses : Title[o] = z /\ Has(z)' => \E p \in D : Title'[p] = z
    /\ ~replaced' => ~replaced /\ \A a \in Listed : a.addr # x => \A p \in Span(a) : pte'[p] = pte[p]
    /\ \A o \in D : Title'[o] \in Addresses => Right(o)'

LEMMA Handover ==
    ASSUME Linked, Linked', Owned, Served, NEW x, NEW D, Handed(x, D)
    PROVE  Owned' /\ Served'
<1> USE DEF Handed
<1> DEFINE L == {a.addr : a \in Listed}
           M == {a.addr : a \in Listed'}
<1>1. (\A z : Has(z) <=> z \in L) /\ (\A z : Has(z)' <=> z \in M)
  BY HasFacts, HasFactsNext DEF ListFacts
<1>2. DOMAIN Title = Owners /\ DOMAIN Title' = Owners
  BY Titles, TitlesNext
<1>3. Unique(Title, Addresses, L)
  BY DEF Owned
<1> HIDE DEF L, M
<1>4. PICK f : f = Title
  OBVIOUS
<1>5. PICK g : g = Title'
  OBVIOUS
<1>6. \A v \in Addresses : v \in M /\ v \notin L => \E o \in D : g[o] = v
  BY <1>1, <1>5
<1>7. \A v \in Addresses : v \in L /\ v \notin M => \E o \in D : f[o] = v
  BY <1>1, <1>4
<1>8. \A o \in D : g[o] \in Addresses => g[o] \in M /\ (g[o] \in L => \E p \in D : f[p] = g[o])
  BY <1>1, <1>4, <1>5
<1>9. \A o \in D : f[o] \in Addresses /\ f[o] \in M => \E p \in D : g[p] = f[o]
  BY <1>1, <1>4, <1>5
<1>10. DOMAIN g = DOMAIN f /\ D \subseteq DOMAIN f /\ Unique(f, Addresses, L)
  BY <1>2, <1>3, <1>4, <1>5
<1>0. \A o \in Owners \ D : Title'[o] = Title[o]
  OBVIOUS
<1>11. \A o \in DOMAIN f \ D : g[o] = f[o]
  BY <1>0, <1>2, <1>4, <1>5
<1>12. \A o, p \in D : g[o] \in Addresses /\ g[o] = g[p] => o = p
  BY <1>5
<1>13. Unique(g, Addresses, M)
  <2>1. Exchange(f, g, Addresses, L, M, D)
    BY <1>6, <1>7, <1>8, <1>9, <1>10, <1>11, <1>12, Zenon DEF Exchange
  <2> QED
    BY <2>1, Moved
<1>14. Owned'
  BY <1>5, <1>13 DEF Owned, Unique, M
<1>15. ASSUME NEW o \in Owners, Title'[o] \in Addresses
       PROVE  Right(o)'
  <2>1. CASE o \in D
    BY <1>15, <2>1
  <2>2. CASE o \notin D
    <3>1. PICK z : z = Title[o]
      OBVIOUS
    <3>0. Title'[o] = z /\ z \in Addresses
      BY <1>0, <1>15, <2>2, <3>1
    <3>00. Title[o] # None
      BY <3>0, <3>1, Constants
    <3>2. Title'[o] = z /\ z \in Addresses /\ (o[1] = "call" => Caller(o)' = Caller(o))
      BY <2>2, <3>0, <3>00
    <3>3. Has(z)
      BY <1>1, <1>2, <1>3, <3>1, <3>2 DEF Unique
    <3>4. z # x
      BY <1>2, <1>3, <2>2, <3>1, <3>2, <3>3 DEF Unique
    <3>5. AreaAt(z)' = AreaAt(z) /\ AreaAt(z) \in Listed /\ AreaAt(z).addr = z
      BY <3>2, <3>3, <3>4, HasFacts DEF ListFacts
    <3>6. Serves(o, AreaAt(z)) /\ (~replaced => Shows(o, AreaAt(z)))
      BY <3>1, <3>2 DEF Served, Right
    <3>7. PICK a : a = AreaAt(z)
      OBVIOUS
    <3>8. Serves(o, a)'
      BY <3>2, <3>6, <3>7 DEF Serves
    <3>9. ~replaced' => Shows(o, a)'
      BY <3>2, <3>4, <3>5, <3>6, <3>7 DEF Shows
    <3> QED
      BY <3>2, <3>5, <3>7, <3>8, <3>9 DEF Right
  <2> QED
    BY <2>1, <2>2
<1>16. Served'
  BY <1>15 DEF Served
<1> QED
  BY <1>14, <1>16

\* What an insertion, a removal and an update do, seen from the addresses: at every address
\* but one the list has what it had.
Elsewhere(x) ==
    \A z \in Addresses : z # x => (Has(z)' <=> Has(z)) /\ (Has(z) => AreaAt(z)' = AreaAt(z))

LEMMA SeenFrom ==
    ASSUME Linked, Linked', NEW x, \A a : a.addr # x => (a \in Listed <=> a \in Listed')
    PROVE  Elsewhere(x)
<1> SUFFICES ASSUME NEW z \in Addresses, z # x
             PROVE  (Has(z)' <=> Has(z)) /\ (Has(z) => AreaAt(z)' = AreaAt(z))
  BY DEF Elsewhere
<1>1. ListFacts /\ ListFacts'
  BY HasFacts, HasFactsNext
<1>2. ASSUME Has(z)
      PROVE  Has(z)' /\ AreaAt(z)' = AreaAt(z)
  <2>1. PICK a \in Listed : a = AreaAt(z) /\ a.addr = z
    BY <1>1, <1>2 DEF ListFacts
  <2>2. a \in Listed'
    BY <2>1
  <2> QED
    BY <1>1, <2>1, <2>2 DEF ListFacts
<1>3. ASSUME Has(z)'
      PROVE  Has(z)
  <2>1. PICK a \in Listed' : a.addr = z
    BY <1>3 DEF Has
  <2>2. a \in Listed
    BY <2>1
  <2> QED
    BY <2>1, <2>2 DEF Has
<1> QED
  BY <1>2, <1>3

LEMMA InsertKeeps ==
    ASSUME Linked, NEW a \in AreaType, a.addr \in Addresses, a.n \in Nat \ {0}, a.addr + a.n <= Top,
           ~strained' => ~strained /\ Limit(a) <= VmEnd,
           NEW k \in Nat, k < Len(vmlist) + 1,
           \A j \in 1..Len(vmlist) : IF j <= k THEN Limit(vmlist[j]) <= a.addr
                                     ELSE Limit(a) <= vmlist[j].addr,
           vmlist' = InsertAt(vmlist, k + 1, a)
    PROVE  /\ Linked' /\ Elsewhere(a.addr) /\ Listed' = Listed \cup {a}
           /\ ~Has(a.addr) /\ Has(a.addr)' /\ AreaAt(a.addr)' = a
           /\ \A b \in Listed : Limit(b) <= a.addr \/ Limit(a) <= b.addr
<1>1. /\ vmlist' \in Seq(AreaType) /\ Ordered' /\ Listed' = Listed \cup {a}
      /\ \A b \in Listed : b.addr # a.addr /\ (Limit(b) <= a.addr \/ Limit(a) <= b.addr)
  BY AfterInsert
<1>2. Ranged'
  BY <1>1 DEF Linked, Ranged, Limit
<1>3. Linked'
  BY <1>1, <1>2 DEF Linked
<1>4. \A b : b.addr # a.addr => (b \in Listed <=> b \in Listed')
  BY <1>1
<1>5. Elsewhere(a.addr)
  BY <1>3, <1>4, SeenFrom
<1>6. ListFacts'
  BY <1>3, HasFactsNext
<1>7. ~Has(a.addr)
  BY <1>1 DEF Has
<1>8. PICK x : x = a.addr
  OBVIOUS
<1>9. Has(x)' /\ AreaAt(x)' = a
  BY <1>1, <1>6, <1>8 DEF ListFacts
<1> QED
  BY <1>1, <1>3, <1>5, <1>7, <1>8, <1>9

LEMMA RemoveKeeps ==
    ASSUME Linked, NEW a \in Listed, strained' = strained, vmlist' = Removed(a)
    PROVE  Linked' /\ Elsewhere(a.addr) /\ Listed' = Listed \ {a} /\ ~Has(a.addr)'
<1>1. vmlist' \in Seq(AreaType) /\ Ordered' /\ Listed' = Listed \ {a}
  BY AfterRemove
<1>2. Ranged'
  BY <1>1 DEF Linked, Ranged, Limit
<1>3. Linked'
  BY <1>1, <1>2 DEF Linked
<1>4. \A b : b.addr # a.addr => (b \in Listed <=> b \in Listed')
  BY <1>1
<1>5. Elsewhere(a.addr)
  BY <1>3, <1>4, SeenFrom
<1>6. \A b \in Listed' : b.addr # a.addr
  BY <1>1, Areas
<1>7. ~Has(a.addr)'
  BY <1>6 DEF Has
<1> QED
  BY <1>1, <1>3, <1>5, <1>7

LEMMA UpdateKeeps ==
    ASSUME Linked, NEW a \in Listed, NEW b \in AreaType, b.addr = a.addr, b.n = a.n,
           strained' = strained, vmlist' = Update(b)
    PROVE  /\ Linked' /\ Elsewhere(a.addr) /\ Listed' = (Listed \ {a}) \cup {b}
           /\ Has(a.addr)' /\ AreaAt(a.addr)' = b
<1>1. vmlist' \in Seq(AreaType) /\ Ordered' /\ Listed' = (Listed \ {a}) \cup {b}
  BY AfterUpdate
<1>2. Ranged'
  <2> SUFFICES ASSUME NEW c \in Listed'
               PROVE  /\ c.addr \in Addresses /\ c.n \in Nat \ {0} /\ c.addr + c.n <= Top
                      /\ ~strained => Limit(c) <= VmEnd
    BY DEF Ranged, Limit
  <2>1. PICK d \in Listed : c.addr = d.addr /\ c.n = d.n
    BY <1>1
  <2> QED
    BY <2>1 DEF Linked, Ranged, Limit
<1>3. Linked'
  BY <1>1, <1>2 DEF Linked
<1>4. \A c : c.addr # a.addr => (c \in Listed <=> c \in Listed')
  BY <1>1
<1>5. Elsewhere(a.addr)
  BY <1>3, <1>4, SeenFrom
<1>6. ListFacts'
  BY <1>3, HasFactsNext
<1>7. PICK x : x = a.addr
  OBVIOUS
<1>8. Has(x)' /\ AreaAt(x)' = b
  BY <1>1, <1>6, <1>7 DEF ListFacts
<1> QED
  BY <1>1, <1>3, <1>5, <1>7, <1>8

LEMMA StayKeeps ==
    ASSUME Linked, strained' = strained, vmlist' = vmlist
    PROVE  /\ Linked' /\ Listed' = Listed
           /\ \A z : (Has(z)' <=> Has(z)) /\ AreaAt(z)' = AreaAt(z)
BY DEF Linked, Ordered, Ranged, Listed, Has, AreaAt, Place, Limit

\* An address that is on the list belongs to somebody, and to him alone.
LEMMA OwnedFacts ==
    ASSUME Linked, Owned
    PROVE  /\ \A o \in Owners : Title[o] \in Addresses => Has(Title[o])
           /\ \A o, p \in Owners : Title[o] \in Addresses /\ Title[o] = Title[p] => o = p
           /\ \A x : Has(x) => \E o \in Owners : Title[o] = x
<1>1. ListFacts /\ DOMAIN Title = Owners
  BY HasFacts, Titles
<1>2. Unique(Title, Addresses, {a.addr : a \in Listed})
  BY DEF Owned
<1> QED
  BY <1>1, <1>2 DEF ListFacts, Unique

(****************************************************************************)
(* The stack of a task.                                                     *)
(****************************************************************************)
LEMMA CallParts ==
    ASSUME NEW c \in CallType
    PROVE  /\ c.step \in {"array", "wait", "given", "fill", "lock", "map", "table", "fail", "undo", "oops"}
           /\ c.addr \in Addresses /\ c.cur \in Addresses \cup {Slab, None} /\ c.area \in AreaType
BY DEF CallType

CallSteps == {"array", "wait", "given", "fill", "lock", "map", "table", "fail", "undo", "oops"}

LEMMA CallMade ==
    ASSUME NEW step \in CallSteps, NEW x \in Addresses
    PROVE  Call(step, x) \in CallType /\ Call(step, x).step = step /\ Call(step, x).addr = x /\ Call(step, x).cur = x
<1>1. NoArea \in AreaType
  BY DEF NoArea, Area, AreaType
<1> QED
  BY <1>1 DEF Call, CallType, CallSteps

LEMMA UndoMade ==
    ASSUME NEW x \in Addresses, NEW a \in AreaType, NEW c, c = [Call("undo", x) EXCEPT !.area = a]
    PROVE  c \in CallType /\ c.step = "undo" /\ c.area = a
<1>1. NoArea \in AreaType
  BY DEF NoArea, Area, AreaType
<1> QED
  BY <1>1 DEF Call, CallType

\* What a call that is the innermost holds.
Holds(c) == IF c.step = "given" THEN c.cur ELSE IF c.step = "undo" THEN c.area.array ELSE None
Takes(c) == IF c.step = "undo" THEN c.area.frames ELSE <<>>
Builds(c) == IF Active(c) THEN c.addr ELSE None
Sound(c) == c.step # "wait" /\ (c.step = "undo" => Taken(c.area))

LEMMA StackTop ==
    ASSUME NEW s \in Seq(CallType), s # <<>>
    PROVE  /\ Len(s) \in Nat \ {0} /\ s[Len(s)] \in CallType
           /\ \A i \in 1..Len(s) : s[i] \in CallType
           /\ KeptIn(s) = Holds(s[Len(s)]) /\ GoneIn(s) = Takes(s[Len(s)])
           /\ BuiltIn(s, Len(s)) = Builds(s[Len(s)])
           /\ \A i \in 1..(Len(s) - 1) : StackedIn(s) => s[i].step = "wait" /\ BuiltIn(s, i) = s[i].addr
           /\ StackedIn(s) => Sound(s[Len(s)])
<1>1. Len(s) \in Nat \ {0} /\ \A i \in 1..Len(s) : s[i] \in CallType
  BY SeqParts
<1>2. PICK m \in Nat \ {0} : m = Len(s)
  BY <1>1
<1>3. KeptIn(s) = Holds(s[Len(s)]) /\ GoneIn(s) = Takes(s[Len(s)])
  BY DEF KeptIn, GoneIn, Holds, Takes
<1>4. BuiltIn(s, Len(s)) = Builds(s[Len(s)])
  BY <1>1 DEF BuiltIn, Builds
<1>5. \A i \in 1..(m - 1) : StackedIn(s) => s[i].step = "wait" /\ BuiltIn(s, i) = s[i].addr
  <2> SUFFICES ASSUME NEW i \in 1..(m - 1), StackedIn(s)
               PROVE  s[i].step = "wait" /\ BuiltIn(s, i) = s[i].addr
    OBVIOUS
  <2>1. i \in 1..m /\ i < m
    OBVIOUS
  <2> QED
    BY <1>2, <2>1 DEF StackedIn, BuiltIn, Active
<1>6. StackedIn(s) => Sound(s[Len(s)])
  <2>1. Len(s) \in 1..Len(s) /\ ~(Len(s) < Len(s))
    BY <1>1
  <2> QED
    BY <2>1 DEF StackedIn, Sound
<1> QED
  BY <1>1, <1>2, <1>3, <1>4, <1>5, <1>6

\* The innermost call goes on: stack s becomes r.
Replaced(s, c, m, r) ==
    /\ r \in Seq(CallType) /\ r # <<>> /\ Len(r) = m /\ m \in Nat \ {0} /\ r[m] = c
    /\ \A i \in 1..m : r[i] = IF i = m THEN c ELSE s[i]
    /\ KeptIn(r) = Holds(c) /\ GoneIn(r) = Takes(c) /\ BuiltIn(r, m) = Builds(c)
    /\ \A i \in Nat : i # m => BuiltIn(r, i) = BuiltIn(s, i) /\ (BuiltIn(s, i) # None => r[i] = s[i])
    /\ StackedIn(s) /\ Sound(c) => StackedIn(r)

LEMMA GoesOn ==
    ASSUME NEW s \in Seq(CallType), s # <<>>, NEW c \in CallType, NEW m, m = Len(s),
           NEW r, r = [s EXCEPT ![m] = c]
    PROVE  Replaced(s, c, m, r)
<1>2. m \in Nat \ {0}
  BY StackTop
<1>3. /\ r \in Seq(CallType) /\ Len(r) = m
      /\ \A i \in 1..m : r[i] = IF i = m THEN c ELSE s[i]
  <2>1. m \in 1..Len(s)
    BY <1>2
  <2>2. /\ [s EXCEPT ![m] = c] \in Seq(CallType)
        /\ Len([s EXCEPT ![m] = c]) = Len(s)
        /\ \A i \in 1..Len(s) : [s EXCEPT ![m] = c][i] = IF i = m THEN c ELSE s[i]
    BY <2>1, ExceptSeq
  <2> QED
    BY <1>2, <2>2
<1>4. r # <<>> /\ r[m] = c
  BY <1>3, SeqParts
<1>5. KeptIn(r) = Holds(c) /\ GoneIn(r) = Takes(c) /\ BuiltIn(r, m) = Builds(c)
  BY <1>3, <1>4, StackTop
<1>6. ASSUME NEW i \in Nat, i # m
      PROVE  BuiltIn(r, i) = BuiltIn(s, i) /\ (BuiltIn(s, i) # None => r[i] = s[i])
  BY <1>2, <1>3, <1>6 DEF BuiltIn
<1>7. ASSUME StackedIn(s), Sound(c)
      PROVE  StackedIn(r)
  <2> SUFFICES ASSUME NEW i \in 1..m
               PROVE  /\ i < m <=> r[i].step = "wait"
                      /\ r[i].step = "undo" => Taken(r[i].area)
    BY <1>3 DEF StackedIn
  <2>1. CASE i = m
    BY <1>3, <1>7, <2>1 DEF Sound
  <2>2. CASE i # m
    BY <1>2, <1>3, <1>7, <2>2 DEF StackedIn
  <2> QED
    BY <2>1, <2>2
<1> QED
  BY <1>2, <1>3, <1>4, <1>5, <1>6, <1>7, Zenon DEF Replaced

\* The innermost call returns v to the one that waits for it, the e-th.
Returned(s, v, m, e, r) ==
    /\ r \in Seq(CallType) /\ r # <<>> /\ Len(r) = e /\ e \in Nat \ {0} /\ m = e + 1
    /\ s[e] \in CallType /\ s[e].step = "wait"
    /\ r[e] \in CallType /\ r[e].step = "given" /\ r[e].cur = v /\ r[e].addr = s[e].addr
    /\ KeptIn(r) = v /\ GoneIn(r) = <<>>
    /\ BuiltIn(s, e) = s[e].addr /\ BuiltIn(r, e) = s[e].addr /\ BuiltIn(r, m) = None
    /\ \A i \in Nat : i # e /\ i # m =>
          BuiltIn(r, i) = BuiltIn(s, i) /\ (BuiltIn(s, i) # None => r[i] = s[i])
    /\ StackedIn(r)

LEMMA Ends ==
    ASSUME NEW s \in Seq(CallType), Len(s) # 1, s # <<>>, StackedIn(s), NEW e, e = Len(s) - 1,
           NEW v \in Addresses \cup {Slab, None},
           NEW c, c = [s[e] EXCEPT !.step = "given", !.cur = v], NEW r, r = [Front(s) EXCEPT ![e] = c]
    PROVE  Returned(s, v, Len(s), e, r)
<1>1. Len(s) \in Nat \ {0} /\ \A i \in 1..Len(s) : s[i] \in CallType
  BY SeqParts
<1>2. PICK m \in Nat \ {0, 1} : m = Len(s)
  BY <1>1
<1>3. e \in 1..m /\ e \in Nat \ {0} /\ e = m - 1 /\ e # m /\ e < m
  BY <1>2
<1>4. s[e] \in CallType /\ s[e].step = "wait" /\ BuiltIn(s, e) = s[e].addr
  BY <1>1, <1>2, <1>3, StackTop
<1>5. c \in CallType /\ c.step = "given" /\ c.cur = v /\ c.addr = s[e].addr
  BY <1>4 DEF CallType
<1>6. PICK f : f = Front(s)
  OBVIOUS
<1>7. f \in Seq(CallType) /\ Len(f) = e /\ \A i \in 1..e : f[i] = s[i]
  BY <1>2, <1>3, <1>6, FrontFacts
<1>8. /\ r \in Seq(CallType) /\ Len(r) = e
      /\ \A i \in 1..e : r[i] = IF i = e THEN c ELSE s[i]
  <2>1. f \in Seq(CallType) /\ e \in 1..Len(f)
    BY <1>3, <1>7
  <2>2. /\ [f EXCEPT ![e] = c] \in Seq(CallType)
        /\ Len([f EXCEPT ![e] = c]) = Len(f)
        /\ \A i \in 1..Len(f) : [f EXCEPT ![e] = c][i] = IF i = e THEN c ELSE f[i]
    BY <1>5, <2>1, ExceptSeq
  <2>3. r = [f EXCEPT ![e] = c]
    BY <1>6
  <2> QED
    BY <1>7, <2>2, <2>3
<1>9. r # <<>> /\ r[e] = c
  BY <1>3, <1>8, SeqParts
<1>10. KeptIn(r) = Holds(c) /\ GoneIn(r) = Takes(c) /\ BuiltIn(r, e) = Builds(c)
  <2>1. KeptIn(r) = Holds(c) /\ GoneIn(r) = Takes(c)
    BY <1>8, <1>9 DEF KeptIn, GoneIn, Holds, Takes
  <2>2. e \in 1..Len(r)
    BY <1>3, <1>8
  <2>3. BuiltIn(r, e) = Builds(c)
    BY <1>9, <2>2 DEF BuiltIn, Builds
  <2> QED
    BY <2>1, <2>3
<1>11. /\ r \in Seq(CallType) /\ r # <<>> /\ Len(r) = e
       /\ \A i \in 1..e : r[i] = IF i = e THEN c ELSE s[i]
       /\ r[e] = c /\ KeptIn(r) = v /\ GoneIn(r) = <<>> /\ BuiltIn(r, e) = s[e].addr
  <2>1. Holds(c) = v /\ Takes(c) = <<>> /\ Builds(c) = s[e].addr
    BY <1>5 DEF Holds, Takes, Builds, Active
  <2> QED
    BY <1>8, <1>9, <1>10, <2>1
<1>12. BuiltIn(r, m) = None
  BY <1>3, <1>11 DEF BuiltIn
<1>13. ASSUME NEW i \in Nat, i # e, i # m
       PROVE  BuiltIn(r, i) = BuiltIn(s, i) /\ (BuiltIn(s, i) # None => r[i] = s[i])
  BY <1>2, <1>3, <1>11, <1>13 DEF BuiltIn
<1>14. StackedIn(r)
  <2> SUFFICES ASSUME NEW i \in 1..e
               PROVE  /\ i < e <=> r[i].step = "wait"
                      /\ r[i].step = "undo" => Taken(r[i].area)
    BY <1>11 DEF StackedIn
  <2>1. CASE i = e
    BY <1>5, <1>11, <2>1
  <2>2. CASE i # e
    <3>1. i < e /\ i \in 1..Len(s) /\ i < Len(s) /\ r[i] = s[i]
      BY <1>2, <1>3, <1>11, <2>2
    <3> QED
      BY <3>1 DEF StackedIn
  <2> QED
    BY <2>1, <2>2
<1>15. m = e + 1 /\ r[e] \in CallType
  BY <1>3, <1>5, <1>11
<1> QED
  BY <1>2, <1>3, <1>4, <1>5, <1>11, <1>12, <1>13, <1>14, <1>15 DEF Returned

\* A call begins, the m-th.
Pushed(s, c, m, r) ==
    /\ r \in Seq(CallType) /\ r # <<>> /\ Len(r) = m /\ m \in Nat \ {0} /\ r[m] = c
    /\ KeptIn(r) = Holds(c) /\ GoneIn(r) = Takes(c)
    /\ BuiltIn(s, m) = None /\ BuiltIn(r, m) = Builds(c)
    /\ \A i \in Nat : i # m => BuiltIn(r, i) = BuiltIn(s, i) /\ (BuiltIn(s, i) # None => r[i] = s[i])
    /\ (\A i \in 1..Len(s) : s[i].step = "wait") /\ Sound(c) => StackedIn(r)

LEMMA Starts ==
    ASSUME NEW s \in Seq(CallType), NEW c \in CallType, NEW r, r = Append(s, c), NEW m, m = Len(s) + 1
    PROVE  Pushed(s, c, m, r)
<1>1. PICK k \in Nat : k = Len(s)
  BY SeqParts
<1>2. /\ r \in Seq(CallType) /\ Len(r) = k + 1
      /\ \A i \in 1..(k + 1) : r[i] = IF i <= k THEN s[i] ELSE c
  BY <1>1, PushFacts
<1>3. m = k + 1 /\ r[m] = c /\ m \in Nat \ {0}
  BY <1>1, <1>2
<1>4. r # <<>>
  BY <1>2, SeqParts
<1>5. KeptIn(r) = Holds(c) /\ GoneIn(r) = Takes(c) /\ BuiltIn(r, m) = Builds(c)
  BY <1>2, <1>3, <1>4, StackTop
<1>6. BuiltIn(s, m) = None
  BY <1>1, <1>3 DEF BuiltIn
<1>7. ASSUME NEW i \in Nat, i # m
      PROVE  BuiltIn(r, i) = BuiltIn(s, i) /\ (BuiltIn(s, i) # None => r[i] = s[i])
  BY <1>1, <1>2, <1>3, <1>7 DEF BuiltIn
<1>8. ASSUME \A i \in 1..Len(s) : s[i].step = "wait", Sound(c)
      PROVE  StackedIn(r)
  <2> SUFFICES ASSUME NEW i \in 1..m
               PROVE  /\ i < m <=> r[i].step = "wait"
                      /\ r[i].step = "undo" => Taken(r[i].area)
    BY <1>2, <1>3 DEF StackedIn
  <2>1. CASE i = m
    BY <1>3, <1>8, <2>1 DEF Sound
  <2>2. CASE i # m
    BY <1>1, <1>2, <1>3, <1>8, <2>2
  <2> QED
    BY <2>1, <2>2
<1> QED
  BY <1>1, <1>2, <1>3, <1>4, <1>5, <1>6, <1>7, <1>8 DEF Pushed

(****************************************************************************)
(* The frames.                                                              *)
(****************************************************************************)
LEMMA HolderKinds ==
    /\ \A x \in Addresses, j \in Nat \ {0} : <<"area", x, j>> \in Holders
    /\ \A t \in Tasks, j \in Nat \ {0} : <<"undo", t, j>> \in Holders
    /\ \A h \in Holders : \/ \E x \in Addresses, j \in Nat \ {0} : h = <<"area", x, j>>
                          \/ \E t \in Tasks, j \in Nat \ {0} : h = <<"undo", t, j>>
BY DEF Holders

LEMMA Places ==
    /\ DOMAIN FrameAt = Holders
    /\ \A x \in Addresses, j \in Nat \ {0} : FrameAt[<<"area", x, j>>] = Entry(PagesOf(x), j)
    /\ \A t \in Tasks, j \in Nat \ {0} : FrameAt[<<"undo", t, j>>] = Entry(GoneIn(stack[t]), j)
BY HolderKinds DEF FrameAt

LEMMA PlacesNext ==
    /\ DOMAIN FrameAt' = Holders
    /\ \A x \in Addresses, j \in Nat \ {0} : FrameAt'[<<"area", x, j>>] = Entry(PagesOf(x)', j)
    /\ \A t \in Tasks, j \in Nat \ {0} : FrameAt'[<<"undo", t, j>>] = Entry(GoneIn(stack'[t]), j)
BY HolderKinds DEF FrameAt

\* Frames stay where they are, if an area comes or goes at x it is without any.
LEMMA FramesStay ==
    ASSUME Framed, free' = free, NEW x,
           \A z \in Addresses : z # x => PagesOf(z)' = PagesOf(z),
           \A j \in Nat \ {0} : \/ Entry(PagesOf(x)', j) = Entry(PagesOf(x), j)
                                \/ Entry(PagesOf(x)', j) \notin Frames /\ Entry(PagesOf(x), j) \notin Frames,
           \A t \in Tasks : GoneIn(stack'[t]) = GoneIn(stack[t])
    PROVE  Framed'
<1>1. PICK f : f = FrameAt
  OBVIOUS
<1>2. PICK g : g = FrameAt'
  OBVIOUS
<1>3. DOMAIN f = Holders /\ DOMAIN g = Holders /\ Unique(f, Frames, Frames \ free)
  BY <1>1, <1>2, Places, PlacesNext DEF Framed
<1>4. ASSUME NEW h \in Holders
      PROVE  g[h] = f[h] \/ (g[h] \notin Frames /\ f[h] \notin Frames)
  <2>1. CASE \E z \in Addresses, j \in Nat \ {0} : h = <<"area", z, j>>
    <3>1. PICK z \in Addresses, j \in Nat \ {0} : h = <<"area", z, j>>
      BY <2>1
    <3>2. f[h] = Entry(PagesOf(z), j) /\ g[h] = Entry(PagesOf(z)', j)
      BY <1>1, <1>2, <3>1, Places, PlacesNext
    <3>3. CASE z = x
      BY <3>2, <3>3
    <3>4. CASE z # x
      BY <3>2, <3>4
    <3> QED
      BY <3>3, <3>4
  <2>2. CASE \E t \in Tasks, j \in Nat \ {0} : h = <<"undo", t, j>>
    BY <1>1, <1>2, <2>2, Places, PlacesNext
  <2> QED
    BY <2>1, <2>2, HolderKinds
<1>5. Unique(g, Frames, Frames \ free)
  BY <1>3, <1>4 DEF Unique
<1> QED
  BY <1>2, <1>5 DEF Framed, Unique

\* The frames of the area at x are what task t is to free, or it has freed what it was to.
LEMMA FramesTaken ==
    ASSUME Framed, NEW t \in Tasks, NEW x \in Addresses,
           \A z \in Addresses : z # x => PagesOf(z)' = PagesOf(z),
           \A u \in Tasks : u # t => GoneIn(stack'[u]) = GoneIn(stack[u]),
           NEW m \in Nat, m = Len(GoneIn(stack[t])), \A i \in 1..m : GoneIn(stack[t])[i] \in Frames,
           free' = free \cup {GoneIn(stack[t])[i] : i \in 1..m},
           \/ PagesOf(x)' = <<>> /\ GoneIn(stack'[t]) = PagesOf(x)
           \/ PagesOf(x)' = PagesOf(x) /\ GoneIn(stack'[t]) = <<>>
    PROVE  Framed'
<1>1. PICK f : f = FrameAt
  OBVIOUS
<1>2. PICK g : g = FrameAt'
  OBVIOUS
<1>3. DOMAIN f = Holders /\ DOMAIN g = Holders /\ Unique(f, Frames, Frames \ free)
  BY <1>1, <1>2, Places, PlacesNext DEF Framed
<1> DEFINE A(j) == <<"area", x, j>>
           U(j) == <<"undo", t, j>>
           D == {A(j) : j \in Nat \ {0}} \cup {U(j) : j \in Nat \ {0}}
<1>4. \A j \in Nat \ {0} : A(j) \in Holders /\ U(j) \in Holders
  BY HolderKinds
<1>5. ASSUME NEW j \in Nat \ {0}
      PROVE  f[A(j)] = Entry(PagesOf(x), j) /\ f[U(j)] = Entry(GoneIn(stack[t]), j)
  BY <1>1, Places
<1>6. ASSUME NEW j \in Nat \ {0}
      PROVE  g[A(j)] = Entry(PagesOf(x)', j) /\ g[U(j)] = Entry(GoneIn(stack'[t]), j)
  BY <1>2, PlacesNext
<1>7. \A j \in Nat \ {0} : Entry(<<>>, j) = None
  BY DEF Entry
<1>8. \/ \A j \in Nat \ {0} : g[A(j)] = None /\ g[U(j)] = f[A(j)]
      \/ \A j \in Nat \ {0} : g[A(j)] = f[A(j)] /\ g[U(j)] = None
  BY <1>5, <1>6, <1>7
<1>9. \A j, k \in Nat \ {0} : /\ A(j) = A(k) => j = k
                              /\ A(j) # U(k)
  OBVIOUS
<1>10. /\ \A v \in free' \ free : \E j \in Nat \ {0} : f[U(j)] = v
       /\ \A j \in Nat \ {0} : f[U(j)] \in Frames => f[U(j)] \in free'
  <2>1. \A i \in 1..m : i \in Nat \ {0} /\ Entry(GoneIn(stack[t]), i) = GoneIn(stack[t])[i]
    BY DEF Entry
  <2>2. \A j \in Nat \ {0} : j \in 1..m \/ Entry(GoneIn(stack[t]), j) = None
    BY DEF Entry
  <2>3. None \notin Frames
    BY Constants
  <2>4. ASSUME NEW v \in free' \ free
        PROVE  \E j \in Nat \ {0} : f[U(j)] = v
    <3>1. PICK i \in 1..m : v = GoneIn(stack[t])[i]
      BY <2>4
    <3>2. f[U(i)] = Entry(GoneIn(stack[t]), i)
      BY <1>5, <2>1
    <3> QED
      BY <2>1, <3>1, <3>2
  <2>5. ASSUME NEW j \in Nat \ {0}, f[U(j)] \in Frames
        PROVE  f[U(j)] \in free'
    <3>1. f[U(j)] = Entry(GoneIn(stack[t]), j)
      BY <1>5
    <3>2. j \in 1..m
      BY <2>2, <2>3, <2>5, <3>1
    <3> QED
      BY <2>1, <3>1, <3>2
  <2> HIDE DEF U
  <2> QED
    BY <2>4, <2>5
<1>11. ASSUME NEW h \in Holders, h \notin D
       PROVE  g[h] = f[h]
  <2>1. CASE \E z \in Addresses, j \in Nat \ {0} : h = <<"area", z, j>>
    <3>1. PICK z \in Addresses, j \in Nat \ {0} : h = <<"area", z, j>>
      BY <2>1
    <3>2. z # x
      BY <1>11, <3>1
    <3> QED
      BY <1>1, <1>2, <3>1, <3>2, Places, PlacesNext
  <2>2. CASE \E u \in Tasks, j \in Nat \ {0} : h = <<"undo", u, j>>
    <3>1. PICK u \in Tasks, j \in Nat \ {0} : h = <<"undo", u, j>>
      BY <2>2
    <3>2. u # t
      BY <1>11, <3>1
    <3> QED
      BY <1>1, <1>2, <3>1, <3>2, Places, PlacesNext
  <2> QED
    BY <2>1, <2>2, HolderKinds
<1>12. None \notin Frames
  BY Constants
<1> HIDE DEF A, U
<1>13. \A h \in D : \E j \in Nat \ {0} : h = A(j) \/ h = U(j)
  OBVIOUS
<1>14. \A j \in Nat \ {0} : A(j) \in D /\ U(j) \in D
  OBVIOUS
<1>15. D \subseteq Holders
  BY <1>4
<1> HIDE DEF D
\* What a place of the two has, the area's place had.
<1>16. \A h \in D : g[h] \in Frames => \E j \in Nat \ {0} : f[A(j)] = g[h]
  BY <1>8, <1>12, <1>13
<1>17. \A j \in Nat \ {0} : f[A(j)] \in Frames => \E h \in D : g[h] = f[A(j)]
  BY <1>8, <1>14
<1>18. \A h, k \in D : g[h] \in Frames /\ g[h] = g[k] => h = k
  <2> SUFFICES ASSUME NEW h \in D, NEW k \in D, g[h] \in Frames, g[h] = g[k]
               PROVE  h = k
    OBVIOUS
  <2>1. PICK i \in Nat \ {0} : h = A(i) \/ h = U(i)
    BY <1>13
  <2>2. PICK j \in Nat \ {0} : k = A(j) \/ k = U(j)
    BY <1>13
  <2>3. f[A(i)] = g[h] /\ f[A(j)] = g[k] /\ (h = A(i) <=> k = A(j))
    BY <1>8, <1>9, <1>12, <2>1, <2>2
  <2>4. A(i) = A(j)
    BY <1>3, <1>4, <2>3 DEF Unique
  <2>5. i = j
    BY <1>9, <2>4
  <2> QED
    BY <2>1, <2>2, <2>3, <2>5
<1>19. \A j \in Nat \ {0} : f[A(j)] \in Frames => f[A(j)] \in Frames \ free'
  <2> SUFFICES ASSUME NEW j \in Nat \ {0}, f[A(j)] \in Frames, f[A(j)] \in free'
               PROVE  FALSE
    OBVIOUS
  <2>1. f[A(j)] \notin free
    BY <1>3, <1>4 DEF Unique
  <2>2. PICK i \in Nat \ {0} : f[U(i)] = f[A(j)]
    BY <1>10, <2>1
  <2> QED
    BY <1>3, <1>4, <1>9, <2>2 DEF Unique
<1>20. PICK L : L = Frames \ free
  OBVIOUS
<1>21. PICK M : M = Frames \ free'
  OBVIOUS
<1>22. M \subseteq L
  BY <1>20, <1>21
<1>23. Unique(g, Frames, M)
  <2>1. \A h \in D : g[h] \in Frames => g[h] \in M /\ (g[h] \in L => \E k \in D : f[k] = g[h])
    BY <1>14, <1>16, <1>19, <1>21
  <2>2. \A v \in Frames : v \in M /\ v \notin L => \E h \in D : g[h] = v
    BY <1>22
  <2>3. \A v \in Frames : v \in L /\ v \notin M => \E h \in D : f[h] = v
    BY <1>10, <1>14, <1>20, <1>21
  <2>4. \A h \in D : f[h] \in Frames /\ f[h] \in M => \E k \in D : g[k] = f[h]
    BY <1>10, <1>13, <1>17, <1>21
  <2>5. DOMAIN g = DOMAIN f /\ D \subseteq DOMAIN f /\ Unique(f, Frames, L)
    BY <1>3, <1>15, <1>20
  <2>6. \A h \in DOMAIN f \ D : g[h] = f[h]
    BY <1>3, <1>11
  <2> QED
    <3>1. Exchange(f, g, Frames, L, M, D)
      BY <1>18, <2>1, <2>2, <2>3, <2>4, <2>5, <2>6, Zenon DEF Exchange
    <3> QED
      BY <3>1, Moved
<1> QED
  BY <1>2, <1>21, <1>23 DEF Framed, Unique

\* One more frame for the area at x.
LEMMA FramesGiven ==
    ASSUME Framed, NEW x \in Addresses, NEW page \in Frames, page \in free, free' = free \ {page},
           \A z \in Addresses : z # x => PagesOf(z)' = PagesOf(z),
           \A t \in Tasks : GoneIn(stack'[t]) = GoneIn(stack[t]),
           NEW m \in Nat, m = Len(PagesOf(x)), Len(PagesOf(x)') = m + 1,
           \A i \in 1..(m + 1) : PagesOf(x)'[i] = IF i <= m THEN PagesOf(x)[i] ELSE page
    PROVE  Framed'
<1>1. PICK f : f = FrameAt
  OBVIOUS
<1>2. PICK g : g = FrameAt'
  OBVIOUS
<1>3. DOMAIN f = Holders /\ DOMAIN g = Holders /\ Unique(f, Frames, Frames \ free)
  BY <1>1, <1>2, Places, PlacesNext DEF Framed
<1>4. PICK k : k = <<"area", x, m + 1>>
  OBVIOUS
<1>5. k \in Holders /\ f[k] = None /\ g[k] = page
  <2>1. m + 1 \in Nat \ {0} /\ ~(m + 1 <= m) /\ m + 1 \in 1..(m + 1)
    OBVIOUS
  <2>2. f[k] = Entry(PagesOf(x), m + 1) /\ g[k] = Entry(PagesOf(x)', m + 1)
    BY <1>1, <1>2, <1>4, <2>1, Places, PlacesNext
  <2>3. k \in Holders
    BY <1>4, <2>1, HolderKinds
  <2> QED
    BY <2>1, <2>2, <2>3 DEF Entry
<1>6. ASSUME NEW h \in Holders, h # k
      PROVE  g[h] = f[h]
  <2>1. CASE \E z \in Addresses, j \in Nat \ {0} : h = <<"area", z, j>>
    <3>1. PICK z \in Addresses, j \in Nat \ {0} : h = <<"area", z, j>>
      BY <2>1
    <3>2. f[h] = Entry(PagesOf(z), j) /\ g[h] = Entry(PagesOf(z)', j)
      BY <1>1, <1>2, <3>1, Places, PlacesNext
    <3>3. CASE z = x
      <4>1. j # m + 1
        BY <1>4, <1>6, <3>1, <3>3
      <4>2. (j <= m <=> j <= m + 1) /\ (j <= m => j \in 1..(m + 1))
        BY <4>1
      <4> QED
        BY <3>2, <3>3, <4>2 DEF Entry
    <3>4. CASE z # x
      BY <3>2, <3>4
    <3> QED
      BY <3>3, <3>4
  <2>2. CASE \E t \in Tasks, j \in Nat \ {0} : h = <<"undo", t, j>>
    BY <1>1, <1>2, <2>2, Places, PlacesNext
  <2> QED
    BY <2>1, <2>2, HolderKinds
<1>7. Unique(g, Frames, (Frames \ free) \cup {page})
  BY <1>3, <1>5, <1>6, Constants DEF Unique
<1>8. Frames \ free' = (Frames \ free) \cup {page}
  OBVIOUS
<1> QED
  BY <1>2, <1>7, <1>8 DEF Framed, Unique

(****************************************************************************)
(* The steps.                                                               *)
(****************************************************************************)
LEMMA InvLinked ==
    ASSUME Inv
    PROVE  Linked /\ ListFacts
<1>1. Linked
  BY DEF Inv, TypeOK, Linked
<1> QED
  BY <1>1, HasFacts

LEMMA StackFacts ==
    ASSUME Inv, NEW t \in Tasks
    PROVE  stack[t] \in Seq(CallType) /\ StackedIn(stack[t]) /\ Depth(t) = Len(stack[t])
BY DEF Inv, TypeOK, Stacked, Depth

\* The innermost call of a task, and the area it builds, which nobody else has.
LEMMA MineFacts ==
    ASSUME Inv, NEW t \in Tasks, stack[t] # <<>>, Active(Inner(t)),
           NEW d, d = Depth(t), NEW x, x = Inner(t).addr, NEW a, a = Mine(t), NEW c, c = Inner(t)
    PROVE  /\ d \in Nat \ {0} /\ c = stack[t][d] /\ c \in CallType /\ Sound(c)
           /\ x \in Addresses /\ a \in Listed /\ a.addr = x /\ Has(x) /\ AreaAt(x) = a
           /\ <<"call", t, d>> \in Owners /\ Title[<<"call", t, d>>] = x
           /\ \A o \in Owners : Title[o] = x => o = <<"call", t, d>>
           /\ Fits(c, a)
           /\ d > 1 /\ (c.step \in {"lock", "fail"} \/ Mapping(c)) => Stocked(a)
           /\ ~replaced => Shows(<<"call", t, d>>, a)
<1>1. stack[t] \in Seq(CallType) /\ StackedIn(stack[t]) /\ d = Len(stack[t])
  BY StackFacts
<1>2. c = stack[t][d]
  BY DEF Inner
<1>3. d \in Nat \ {0} /\ c \in CallType /\ Sound(c) /\ BuiltIn(stack[t], d) = Builds(c)
  BY <1>1, <1>2, StackTop
<1>4. x \in Addresses /\ Builds(c) = x
  BY <1>3, CallParts DEF Builds
<1>5. PICK o : o = <<"call", t, d>>
  OBVIOUS
<1>6. o \in Owners /\ Title[o] = x
  BY <1>3, <1>4, <1>5, OwnerKinds, Titles
<1>7. Linked /\ Owned /\ ListFacts
  BY InvLinked DEF Inv
<1>8. Has(x) /\ \A p \in Owners : Title[p] = x => p = o
  BY <1>4, <1>6, <1>7, OwnedFacts
<1>9. a = AreaAt(x) /\ a \in Listed /\ a.addr = x
  BY <1>7, <1>8 DEF ListFacts, Mine
<1>10. Serves(o, a) /\ (~replaced => Shows(o, a))
  BY <1>4, <1>6, <1>9 DEF Inv, Served, Right
<1>11. o[1] = "call" /\ Caller(o) = c /\ o[3] = d
  BY <1>2, <1>5 DEF Caller
<1>12. Fits(c, a) /\ (d > 1 /\ (c.step \in {"lock", "fail"} \/ Mapping(c)) => Stocked(a))
  BY <1>10, <1>11 DEF Serves
<1> QED
  BY <1>2, <1>3, <1>4, <1>5, <1>6, <1>8, <1>9, <1>10, <1>12

\* The innermost call of task t, which builds area a at x, goes on as c and leaves b there.
Works(t, c, d, x, a, b) ==
    /\ stack[t] # <<>> /\ Active(Inner(t)) /\ Holds(Inner(t)) = None
    /\ d = Depth(t) /\ x = Inner(t).addr /\ a = Mine(t)
    /\ Becomes(t, c) /\ c \in CallType /\ Active(c) /\ c.step # "wait" /\ c.addr = x
    /\ Holds(c) \notin Addresses
    /\ Linked' /\ Elsewhere(x) /\ Has(x)' /\ AreaAt(x)' = b /\ b.array = a.array
    /\ Fits(c, b) /\ (d > 1 /\ (c.step \in {"lock", "fail"} \/ Mapping(c)) => Stocked(b))
    /\ ~replaced' => \A p \in Span(b) : \/ p - b.addr < Len(b.frames) /\ pte'[p] = b.frames[p - b.addr + 1]
                                        \/ pte'[p] = None /\ (Mapping(c) => p >= c.cur)
    /\ ~replaced' => ~replaced /\ \A z \in Listed : z.addr # x => \A p \in Span(z) : pte'[p] = pte[p]
    /\ (\A u \in Tasks : GoneIn(stack'[u]) = GoneIn(stack[u])) => Framed'
    /\ Tabled'
    /\ pte' \in [Addresses -> Frames \cup {Lent, None}] /\ present' \subseteq Tables /\ free' \subseteq Frames
    /\ ptLock' \in Tasks \cup {None} /\ strained' \in BOOLEAN /\ replaced' \in BOOLEAN
    /\ live' = live /\ fault' = fault

LEMMA CallWorks ==
    ASSUME Inv, NEW t \in Tasks, NEW c, NEW d, NEW x, NEW a, NEW b, Works(t, c, d, x, a, b)
    PROVE  Inv'
<1> USE DEF Works
<1>1. PICK s \in Seq(CallType) : s = stack[t] /\ s # <<>> /\ StackedIn(s)
  BY StackFacts
<1>2. d \in Nat \ {0} /\ d = Len(s) /\ d = Depth(t)
  BY <1>1, StackTop DEF Depth
<1>3. PICK e : e = Inner(t)
  OBVIOUS
<1>4. PICK o : o = <<"call", t, d>>
  OBVIOUS
<1>5. /\ e = s[d] /\ x \in Addresses /\ Has(x) /\ AreaAt(x) = a
      /\ o \in Owners /\ Title[o] = x
      /\ \A p \in Owners : Title[p] = x => p = o
  BY <1>1, <1>3, <1>4, MineFacts
<1>6. PICK r : r = [s EXCEPT ![d] = c]
  OBVIOUS
<1>7. stack' = [stack EXCEPT ![t] = r]
  BY <1>1, <1>2, <1>6 DEF Becomes
<1>8. Replaced(s, c, d, r)
  BY <1>1, <1>2, <1>6, GoesOn
<1>9. stack \in [Tasks -> Seq(CallType)]
  BY DEF Inv, TypeOK
<1>10. stack' \in [Tasks -> Seq(CallType)] /\ stack'[t] = r /\ \A u \in Tasks \ {t} : stack'[u] = stack[u]
  BY <1>7, <1>8, <1>9 DEF Replaced
<1>11. Builds(c) = x /\ Takes(c) = <<>> /\ Sound(c)
  BY DEF Builds, Takes, Sound, Active
<1>12. KeptIn(s) = None /\ GoneIn(s) = <<>>
  <2>1. Holds(e) = None /\ Takes(e) = <<>>
    BY <1>3 DEF Takes, Active
  <2> HIDE DEF Works
  <2> QED
    BY <1>1, <1>2, <1>5, <2>1, StackTop
<1>13. TypeOK'
  BY <1>10 DEF Inv, TypeOK, Linked
<1>14. Linked /\ Owned /\ Served
  BY InvLinked DEF Inv
<1>15. Stacked'
  BY <1>1, <1>8, <1>10, <1>11 DEF Inv, Stacked, Replaced
<1> DEFINE D == {o, <<"keep", t, 0>>}
<1>16. \A p \in Owners \ D : /\ Title'[p] = Title[p]
                             /\ p[1] = "call" /\ Title[p] # None => Caller(p)' = Caller(p)
  <2>1. \A i \in Nat : <<"call", t, i>> \notin D => i # d
    BY <1>4
  <2>2. \A i \in Nat : <<"call", t, i>> \notin D =>
               /\ BuiltIn(stack'[t], i) = BuiltIn(stack[t], i)
               /\ BuiltIn(stack[t], i) # None => stack'[t][i] = stack[t][i]
    BY <1>1, <1>8, <1>10, <2>1 DEF Replaced
  <2>3. <<"keep", t, 0>> \in D
    OBVIOUS
  <2>4. \A z \in Addresses : ArrayOf(z)' = ArrayOf(z)
    BY <1>5 DEF ArrayOf, Elsewhere
  <2>5. \A z \in Addresses : (z \in live' <=> z \in live)
    OBVIOUS
  <2> HIDE DEF D
  <2>6. Spared(t, D)
    BY <1>10, <2>2, <2>3, <2>4, <2>5 DEF Spared
  <2> QED
    BY <2>6, Bystanders
<1>17. PICK k : k = <<"keep", t, 0>>
  OBVIOUS
<1>18. k \in Owners /\ Title[k] = None /\ Title'[k] = Holds(c) /\ Title'[o] = x
  <2>1. k \in Owners /\ Title[k] = KeptIn(stack[t]) /\ Title'[k] = KeptIn(stack'[t])
    BY <1>17, OwnerKinds, Titles, TitlesNext
  <2>2. Title'[o] = BuiltIn(stack'[t], d)
    BY <1>2, <1>4, TitlesNext
  <2> QED
    BY <1>1, <1>8, <1>10, <1>11, <1>12, <2>1, <2>2 DEF Replaced
<1>19. Right(o)'
  <2>1. o[1] = "call" /\ Caller(o)' = c /\ o[3] = d
    BY <1>4, <1>8, <1>10 DEF Caller, Replaced
  <2>2. Serves(o, b)'
    BY <2>1 DEF Serves
  <2>3. ~replaced' => Shows(o, b)'
    BY <2>1 DEF Shows
  <2> QED
    BY <1>18, <2>2, <2>3 DEF Right
<1>20. Handed(x, D)
  <2>1. D \subseteq Owners /\ D = {o, k} /\ o \in D
    BY <1>5, <1>17, <1>18
  <2> HIDE DEF D
  <2>2. \A p, q \in D : Title'[p] \in Addresses /\ Title'[p] = Title'[q] => p = q
    BY <1>18, <2>1
  <2>3. \A p \in D, z \in Addresses : Title'[p] = z => Has(z)' /\ (z = x \/ \E q \in D : Title[q] = z)
    BY <1>18, <2>1
  <2>4. \A p \in D, z \in Addresses : Title[p] = z /\ Has(z)' => \E q \in D : Title'[q] = z
    BY <1>5, <1>18, <2>1, Constants
  <2>5. \A p \in D : Title'[p] \in Addresses => Right(p)'
    BY <1>18, <1>19, <2>1
  <2>6. /\ Has(x) => \E p \in D : Title[p] = x
        /\ Has(x)' => \E p \in D : Title'[p] = x
    BY <1>5, <1>18, <2>1
  <2>7. \A z \in Addresses \ {x} : (Has(z)' <=> Has(z)) /\ (Has(z) => AreaAt(z)' = AreaAt(z))
    BY DEF Elsewhere
  <2>8. ~replaced' => ~replaced /\ \A z \in Listed : z.addr # x => \A p \in Span(z) : pte'[p] = pte[p]
    OBVIOUS
  <2>9. D \subseteq Owners
    BY <2>1
  <2> HIDE DEF Works
  <2> QED
    BY <1>16, <2>2, <2>3, <2>4, <2>5, <2>6, <2>7, <2>8, <2>9, Zenon DEF Handed
<1>21. Owned' /\ Served'
  BY <1>14, <1>20, Handover
<1>22. Framed'
  <2>1. \A u \in Tasks : GoneIn(stack'[u]) = GoneIn(stack[u])
    BY <1>1, <1>8, <1>10, <1>11, <1>12 DEF Replaced
  <2> QED
    BY <2>1
<1> QED
  BY <1>13, <1>15, <1>21, <1>22 DEF Inv, Linked

\* It does so with its area as it was, and nothing else happens.
LEMMA CallGoesOn ==
    ASSUME Inv, NEW t \in Tasks, stack[t] # <<>>, Active(Inner(t)), Holds(Inner(t)) = None,
           NEW c \in CallType, Becomes(t, c), Active(c), c.step # "wait", c.addr = Inner(t).addr,
           Holds(c) \notin Addresses, Fits(c, Mine(t)),
           c.step \in {"lock", "fail"} \/ Mapping(c) => Inner(t).step \in {"lock", "fail"} \/ Mapping(Inner(t)),
           Mapping(c) => c.cur = c.addr \/ (Mapping(Inner(t)) /\ c.cur = Inner(t).cur),
           ptLock' \in Tasks \cup {None},
           UNCHANGED <<vmlist, pte, present, free, live, strained, replaced, fault>>
    PROVE  Inv'
<1>1. PICK d, x, a : d = Depth(t) /\ x = Inner(t).addr /\ a = Mine(t)
  OBVIOUS
<1>2. /\ x \in Addresses /\ a \in Listed /\ a.addr = x /\ Has(x) /\ AreaAt(x) = a
      /\ d > 1 /\ (Inner(t).step \in {"lock", "fail"} \/ Mapping(Inner(t))) => Stocked(a)
      /\ ~replaced => Shows(<<"call", t, d>>, a)
  BY <1>1, MineFacts
<1>3. Linked /\ Framed /\ Tabled /\ TypeOK
  BY InvLinked DEF Inv
<1>4. Linked' /\ Listed' = Listed /\ \A z : (Has(z)' <=> Has(z)) /\ AreaAt(z)' = AreaAt(z)
  BY <1>3, StayKeeps
<1>5. Elsewhere(x) /\ Has(x)' /\ AreaAt(x)' = a
  BY <1>2, <1>4 DEF Elsewhere
<1>6. ASSUME ~replaced', NEW p \in Span(a)
      PROVE  \/ p - a.addr < Len(a.frames) /\ pte'[p] = a.frames[p - a.addr + 1]
             \/ pte'[p] = None /\ (Mapping(c) => p >= c.cur)
  <2>1. p >= x
    <3>1. a.addr \in Nat /\ \A q : q \in Span(a) <=> q \in Int /\ a.addr <= q /\ q < a.addr + a.n
      BY <1>2, <1>3, AreaFacts
    <3> QED
      BY <1>2, <1>6, <3>1
  <2>2. PICK o : o = <<"call", t, d>>
    OBVIOUS
  <2>3. o[1] = "call" /\ Caller(o) = Inner(t)
    BY <1>1, <2>2 DEF Caller, Inner
  <2>4. \/ p - a.addr < Len(a.frames) /\ pte[p] = a.frames[p - a.addr + 1]
        \/ pte[p] = None /\ (Mapping(Inner(t)) => p >= Inner(t).cur)
    BY <1>2, <1>6, <2>2, <2>3 DEF Shows
  <2> QED
    BY <1>1, <2>1, <2>4
<1>7. (\A u \in Tasks : GoneIn(stack'[u]) = GoneIn(stack[u])) => Framed'
  <2>1. \A z : PagesOf(z)' = PagesOf(z)
    BY <1>4 DEF PagesOf
  <2> QED
    BY <1>3, <2>1, FramesStay
<1>8. Tabled'
  BY <1>3, <1>4 DEF Tabled
<1>9. Works(t, c, d, x, a, a)
  BY <1>1, <1>2, <1>3, <1>4, <1>5, <1>6, <1>7, <1>8 DEF Works, TypeOK
<1> QED
  BY <1>9, CallWorks

\* A call begins in front of those that wait, with a new area or with none.
Starting(t, w, k, c, a, x) ==
    /\ w \in Seq(CallType) /\ k = Len(w) /\ c \in CallType /\ stack' = [stack EXCEPT ![t] = Append(w, c)]
    /\ \A i \in 1..k : w[i].step = "wait"
    /\ \A i \in Nat : BuiltIn(w, i) = BuiltIn(stack[t], i)
    /\ \A i \in Nat : i # k => (BuiltIn(stack[t], i) # None => w[i] = stack[t][i])
    /\ KeptIn(stack[t]) = None /\ GoneIn(stack[t]) = <<>>
    /\ k > 0 => Has(w[k].addr) /\ Bare(AreaAt(w[k].addr)) /\ AreaAt(w[k].addr).n > Ptrs
    /\ c.step \in {"array", "lock", "oops"} /\ (c.step = "lock" => k = 0)
    /\ Linked' /\ Elsewhere(x) /\ ~Has(x) /\ (Has(x)' => Active(c))
    /\ Active(c) => /\ x \in Addresses /\ c.addr = x /\ a \in AreaType /\ Has(x)' /\ AreaAt(x)' = a
                    /\ Fits(c, a) /\ \A i \in 1..Len(a.frames) : a.frames[i] \notin Frames
                    /\ Listed' = Listed \cup {a} /\ Span(a) \subseteq Addresses
                    /\ \A b \in Listed : Span(a) \cap Span(b) = {}
    /\ ~Active(c) => Listed' = Listed
    /\ strained' \in BOOLEAN /\ UNCHANGED <<pte, present, free, ptLock, live, replaced, fault>>

LEMMA CallStarts ==
    ASSUME Inv, NEW t \in Tasks, NEW w, NEW k \in Nat, NEW c, NEW a, NEW x, Starting(t, w, k, c, a, x)
    PROVE  Inv'
<1> USE DEF Starting
<1>1. PICK m \in Nat : m = k + 1
  OBVIOUS
<1>2. PICK r : r = Append(w, c)
  OBVIOUS
<1>3. Pushed(w, c, m, r)
  BY <1>1, <1>2, Starts
<1>4. stack \in [Tasks -> Seq(CallType)]
  BY DEF Inv, TypeOK
<1>5. /\ stack' \in [Tasks -> Seq(CallType)] /\ stack'[t] = r
      /\ \A u \in Tasks \ {t} : stack'[u] = stack[u]
  BY <1>2, <1>3, <1>4 DEF Pushed
<1>6. Linked /\ ListFacts /\ ListFacts' /\ Owned /\ Served
  BY InvLinked, HasFactsNext DEF Inv
<1>7. TypeOK'
  BY <1>5 DEF Inv, TypeOK, Linked
<1>8. Holds(c) = None /\ Takes(c) = <<>> /\ Sound(c)
  BY DEF Holds, Takes, Sound
<1>9. Stacked'
  BY <1>3, <1>5, <1>8 DEF Inv, Stacked, Pushed
<1> DEFINE o == <<"call", t, m>>
           q == <<"call", t, k>>
           h == <<"keep", t, 0>>
           D == {o, q, h}
<1>10. /\ o \in Owners /\ q \in Owners /\ h \in Owners /\ o # q /\ o # h /\ q # h
       /\ o[1] = "call" /\ o[2] = t /\ o[3] = m /\ q[1] = "call" /\ q[2] = t /\ q[3] = k
  BY <1>1, OwnerKinds
<1>11. /\ Title[o] = None /\ Title'[o] = Builds(c) /\ Title[h] = None /\ Title'[h] = None
       /\ Title[q] = BuiltIn(w, k) /\ Title'[q] = BuiltIn(w, k)
  <2>1. /\ Title[o] = BuiltIn(stack[t], m) /\ Title[q] = BuiltIn(stack[t], k)
        /\ Title[h] = KeptIn(stack[t])
    BY Titles
  <2>2. /\ Title'[o] = BuiltIn(r, m) /\ Title'[q] = BuiltIn(r, k)
        /\ Title'[h] = KeptIn(r)
    BY <1>5, TitlesNext
  <2>3. BuiltIn(stack[t], m) = None /\ BuiltIn(stack[t], k) = BuiltIn(w, k) /\ BuiltIn(r, k) = BuiltIn(w, k)
    BY <1>1, <1>3 DEF Pushed
  <2> QED
    BY <1>3, <1>8, <2>1, <2>2, <2>3 DEF Pushed
<1>12. \A p \in Owners \ D : /\ Title'[p] = Title[p]
                             /\ p[1] = "call" /\ Title[p] # None => Caller(p)' = Caller(p)
  <2>1. ASSUME NEW i \in Nat, <<"call", t, i>> \notin D
        PROVE  /\ BuiltIn(stack'[t], i) = BuiltIn(stack[t], i)
               /\ BuiltIn(stack[t], i) # None => stack'[t][i] = stack[t][i]
    <3>1. i # m /\ i # k
      BY <2>1
    <3> QED
      BY <1>3, <1>5, <3>1 DEF Pushed
  <2>2. h \in D
    OBVIOUS
  <2>3. \A z \in Addresses : ArrayOf(z)' = ArrayOf(z) \/ z = x
    BY DEF ArrayOf, Elsewhere
  <2>4. x \in Addresses => ArrayOf(x)' = ArrayOf(x)
    <3>1. CASE Active(c)
      <4>1. Bare(a) \/ Whole(a)
        BY <3>1 DEF Fits, Active
      <4>2. a.array = None
        <5>1. CASE c.step = "array"
          BY <3>1, <5>1 DEF Fits, Bare
        <5>2. CASE c.step = "lock"
          <6>1. Len(a.frames) = a.n /\ (Stocked(a) \/ Borrowed(a))
            BY <3>1, <5>2 DEF Fits, Whole
          <6>2. a.n \in Nat \ {0}
            <7>1. a \in Listed'
              BY <3>1
            <7> QED
              BY <7>1 DEF Linked, Ranged
          <6>3. 1 \in 1..Len(a.frames)
            BY <6>1, <6>2
          <6> QED
            BY <3>1, <6>1, <6>3 DEF Stocked, Borrowed, AllFrames
        <5> QED
          BY <3>1, <5>1, <5>2 DEF Active
      <4> QED
        BY <3>1, <4>2 DEF ArrayOf
    <3>2. CASE ~Active(c)
      BY <3>2 DEF ArrayOf
    <3> QED
      BY <3>1, <3>2
  <2>5. \A z \in Addresses : ArrayOf(z)' = ArrayOf(z)
    BY <2>3, <2>4
  <2> HIDE DEF D
  <2> QED
    <3>1. Spared(t, D)
      BY <1>5, <2>1, <2>2, <2>5 DEF Spared
    <3> QED
      BY <3>1, Bystanders
<1>13. Title'[o] \in Addresses => Right(o)'
  <2> SUFFICES ASSUME Active(c)
               PROVE  Right(o)'
    BY <1>11, Constants DEF Builds
  <2>1. Caller(o)' = c
    BY <1>3, <1>5, <1>10 DEF Caller, Pushed
  <2>2. Serves(o, a)'
    BY <1>1, <1>10, <2>1 DEF Serves, Mapping
  <2>3. ~replaced => \A p \in Span(a) : pte[p] = None
    BY DEF Inv, Tabled
  <2>4. ~replaced' => Shows(o, a)'
    BY <1>10, <2>1, <2>3 DEF Shows, Mapping
  <2>5. Title'[o] = x
    BY <1>11 DEF Builds
  <2> QED
    BY <2>2, <2>4, <2>5 DEF Right
<1>14. ASSUME BuiltIn(w, k) # None
       PROVE  /\ BuiltIn(w, k) \in Addresses /\ BuiltIn(w, k) # x /\ Has(BuiltIn(w, k)) /\ Right(q)'
  <2>1. k \in 1..k /\ BuiltIn(w, k) = w[k].addr
    BY <1>14 DEF BuiltIn
  <2>2. PICK y : y = w[k].addr
    OBVIOUS
  <2>3. PICK b : b = AreaAt(y)
    OBVIOUS
  <2>4. Has(y) /\ Bare(b) /\ b.n > Ptrs /\ y \in Addresses /\ y # x
    BY <1>6, <2>1, <2>2, <2>3 DEF ListFacts
  <2>5. AreaAt(y)' = b /\ b \in Listed /\ b.addr = y
    BY <1>6, <2>3, <2>4 DEF Elsewhere, ListFacts
  <2>6. Title[q] = y /\ Title'[q] = y
    BY <1>11, <2>1, <2>2
  <2>7. Serves(q, b) /\ (~replaced => Shows(q, b))
    BY <1>6, <1>10, <2>3, <2>4, <2>6 DEF Served, Right
  <2>8. Caller(q)' = w[k] /\ w[k].step = "wait"
    <3>1. Caller(q)' = r[k]
      BY <1>5, <1>10 DEF Caller
    <3>2. k # m
      BY <1>1
    <3> QED
      BY <1>3, <1>14, <2>1, <3>1, <3>2 DEF Pushed
  <2>9. Serves(q, b)'
    BY <1>10, <2>4, <2>8 DEF Serves, Fits, Mapping
  <2>10. ~replaced' => Shows(q, b)'
    BY <1>10, <2>7, <2>8 DEF Shows, Mapping
  <2>11. Right(q)'
    BY <2>5, <2>6, <2>9, <2>10 DEF Right
  <2> QED
    BY <2>1, <2>2, <2>4, <2>11
<1> HIDE DEF o, q, h
<1>15. Handed(x, D)
  <2>1. D \subseteq Owners
    BY <1>10
  <2>2. \A z \in Addresses \ {x} : (Has(z)' <=> Has(z)) /\ (Has(z) => AreaAt(z)' = AreaAt(z))
    BY DEF Elsewhere
  <2>3. Has(x) => \E p \in D : Title[p] = x
    OBVIOUS
  <2>4. Has(x)' => \E p \in D : Title'[p] = x
    BY <1>11 DEF Builds
  <2>5. \A p, z \in D : Title'[p] \in Addresses /\ Title'[p] = Title'[z] => p = z
    BY <1>10, <1>11, <1>14, Constants DEF Builds
  <2>6. \A p \in D, z \in Addresses : Title'[p] = z => Has(z)' /\ (z = x \/ \E y \in D : Title[y] = z)
    <3>1. Builds(c) = x \/ Builds(c) = None
      BY DEF Builds
    <3>2. Builds(c) \in Addresses => Has(x)' /\ Builds(c) = x
      BY Constants DEF Builds
    <3>3. BuiltIn(w, k) \in Addresses => \A z : z = BuiltIn(w, k) => Has(z)'
      BY <1>14, Constants DEF Elsewhere
    <3> QED
      BY <1>11, <3>1, <3>2, <3>3, Constants
  <2>7. \A p \in D, z \in Addresses : Title[p] = z /\ Has(z)' => \E y \in D : Title'[y] = z
    BY <1>11, Constants
  <2>8. ~replaced' => ~replaced /\ \A b \in Listed : b.addr # x => \A p \in Span(b) : pte'[p] = pte[p]
    OBVIOUS
  <2>9. \A p \in D : Title'[p] \in Addresses => Right(p)'
    BY <1>11, <1>13, <1>14, Constants
  <2> HIDE DEF D
  <2> QED
    BY <1>12, <2>1, <2>2, <2>3, <2>4, <2>5, <2>6, <2>7, <2>8, <2>9, Zenon DEF Handed
<1>16. Owned' /\ Served'
  BY <1>6, <1>15, Handover
<1>17. Framed'
  <2>1. \A z \in Addresses : z # x => PagesOf(z)' = PagesOf(z)
    BY DEF PagesOf, Elsewhere
  <2>2. \A u \in Tasks : GoneIn(stack'[u]) = GoneIn(stack[u])
    BY <1>3, <1>5, <1>8 DEF Pushed
  <2>3. ASSUME NEW j \in Nat \ {0}
        PROVE  \/ Entry(PagesOf(x)', j) = Entry(PagesOf(x), j)
               \/ Entry(PagesOf(x)', j) \notin Frames /\ Entry(PagesOf(x), j) \notin Frames
    <3>1. PagesOf(x) = <<>>
      BY DEF PagesOf
    <3>2. Entry(PagesOf(x), j) = None
      BY <3>1 DEF Entry
    <3>3. CASE Active(c)
      <4>1. PagesOf(x)' = a.frames
        BY <3>3 DEF PagesOf
      <4>2. Entry(a.frames, j) \notin Frames
        <5>1. Len(a.frames) \in Nat
          BY SeqParts DEF AreaType
        <5> QED
          BY <3>3, <5>1, Constants DEF Entry
      <4> QED
        BY <3>2, <4>1, <4>2, Constants
    <3>4. CASE ~Active(c)
      BY <3>1, <3>4 DEF PagesOf
    <3> QED
      BY <3>3, <3>4
  <2> QED
    BY <2>1, <2>2, <2>3, FramesStay DEF Inv
<1>18. Tabled'
  <2>1. Listed \subseteq Listed'
    BY DEF Active
  <2> QED
    BY <2>1 DEF Inv, Tabled
<1> QED
  BY <1>7, <1>9, <1>16, <1>17, <1>18 DEF Inv, Linked

\* An area that is unmapped leaves nothing behind, and the others as they were.
LEMMA UnmapFacts ==
    ASSUME Inv, NEW a \in Listed, pte' = Unmapped(a)
    PROVE  /\ pte' \in [Addresses -> Frames \cup {Lent, None}]
           /\ \A b \in Listed : b # a => \A p \in Span(b) : pte'[p] = pte[p]
           /\ \A p \in Addresses : pte'[p] = None \/ pte'[p] = pte[p]
           /\ \A p \in Span(a) : pte'[p] = None
<1>1. pte \in [Addresses -> Frames \cup {Lent, None}]
  BY DEF Inv, TypeOK
<1>2. pte' = [p \in Addresses |-> IF p \in a.addr..(a.addr + a.n) THEN None ELSE pte[p]]
  BY DEF Unmapped
<1>3. Linked
  BY InvLinked
<1>4. /\ a.addr \in Nat /\ a.n \in Nat \ {0} /\ Limit(a) = a.addr + a.n + 1 /\ Span(a) \subseteq Addresses
      /\ \A p : p \in Span(a) <=> p \in Int /\ a.addr <= p /\ p < a.addr + a.n
  BY <1>3, AreaFacts
<1>5. ASSUME NEW b \in Listed, b # a, NEW p \in Span(b)
      PROVE  pte'[p] = pte[p]
  <2>1. /\ b.addr \in Nat /\ b.n \in Nat \ {0} /\ Limit(b) = b.addr + b.n + 1 /\ p \in Addresses
        /\ p \in Int /\ b.addr <= p /\ p < b.addr + b.n
    BY <1>3, <1>5, AreaFacts
  <2>2. Limit(a) <= b.addr \/ Limit(b) <= a.addr
    BY <1>3, <1>5, Areas
  <2>3. ~(p \in a.addr..(a.addr + a.n))
    BY <1>4, <2>1, <2>2
  <2> QED
    BY <1>2, <2>1, <2>3
<1>6. \A p \in Span(a) : pte'[p] = None
  BY <1>2, <1>4
<1> QED
  BY <1>1, <1>2, <1>5, <1>6

\* An area is taken off the list, to be freed by task t: its array is what t then holds.
LEMMA TakesDown ==
    ASSUME Inv, NEW t \in Tasks, NEW o \in Owners, NEW d \in Nat, NEW x \in Addresses,
           NEW a, a = AreaAt(x), Title[o] = x,
           o \in {<<"call", t, d>>, <<"keep", t, 0>>, <<"user", x, 0>>},
           NEW r \in Seq(CallType), stack' = [stack EXCEPT ![t] = r],
           KeptIn(r) = a.array, GoneIn(r) = a.frames, StackedIn(r),
           KeptIn(stack[t]) # None => o = <<"keep", t, 0>>,
           \A i \in Nat : <<"call", t, i>> # o =>
               BuiltIn(r, i) = BuiltIn(stack[t], i) /\ (BuiltIn(stack[t], i) # None => r[i] = stack[t][i]),
           o = <<"call", t, d>> => BuiltIn(r, d) = None,
           live' = IF o = <<"user", x, 0>> THEN live \ {x} ELSE live,
           vmlist' = Removed(a), pte' = Unmapped(a),
           NEW m \in Nat, m = Len(GoneIn(stack[t])), \A i \in 1..m : GoneIn(stack[t])[i] \in Frames,
           free' = free \cup {GoneIn(stack[t])[i] : i \in 1..m},
           UNCHANGED <<present, ptLock, strained, replaced, fault>>
    PROVE  Inv'
<1>1. Linked /\ ListFacts /\ Owned /\ Served
  BY InvLinked DEF Inv
<1>2. /\ Has(x) /\ a \in Listed /\ a.addr = x
      /\ \A p \in Owners : Title[p] = x => p = o
  BY <1>1, OwnedFacts DEF ListFacts
<1>3. Linked' /\ Elsewhere(x) /\ Listed' = Listed \ {a} /\ ~Has(x)'
  BY <1>1, <1>2, RemoveKeeps
<1>4. ListFacts'
  BY <1>3, HasFactsNext
<1>5. /\ pte' \in [Addresses -> Frames \cup {Lent, None}]
      /\ \A b \in Listed : b # a => \A p \in Span(b) : pte'[p] = pte[p]
      /\ \A p \in Addresses : pte'[p] = None \/ pte'[p] = pte[p]
      /\ \A p \in Span(a) : pte'[p] = None
  BY <1>2, UnmapFacts
<1>6. stack \in [Tasks -> Seq(CallType)]
  BY DEF Inv, TypeOK
<1>7. /\ stack' \in [Tasks -> Seq(CallType)] /\ stack'[t] = r
      /\ \A u \in Tasks \ {t} : stack'[u] = stack[u]
  BY <1>6
<1>8. TypeOK'
  <2>1. free' \subseteq Frames /\ live' \subseteq Addresses
    BY DEF Inv, TypeOK
  <2> QED
    BY <1>3, <1>5, <1>7, <2>1 DEF Inv, TypeOK, Linked
<1>9. Stacked'
  BY <1>7 DEF Inv, Stacked
<1> DEFINE h == <<"keep", t, 0>>
           g == <<"area", x, 0>>
           D == {o, h, g}
<1>10. h \in Owners /\ g \in Owners /\ g # o /\ g # h
  <2>1. g[1] = "area" /\ h[1] = "keep" /\ o[1] \in {"call", "keep", "user"}
    OBVIOUS
  <2>2. h \in Owners /\ g \in Owners
    BY OwnerKinds
  <2> HIDE DEF g, h
  <2> QED
    BY <2>1, <2>2
<1>11. PICK z : z = a.array
  OBVIOUS
<1>12. Title[g] = z /\ Title'[g] = None /\ Title'[h] = z
  <2>1. Title[g] = ArrayOf(x) /\ Title'[g] = ArrayOf(x)' /\ Title'[h] = KeptIn(r)
    BY <1>7, Titles, TitlesNext
  <2> QED
    BY <1>2, <1>3, <1>11, <2>1 DEF ArrayOf
<1>13. o # h => Title'[o] = None /\ Title[h] = None
  <2>1. Title[h] = KeptIn(stack[t])
    BY Titles
  <2>2. CASE o = <<"call", t, d>>
    BY <1>7, <2>1, <2>2, TitlesNext
  <2>3. CASE o = <<"user", x, 0>>
    BY <2>1, <2>3, TitlesNext
  <2> QED
    BY <2>2, <2>3
<1>14. \A p \in Owners \ D : /\ Title'[p] = Title[p]
                             /\ p[1] = "call" /\ Title[p] # None => Caller(p)' = Caller(p)
  <2>1. \A i \in Nat : <<"call", t, i>> \notin D =>
           BuiltIn(stack'[t], i) = BuiltIn(stack[t], i) /\ (BuiltIn(stack[t], i) # None => stack'[t][i] = stack[t][i])
    BY <1>7
  <2>2. h \in D
    OBVIOUS
  <2>3. \A y \in Addresses : <<"area", y, 0>> \notin D => ArrayOf(y)' = ArrayOf(y)
    <3>1. \A y \in Addresses : <<"area", y, 0>> \notin D => y # x
      OBVIOUS
    <3> HIDE DEF D
    <3> QED
      BY <1>3, <3>1 DEF ArrayOf, Elsewhere
  <2>4. \A y \in Addresses : <<"user", y, 0>> \notin D => (y \in live' <=> y \in live)
    OBVIOUS
  <2> HIDE DEF D
  <2>6. Spared(t, D)
    BY <1>7, <2>1, <2>2, <2>3, <2>4 DEF Spared
  <2> QED
    BY <2>6, Bystanders
<1>15. ASSUME z \in Addresses
       PROVE  z # x /\ Has(z)' /\ Right(h)'
  <2>1. Has(z) /\ z # x
    BY <1>1, <1>2, <1>10, <1>12, <1>15, OwnedFacts
  <2>2. PICK b : b = AreaAt(z)
    OBVIOUS
  <2>3. Has(z)' /\ AreaAt(z)' = b /\ b \in Listed /\ b # a
    BY <1>1, <1>2, <1>3, <1>15, <2>1, <2>2 DEF Elsewhere, ListFacts
  <2>4. Serves(g, b) /\ (~replaced => Shows(g, b))
    BY <1>1, <1>10, <1>12, <1>15, <2>2 DEF Served, Right
  <2>5. Serves(h, b)'
    BY <2>4 DEF Serves
  <2>6. ~replaced' => Shows(h, b)'
    BY <1>5, <2>3, <2>4 DEF Shows
  <2> QED
    BY <1>12, <2>1, <2>3, <2>5, <2>6 DEF Right
<1> HIDE DEF h, g
<1>16. Handed(x, D)
  <2>1. D \subseteq Owners
    BY <1>10
  <2>2. \A y \in Addresses \ {x} : (Has(y)' <=> Has(y)) /\ (Has(y) => AreaAt(y)' = AreaAt(y))
    BY <1>3 DEF Elsewhere
  <2>3. Has(x) => \E p \in D : Title[p] = x
    OBVIOUS
  <2>4. Has(x)' => \E p \in D : Title'[p] = x
    BY <1>3
  <2>5. \A p \in D : p = h \/ Title'[p] = None
    BY <1>12, <1>13
  <2>6. \A p, q \in D : Title'[p] \in Addresses /\ Title'[p] = Title'[q] => p = q
    BY <2>5, Constants
  <2>7. \A p \in D, y \in Addresses : Title'[p] = y => Has(y)' /\ (y = x \/ \E q \in D : Title[q] = y)
    <3> SUFFICES ASSUME NEW p \in D, NEW y \in Addresses, Title'[p] = y
                 PROVE  Has(y)' /\ \E q \in D : Title[q] = y
      OBVIOUS
    <3>1. y = z
      BY <1>12, <2>5, Constants
    <3> QED
      BY <1>12, <1>15, <3>1
  <2>8. \A p \in D, y \in Addresses : Title[p] = y /\ Has(y)' => \E q \in D : Title'[q] = y
    <3> SUFFICES ASSUME NEW p \in D, NEW y \in Addresses, Title[p] = y, Has(y)'
                 PROVE  \E q \in D : Title'[q] = y
      OBVIOUS
    <3>1. y # x
      BY <1>3
    <3>2. p = g
      BY <1>13, <3>1, Constants
    <3> QED
      BY <1>12, <3>2
  <2>9. ~replaced' => ~replaced /\ \A b \in Listed : b.addr # x => \A p \in Span(b) : pte'[p] = pte[p]
    BY <1>2, <1>5
  <2>10. \A p \in D : Title'[p] \in Addresses => Right(p)'
    BY <1>12, <1>15, <2>5, Constants
  <2> HIDE DEF D
  <2> QED
    BY <1>14, <2>1, <2>2, <2>3, <2>4, <2>6, <2>7, <2>8, <2>9, <2>10, Zenon DEF Handed
<1>17. Owned' /\ Served'
  BY <1>1, <1>3, <1>16, Handover
<1>18. Framed'
  <2>1. \A y \in Addresses : y # x => PagesOf(y)' = PagesOf(y)
    BY <1>3 DEF PagesOf, Elsewhere
  <2>2. \A u \in Tasks : u # t => GoneIn(stack'[u]) = GoneIn(stack[u])
    BY <1>7
  <2>3. PagesOf(x)' = <<>> /\ GoneIn(stack'[t]) = PagesOf(x)
    BY <1>2, <1>3, <1>7 DEF PagesOf
  <2>4. Framed
    BY DEF Inv
  <2> QED
    BY <2>1, <2>2, <2>3, <2>4, FramesTaken
<1>19. Tabled'
  <2> SUFFICES ASSUME ~replaced, NEW p \in Addresses
               PROVE  /\ (\A b \in Listed' : p \notin Span(b)) => pte'[p] = None
                      /\ pte'[p] # None => TableOf(p) \in present
    BY DEF Tabled, Span, TableOf
  <2>1. /\ (\A b \in Listed : p \notin Span(b)) => pte[p] = None
        /\ pte[p] # None => TableOf(p) \in present
    BY DEF Inv, Tabled
  <2>2. CASE p \in Span(a)
    BY <1>5, <2>2
  <2>3. CASE p \notin Span(a)
    BY <1>3, <1>5, <2>1, <2>3
  <2> QED
    BY <2>2, <2>3
<1> QED
  BY <1>3, <1>8, <1>9, <1>17, <1>18, <1>19 DEF Inv, Linked

\* What an answer makes of the stack.
Answered(t, v, d, r) ==
    /\ r \in Seq(CallType) /\ stack' = [stack EXCEPT ![t] = r] /\ StackedIn(r) /\ GoneIn(r) = <<>>
    /\ d \in Nat \ {0} /\ KeptIn(r) = (IF d = 1 THEN None ELSE v) /\ BuiltIn(r, d) = None
    /\ live' = IF d = 1 /\ v # None THEN live \cup {v} ELSE live
    /\ \A i \in Nat : i # d => BuiltIn(r, i) = BuiltIn(stack[t], i)
    /\ \A i \in Nat : i # d /\ i # d - 1 => (BuiltIn(stack[t], i) # None => r[i] = stack[t][i])
    /\ d = 1 => BuiltIn(r, d - 1) = None
    /\ d # 1 => /\ stack[t][d - 1].step = "wait" /\ r[d - 1].step = "given" /\ r[d - 1].cur = v
                /\ BuiltIn(r, d - 1) \in Addresses

LEMMA AnswerFacts ==
    ASSUME Inv, NEW t \in Tasks, stack[t] # <<>>, NEW v \in Addresses \cup {Slab, None}, Answer(t, v),
           NEW d, d = Depth(t)
    PROVE  \E r : Answered(t, v, d, r)
<1>1. PICK s : s = stack[t]
  OBVIOUS
<1>2. s \in Seq(CallType) /\ s # <<>> /\ StackedIn(s) /\ d = Len(s) /\ d \in Nat \ {0}
  BY <1>1, StackFacts, StackTop
<1>3. CASE d = 1
  <2>1. stack' = [stack EXCEPT ![t] = <<>>] /\ live' = IF v = None THEN live ELSE live \cup {v}
    BY <1>3 DEF Answer
  <2>2. <<>> \in Seq(CallType) /\ Len(<<>>) = 0
    OBVIOUS
  <2>3. StackedIn(<<>>) /\ GoneIn(<<>>) = <<>> /\ KeptIn(<<>>) = None /\ \A i \in Nat : BuiltIn(<<>>, i) = None
    BY <2>2 DEF StackedIn, GoneIn, KeptIn, BuiltIn
  <2>4. \A i \in Nat : i # d => BuiltIn(s, i) = None
    BY <1>2, <1>3 DEF BuiltIn
  <2> QED
    <3>1. Answered(t, v, 1, <<>>)
      BY <1>1, <1>3, <2>1, <2>2, <2>3, <2>4 DEF Answered
    <3> QED
      BY <1>3, <3>1
<1>4. CASE d # 1
  <2>1. PICK e : e = Len(s) - 1
    OBVIOUS
  <2>2. PICK c : c = [s[e] EXCEPT !.step = "given", !.cur = v]
    OBVIOUS
  <2>3. PICK r : r = [Front(s) EXCEPT ![e] = c]
    OBVIOUS
  <2>4. Returned(s, v, Len(s), e, r)
    <3>1. Len(s) # 1
      BY <1>2, <1>4
    <3> QED
      BY <1>2, <2>1, <2>2, <2>3, <3>1, Ends
  <2>5. e = d - 1
    BY <1>2, <2>1
  <2>6. stack' = [stack EXCEPT ![t] = r] /\ live' = live
    BY <1>1, <1>2, <1>4, <2>1, <2>2, <2>3 DEF Answer
  <2>7. BuiltIn(r, e) \in Addresses
    BY <2>4, CallParts DEF Returned
  <2>8. \A i \in Nat : i # d => BuiltIn(r, i) = BuiltIn(s, i)
    BY <1>2, <2>4 DEF Returned
  <2>9. \A i \in Nat : i # d /\ i # e => (BuiltIn(s, i) # None => r[i] = s[i])
    BY <1>2, <2>4 DEF Returned
  <2>10. /\ r \in Seq(CallType) /\ StackedIn(r) /\ GoneIn(r) = <<>> /\ KeptIn(r) = v /\ BuiltIn(r, d) = None
         /\ s[e].step = "wait" /\ r[e].step = "given" /\ r[e].cur = v
    BY <1>2, <2>4 DEF Returned
  <2> QED
    BY <1>1, <1>2, <1>4, <2>5, <2>6, <2>7, <2>8, <2>9, <2>10 DEF Answered
<1> QED
  BY <1>3, <1>4

\* The one that waits for the answer has its area as it was.
LEMMA Waiter ==
    ASSUME Inv, NEW t \in Tasks, NEW v \in Addresses \cup {None}, NEW d, NEW r, Answered(t, v, d, r), d # 1,
           NEW y, y = BuiltIn(r, d - 1), NEW q, q = <<"call", t, d - 1>>
    PROVE  /\ y \in Addresses /\ Has(y) /\ q \in Owners /\ Title[q] = y /\ Title'[q] = y
           /\ Has(y)' /\ AreaAt(y)' = AreaAt(y)
              /\ (~replaced' => ~replaced /\ \A p \in Span(AreaAt(y)) : pte'[p] = pte[p]) => Right(q)'
<1>1. y \in Addresses /\ d \in Nat \ {0} /\ d - 1 \in Nat /\ d - 1 # d
  BY DEF Answered
<1>2. stack \in [Tasks -> Seq(CallType)] /\ Linked /\ Owned /\ Served
  BY InvLinked DEF Inv, TypeOK
<1>3. stack'[t] = r /\ BuiltIn(stack[t], d - 1) = y
  BY <1>1, <1>2 DEF Answered
<1>4. q \in Owners /\ Title[q] = y /\ Title'[q] = y
  BY <1>1, <1>3, OwnerKinds, Titles, TitlesNext
<1>5. Has(y)
  BY <1>1, <1>2, <1>4, OwnedFacts
<1>6. q[1] = "call" /\ Caller(q) = stack[t][d - 1] /\ Caller(q)' = r[d - 1]
  BY <1>3 DEF Caller
<1>7. Caller(q).step = "wait" /\ Caller(q)'.step = "given" /\ Caller(q)'.cur = v
  BY <1>6 DEF Answered
<1>8. PICK b : b = AreaAt(y)
  OBVIOUS
<1>9. Serves(q, b) /\ (~replaced => Shows(q, b))
  BY <1>1, <1>2, <1>4, <1>8 DEF Served, Right
<1>10. Bare(b) /\ b.n > Ptrs
  BY <1>6, <1>7, <1>9 DEF Serves, Fits
<1>11. Serves(q, b)'
  BY <1>6, <1>7, <1>10 DEF Serves, Fits, Mapping
<1>12. ASSUME ~replaced' => ~replaced /\ \A p \in Span(b) : pte'[p] = pte[p], Has(y)', AreaAt(y)' = b
       PROVE  Right(q)'
  <2>1. ~replaced' => Shows(q, b)'
    BY <1>6, <1>7, <1>9, <1>12 DEF Shows, Mapping
  <2> QED
    BY <1>4, <1>11, <1>12, <2>1 DEF Right
<1> QED
  BY <1>1, <1>4, <1>5, <1>8, <1>12

\* A call returns its area, or has given it up and returns nothing.
LEMMA CallAnswers ==
    ASSUME Inv, NEW t \in Tasks, stack[t] # <<>>, Active(Inner(t)), Holds(Inner(t)) = None,
           NEW d, d = Depth(t), NEW x, x = Inner(t).addr, NEW a, a = Mine(t),
           NEW v \in {None, x}, Answer(t, v),
           Linked', Elsewhere(x), Tabled',
           pte' \in [Addresses -> Frames \cup {Lent, None}], present' \subseteq Tables,
           ptLock' \in Tasks \cup {None}, strained' \in BOOLEAN, replaced' \in BOOLEAN,
           ~replaced' => ~replaced /\ \A b \in Listed : b.addr # x => \A p \in Span(b) : pte'[p] = pte[p],
           v = None => /\ ~Has(x)' /\ a.array = None
                       /\ \A i \in 1..Len(a.frames) : a.frames[i] \notin Frames,
           v = x => /\ Has(x)' /\ AreaAt(x)' = a /\ Whole(a) /\ (d # 1 => Stocked(a))
                    /\ ~replaced' => \A p \in Span(a) : pte'[p] = a.frames[p - a.addr + 1],
           UNCHANGED <<free, fault>>
    PROVE  Inv'
<1>1. Linked /\ ListFacts /\ ListFacts' /\ Owned /\ Served
  BY InvLinked, HasFactsNext DEF Inv
<1> DEFINE o == <<"call", t, d>>
           q == <<"call", t, d - 1>>
           h == <<"keep", t, 0>>
           u == <<"user", x, 0>>
           D == {o, q, h, u}
<1>2. /\ d \in Nat \ {0} /\ Inner(t) = stack[t][d] /\ Sound(Inner(t))
      /\ x \in Addresses /\ a \in Listed /\ a.addr = x /\ Has(x) /\ AreaAt(x) = a
      /\ o \in Owners /\ Title[o] = x /\ \A p \in Owners : Title[p] = x => p = o
  BY MineFacts
<1>3. PICK r : Answered(t, v, d, r)
  <2>1. v \in Addresses \cup {Slab, None}
    BY <1>2
  <2> QED
    BY <2>1, AnswerFacts
<1>4. stack \in [Tasks -> Seq(CallType)]
  BY DEF Inv, TypeOK
<1>5. /\ stack' \in [Tasks -> Seq(CallType)] /\ stack'[t] = r
      /\ \A w \in Tasks \ {t} : stack'[w] = stack[w]
  BY <1>3, <1>4 DEF Answered
<1>6. KeptIn(stack[t]) = None /\ GoneIn(stack[t]) = <<>>
  <2>1. stack[t] \in Seq(CallType) /\ d = Len(stack[t])
    BY StackFacts
  <2>2. KeptIn(stack[t]) = Holds(Inner(t)) /\ GoneIn(stack[t]) = Takes(Inner(t))
    BY <1>2, <2>1, StackTop
  <2> QED
    BY <2>2 DEF Takes, Active
<1>7. PICK y : y = BuiltIn(r, d - 1)
  OBVIOUS
<1>8. /\ o \in Owners /\ q \in Owners /\ h \in Owners /\ u \in Owners
      /\ o # q /\ o # h /\ o # u /\ q # h /\ q # u /\ h # u
      /\ u[1] = "user" /\ h[1] = "keep"
  <2>1. d - 1 \in Nat /\ d # d - 1
    BY <1>2
  <2>2. o \in Owners /\ q \in Owners /\ h \in Owners /\ u \in Owners
    BY <1>2, <2>1, OwnerKinds
  <2>3. o[1] = "call" /\ q[1] = "call" /\ h[1] = "keep" /\ u[1] = "user" /\ o[3] = d /\ q[3] = d - 1
    OBVIOUS
  <2> HIDE DEF o, q, h, u
  <2> QED
    BY <2>1, <2>2, <2>3
<1>9. x \notin live
  BY <1>2, <1>8, Titles
<1>10. /\ Title[o] = x /\ Title'[o] = None
       /\ Title[q] = y /\ Title'[q] = y
       /\ Title[h] = None /\ Title'[h] = IF d = 1 THEN None ELSE v
       /\ Title[u] = None /\ Title'[u] = IF d = 1 THEN v ELSE None
  <2>1. d - 1 \in Nat /\ d - 1 # d
    BY <1>2
  <2>2. /\ Title[q] = BuiltIn(stack[t], d - 1) /\ Title[h] = KeptIn(stack[t])
        /\ Title'[o] = BuiltIn(r, d) /\ Title'[q] = y /\ Title'[h] = KeptIn(r)
    BY <1>2, <1>5, <1>7, <2>1, Titles, TitlesNext
  <2>3. Title[u] = None /\ Title'[u] = IF x \in live' THEN x ELSE None
    BY <1>2, <1>9, Titles, TitlesNext
  <2>4. x \in live' <=> d = 1 /\ v = x
    BY <1>2, <1>3, <1>9, Constants DEF Answered
  <2> QED
    BY <1>2, <1>3, <1>6, <1>7, <2>1, <2>2, <2>3, <2>4 DEF Answered
<1>11. d = 1 => y = None
  BY <1>3, <1>7 DEF Answered
<1>12. \A p \in Owners \ D : /\ Title'[p] = Title[p]
                             /\ p[1] = "call" /\ Title[p] # None => Caller(p)' = Caller(p)
  <2>1. ASSUME NEW i \in Nat, <<"call", t, i>> \notin D
        PROVE  /\ BuiltIn(stack'[t], i) = BuiltIn(stack[t], i)
               /\ BuiltIn(stack[t], i) # None => stack'[t][i] = stack[t][i]
    <3>1. i # d /\ i # d - 1
      BY <2>1
    <3> QED
      BY <1>3, <1>5, <3>1 DEF Answered
  <2>2. h \in D
    OBVIOUS
  <2>3. \A z \in Addresses : ArrayOf(z)' = ArrayOf(z)
    <3>1. \A z \in Addresses : z # x => ArrayOf(z)' = ArrayOf(z)
      BY DEF ArrayOf, Elsewhere
    <3>2. ArrayOf(x)' = ArrayOf(x)
      BY <1>2 DEF ArrayOf
    <3> QED
      BY <3>1, <3>2
  <2>4. \A z \in Addresses : <<"user", z, 0>> \notin D => (z \in live' <=> z \in live)
    <3> SUFFICES ASSUME NEW z \in Addresses, <<"user", z, 0>> \notin D
                 PROVE  z \in live' <=> z \in live
      OBVIOUS
    <3>1. z # x
      OBVIOUS
    <3> HIDE DEF D
    <3> QED
      BY <1>3, <3>1 DEF Answered
  <2> HIDE DEF D
  <2>6. Spared(t, D)
    BY <1>5, <2>1, <2>2, <2>3, <2>4 DEF Spared
  <2> QED
    BY <2>6, Bystanders
<1>13. d # 1 => y \in Addresses /\ y # x /\ Has(y) /\ Has(y)' /\ Right(q)'
  <2> SUFFICES ASSUME d # 1
               PROVE  y \in Addresses /\ y # x /\ Has(y) /\ Has(y)' /\ Right(q)'
    OBVIOUS
  <2>1. v \in Addresses \cup {None}
    BY <1>2
  <2>2. /\ y \in Addresses /\ Has(y)
        /\ Has(y)' /\ AreaAt(y)' = AreaAt(y)
              /\ (~replaced' => ~replaced /\ \A p \in Span(AreaAt(y)) : pte'[p] = pte[p]) => Right(q)'
    BY <1>3, <1>7, <2>1, Waiter
  <2>3. y # x
    BY <1>2, <1>8, <1>10
  <2>4. Has(y)' /\ AreaAt(y)' = AreaAt(y) /\ AreaAt(y) \in Listed /\ AreaAt(y).addr # x
    BY <1>1, <2>2, <2>3 DEF Elsewhere, ListFacts
  <2> QED
    BY <2>2, <2>3, <2>4
<1>14. ASSUME NEW p \in {h, u}, v = x, p = h => d # 1
       PROVE  Title'[p] = x => Right(p)'
  <2>1. Serves(p, a)'
    BY <1>8, <1>14 DEF Serves
  <2>2. ~replaced' => Shows(p, a)'
    <3>1. Len(a.frames) = a.n /\ \A z \in Span(a) : z - a.addr < a.n
      <4>1. a.addr \in Nat /\ a.n \in Nat /\ \A z : z \in Span(a) <=> z \in Int /\ a.addr <= z /\ z < a.addr + a.n
        BY <1>1, <1>2, AreaFacts
      <4> QED
        BY <1>14, <4>1 DEF Whole
    <3> QED
      BY <1>14, <3>1 DEF Shows
  <2>3. AreaAt(x)' = a
    BY <1>14
  <2> QED
    BY <2>1, <2>2, <2>3 DEF Right
<1> HIDE DEF o, q, h, u
<1>15. Handed(x, D)
  <2>1. D \subseteq Owners
    BY <1>8
  <2>2. \A z \in Addresses \ {x} : (Has(z)' <=> Has(z)) /\ (Has(z) => AreaAt(z)' = AreaAt(z))
    BY DEF Elsewhere
  <2>3. Has(x) => \E p \in D : Title[p] = x
    BY <1>10
  <2>4. Has(x)' => \E p \in D : Title'[p] = x
    <3>1. Has(x)' => v = x
      OBVIOUS
    <3> QED
      BY <1>2, <1>10, <3>1
  <2>5. \A p, z \in D : Title'[p] \in Addresses /\ Title'[p] = Title'[z] => p = z
    BY <1>10, <1>11, <1>13, Constants
  <2>6. \A p \in D, z \in Addresses : Title'[p] = z => Has(z)' /\ (z = x \/ \E w \in D : Title[w] = z)
    <3>1. v \in Addresses => v = x /\ Has(x)'
      BY Constants
    <3> QED
      BY <1>10, <1>11, <1>13, <3>1, Constants
  <2>7. \A p \in D, z \in Addresses : Title[p] = z /\ Has(z)' => \E w \in D : Title'[w] = z
    <3>1. Has(x)' => v = x
      OBVIOUS
    <3> QED
      BY <1>10, <3>1, Constants
  <2>8. \A p \in D : Title'[p] \in Addresses => Right(p)'
    <3> SUFFICES ASSUME NEW p \in D, Title'[p] \in Addresses
                 PROVE  Right(p)'
      OBVIOUS
    <3>1. CASE p = o
      BY <1>10, <3>1, Constants
    <3>2. CASE p = q
      BY <1>10, <1>11, <1>13, <3>2, Constants
    <3>3. CASE p = h
      <4>1. d # 1 /\ v = x /\ Title'[p] = x
        BY <1>10, <3>3, Constants
      <4> QED
        BY <1>14, <3>3, <4>1
    <3>4. CASE p = u
      <4>1. d = 1 /\ v = x /\ Title'[p] = x
        BY <1>10, <3>4, Constants
      <4> QED
        BY <1>8, <1>14, <3>4, <4>1
    <3> QED
      BY <3>1, <3>2, <3>3, <3>4
  <2> HIDE DEF D
  <2> QED
    BY <1>12, <2>1, <2>2, <2>3, <2>4, <2>5, <2>6, <2>7, <2>8, Zenon DEF Handed
<1>16. Owned' /\ Served'
  BY <1>1, <1>15, Handover
<1>17. Framed'
  <2>1. \A z \in Addresses : z # x => PagesOf(z)' = PagesOf(z)
    BY DEF PagesOf, Elsewhere
  <2>2. \A w \in Tasks : GoneIn(stack'[w]) = GoneIn(stack[w])
    BY <1>3, <1>5, <1>6 DEF Answered
  <2>3. ASSUME NEW j \in Nat \ {0}
        PROVE  \/ Entry(PagesOf(x)', j) = Entry(PagesOf(x), j)
               \/ Entry(PagesOf(x)', j) \notin Frames /\ Entry(PagesOf(x), j) \notin Frames
    <3>1. PagesOf(x) = a.frames
      BY <1>2 DEF PagesOf
    <3>2. CASE v = x
      BY <3>1, <3>2 DEF PagesOf
    <3>3. CASE v = None
      <4>1. PagesOf(x)' = <<>>
        BY <3>3 DEF PagesOf
      <4>2. Len(a.frames) \in Nat
        BY <1>1, <1>2, AreaFacts
      <4>3. Entry(a.frames, j) \notin Frames
        BY <3>3, <4>2, Constants DEF Entry
      <4>4. Entry(<<>>, j) \notin Frames
        BY Constants DEF Entry
      <4> QED
        BY <3>1, <4>1, <4>3, <4>4
    <3> QED
      BY <3>2, <3>3
  <2> QED
    BY <2>1, <2>2, <2>3, FramesStay DEF Inv
<1>18. TypeOK'
  <2>1. live' \subseteq Addresses
    BY <1>2, <1>3 DEF Inv, TypeOK, Answered
  <2> QED
    BY <1>5, <2>1 DEF Inv, TypeOK, Linked
<1>19. Stacked'
  BY <1>3, <1>5 DEF Inv, Stacked, Answered
<1> QED
  BY <1>16, <1>17, <1>18, <1>19 DEF Inv, Linked

\* A task maps a table's worth of its area: it fails, goes on or returns.
LEMMA MapWorks ==
    ASSUME Inv, NEW t \in Tasks, stack[t] # <<>>, Mapping(Inner(t)), NEW tables,
           MapChunk(t, Mine(t), tables),
           \A p \in Addresses : tables[p] = pte[p] \/ tables[p] = None,
           ~replaced' => ~replaced /\ \A p \in Addresses : tables[p] = pte[p],
           present \subseteq present', present' \subseteq Tables, TableOf(Cur(t)) \in present',
           replaced' \in BOOLEAN, UNCHANGED <<vmlist, free, strained, fault>>
    PROVE  Inv'
<1>1. PICK d, x, a, e : d = Depth(t) /\ x = Inner(t).addr /\ a = Mine(t) /\ e = Inner(t)
  OBVIOUS
<1>2. Active(e) /\ Holds(e) = None
  BY <1>1 DEF Active, Holds, Mapping
<1>3. /\ e \in CallType /\ Sound(e)
      /\ x \in Addresses /\ a \in Listed /\ a.addr = x /\ Has(x) /\ AreaAt(x) = a
      /\ Fits(e, a) /\ (d > 1 => Stocked(a))
      /\ ~replaced => Shows(<<"call", t, d>>, a)
      /\ d \in Nat \ {0}
  BY <1>1, <1>2, MineFacts
<1>4. Linked /\ Framed /\ Tabled /\ TypeOK
  BY InvLinked DEF Inv
<1>5. Linked' /\ Listed' = Listed /\ \A z : (Has(z)' <=> Has(z)) /\ AreaAt(z)' = AreaAt(z)
  BY <1>4, StayKeeps
<1>6. Elsewhere(x) /\ Has(x)' /\ AreaAt(x)' = a
  BY <1>3, <1>5 DEF Elsewhere
<1>7. /\ a.addr \in Nat /\ a.n \in Nat \ {0} /\ a.frames \in Seq(Frames \cup {Lent, None})
      /\ \A p : p \in Span(a) <=> p \in Int /\ a.addr <= p /\ p < a.addr + a.n
      /\ Span(a) \subseteq Addresses
  BY <1>3, <1>4, AreaFacts
<1>8. Whole(a) /\ Len(a.frames) = a.n /\ e.cur \in Span(a)
  BY <1>1, <1>3 DEF Fits, Whole
<1>9. \A p \in Span(a) : /\ p - a.addr < Len(a.frames)
                         /\ a.frames[p - a.addr + 1] \in Frames \cup {Lent, None}
  <2> TAKE p \in Span(a)
  <2>1. p - a.addr + 1 \in 1..a.n
    BY <1>7
  <2> QED
    BY <1>7, <1>8, <2>1, SeqParts
<1> DEFINE chunk == Chunk(a, e.cur)
           bad == {q \in chunk : a.frames[q - a.addr + 1] = None}
           done == {q \in chunk : \A b \in bad : q < b}
           rest == Rest(a, e.cur)
<1>10. pte' = [p \in Addresses |-> IF p \in done THEN a.frames[p - a.addr + 1] ELSE tables[p]]
  BY <1>1 DEF MapChunk, Cur
<1>11. /\ chunk \subseteq Span(a) /\ done \subseteq chunk /\ rest \subseteq Span(a)
       /\ \A p \in chunk : TableOf(p) = TableOf(e.cur)
       /\ \A p \in Span(a) : p >= e.cur => p \in chunk \/ p \in rest
       /\ bad = {} => done = chunk
  BY DEF Chunk, Rest
<1>12. \/ bad # {} /\ ptLock' = None /\ Goto(t, "fail") /\ UNCHANGED live
       \/ bad = {} /\ rest = {} /\ ptLock' = None /\ Answer(t, a.addr)
       \/ /\ bad = {} /\ rest # {} /\ ptLock' = t /\ UNCHANGED live
          /\ Becomes(t, [e EXCEPT !.step = "map", !.cur = Min(rest)])
  BY <1>1 DEF MapChunk, Cur
<1> HIDE DEF chunk, bad, done, rest
\* What is mapped then.
<1>13. pte' \in [Addresses -> Frames \cup {Lent, None}]
  <2>1. \A p \in Addresses : tables[p] \in Frames \cup {Lent, None}
    BY <1>4 DEF TypeOK
  <2>2. \A p \in done : a.frames[p - a.addr + 1] \in Frames \cup {Lent, None}
    BY <1>9, <1>11
  <2> QED
    BY <1>10, <2>1, <2>2
<1>14. \A p \in Addresses : pte'[p] = IF p \in done THEN a.frames[p - a.addr + 1] ELSE tables[p]
  BY <1>10
<1>15. ~replaced' => ~replaced /\ \A z \in Listed : z.addr # x => \A p \in Span(z) : pte'[p] = pte[p]
  <2> SUFFICES ASSUME ~replaced', NEW z \in Listed, z.addr # x, NEW p \in Span(z)
               PROVE  pte'[p] = pte[p]
    OBVIOUS
  <2>1. /\ z.addr \in Nat /\ z.n \in Nat \ {0} /\ Limit(z) = z.addr + z.n + 1 /\ p \in Addresses
        /\ p \in Int /\ z.addr <= p /\ p < z.addr + z.n
    BY <1>4, AreaFacts
  <2>2. Limit(a) <= z.addr \/ Limit(z) <= a.addr
    BY <1>3, <1>4, Areas
  <2>3. Limit(a) = a.addr + a.n + 1
    BY DEF Limit
  <2>4. p \notin Span(a)
    BY <1>7, <2>1, <2>2, <2>3
  <2> QED
    BY <1>11, <1>14, <2>1, <2>4
<1>16. Tabled'
  <2> SUFFICES ASSUME ~replaced', NEW p \in Addresses
               PROVE  /\ (\A b \in Listed : p \notin Span(b)) => pte'[p] = None
                      /\ pte'[p] # None => TableOf(p) \in present'
    BY <1>5 DEF Tabled, Span, TableOf
  <2>1. /\ (\A b \in Listed : p \notin Span(b)) => pte[p] = None
        /\ pte[p] # None => TableOf(p) \in present
    BY <1>4 DEF Tabled
  <2>2. CASE p \in done
    BY <1>1, <1>3, <1>11, <2>2 DEF Cur
  <2>3. CASE p \notin done
    BY <1>14, <2>1, <2>3
  <2> QED
    BY <2>2, <2>3
<1>17. ~replaced' => \A p \in Span(a) : \/ pte'[p] = a.frames[p - a.addr + 1]
                                        \/ pte'[p] = None /\ p \notin done /\ p >= e.cur
  <2> SUFFICES ASSUME ~replaced', NEW p \in Span(a)
               PROVE  \/ pte'[p] = a.frames[p - a.addr + 1]
                      \/ pte'[p] = None /\ p \notin done /\ p >= e.cur
    OBVIOUS
  <2>1. PICK o : o = <<"call", t, d>>
    OBVIOUS
  <2>2. o[1] = "call" /\ Caller(o) = e
    BY <1>1, <2>1 DEF Caller, Inner
  <2>3. \/ pte[p] = a.frames[p - a.addr + 1]
        \/ pte[p] = None /\ p >= e.cur
    BY <1>1, <1>3, <2>1, <2>2 DEF Shows
  <2>4. p \in Addresses
    BY <1>7
  <2> QED
    BY <1>14, <2>3, <2>4
<1>18. (\A u \in Tasks : GoneIn(stack'[u]) = GoneIn(stack[u])) => Framed'
  <2>1. \A z : PagesOf(z)' = PagesOf(z)
    BY <1>5 DEF PagesOf
  <2> QED
    BY <1>4, <2>1, FramesStay
<1>19. ASSUME NEW c \in CallType, Becomes(t, c), c.step \in {"fail", "map"}, c.addr = x,
              c.step = "map" => c.cur \in Span(a) /\ \A p \in Span(a) : p >= e.cur /\ p \notin done => p >= c.cur,
              ptLock' \in Tasks \cup {None}, live' = live
       PROVE  Inv'
  <2>1. Active(c) /\ c.step # "wait" /\ Holds(c) \notin Addresses
    BY <1>19, Constants DEF Active, Holds
  <2>2. Fits(c, a)
    BY <1>8, <1>19 DEF Fits, Mapping
  <2>3. ~replaced' => \A p \in Span(a) : \/ p - a.addr < Len(a.frames) /\ pte'[p] = a.frames[p - a.addr + 1]
                                         \/ pte'[p] = None /\ (Mapping(c) => p >= c.cur)
    BY <1>9, <1>17, <1>19 DEF Mapping
  <2>4. Works(t, c, d, x, a, a)
    <3>1. free' \subseteq Frames /\ strained' \in BOOLEAN
      BY <1>4 DEF TypeOK
    <3> QED
      BY <1>1, <1>2, <1>3, <1>5, <1>6, <1>13, <1>15, <1>16, <1>18, <1>19, <2>1, <2>2, <2>3, <3>1 DEF Works
  <2> QED
    BY <2>4, CallWorks
<1>20. CASE bad # {} /\ ptLock' = None /\ Goto(t, "fail") /\ UNCHANGED live
  <2>1. PICK c : c = [e EXCEPT !.step = "fail"]
    OBVIOUS
  <2>2. c \in CallType /\ c.step = "fail" /\ c.addr = x
    BY <1>1, <1>3, <2>1 DEF CallType
  <2>3. Becomes(t, c)
    BY <1>1, <1>20, <2>1 DEF Goto
  <2> QED
    BY <1>19, <1>20, <2>2, <2>3
<1>21. CASE bad = {} /\ rest = {} /\ ptLock' = None /\ Answer(t, a.addr)
  <2>1. ~replaced' => \A p \in Span(a) : pte'[p] = a.frames[p - a.addr + 1]
    BY <1>11, <1>17, <1>21
  <2>2. x # None
    BY <1>3, Constants
  <2>3. strained' \in BOOLEAN
    BY <1>4 DEF TypeOK
  <2> QED
    BY <1>1, <1>2, <1>3, <1>5, <1>6, <1>8, <1>13, <1>15, <1>16, <1>21, <2>1, <2>2, <2>3, CallAnswers
<1>22. CASE /\ bad = {} /\ rest # {} /\ ptLock' = t /\ UNCHANGED live
            /\ Becomes(t, [e EXCEPT !.step = "map", !.cur = Min(rest)])
  <2>1. PICK c : c = [e EXCEPT !.step = "map", !.cur = Min(rest)]
    OBVIOUS
  <2>2. Min(rest) \in rest /\ \A p \in rest : Min(rest) <= p
    <3>1. rest \subseteq Nat
      BY <1>7, <1>11, Constants
    <3> QED
      BY <1>22, <3>1, LeastOf
  <2>3. c \in CallType /\ c.step = "map" /\ c.addr = x /\ c.cur = Min(rest)
    BY <1>1, <1>3, <1>7, <1>11, <2>1, <2>2 DEF CallType
  <2>4. \A p \in Span(a) : p >= e.cur /\ p \notin done => p >= c.cur
    BY <1>7, <1>11, <1>22, <2>2, <2>3
  <2> QED
    BY <1>11, <1>19, <1>22, <2>1, <2>2, <2>3, <2>4
<1> QED
  BY <1>12, <1>20, <1>21, <1>22

\* A step that changes only an area's array or frames leaves the page tables right.
LEMMA StaysTabled ==
    ASSUME Tabled, NEW a, NEW b, b.addr = a.addr, b.n = a.n, Listed' = (Listed \ {a}) \cup {b},
           UNCHANGED <<pte, present, replaced>>
    PROVE  Tabled'
<1> SUFFICES ASSUME ~replaced, NEW p \in Addresses
             PROVE  /\ (\A c \in Listed' : p \notin Span(c)) => pte[p] = None
                    /\ pte[p] # None => TableOf(p) \in present
  BY DEF Tabled, Span, TableOf
<1>1. /\ (\A c \in Listed : p \notin Span(c)) => pte[p] = None
      /\ pte[p] # None => TableOf(p) \in present
  BY DEF Tabled
<1>2. Span(b) = Span(a)
  BY DEF Span
<1> QED
  BY <1>1, <1>2

\* A page is allocated for the innermost call's area.
LEMMA PageGiven ==
    ASSUME Inv, NEW t \in Tasks, AllocPage(t)
    PROVE  Inv'
<1>1. PICK d, x, a, e : d = Depth(t) /\ x = Inner(t).addr /\ a = Mine(t) /\ e = Inner(t)
  OBVIOUS
<1>2. stack[t] # <<>> /\ e.step = "fill" /\ Active(e) /\ Holds(e) = None
  BY <1>1 DEF AllocPage, At, Active, Holds
<1>3. /\ d \in Nat \ {0} /\ e = stack[t][d] /\ e \in CallType
      /\ x \in Addresses /\ a \in Listed /\ a.addr = x /\ Has(x) /\ AreaAt(x) = a
      /\ Fits(e, a)
      /\ ~replaced => Shows(<<"call", t, d>>, a)
  BY <1>1, <1>2, MineFacts
<1>4. Linked /\ Framed /\ Tabled /\ TypeOK
  BY InvLinked DEF Inv
<1>5. PICK page \in free : free' = free \ {page} /\ vmlist' = Update([a EXCEPT !.frames = Append(a.frames, page)])
  BY <1>1 DEF AllocPage
<1>6. page \in Frames
  BY <1>4, <1>5 DEF TypeOK
<1>7. /\ a \in AreaType /\ a.n \in Nat \ {0} /\ Len(a.frames) \in Nat /\ a.frames \in Seq(Frames \cup {Lent, None})
      /\ \A p : p \in Span(a) <=> p \in Int /\ a.addr <= p /\ p < a.addr + a.n
      /\ a.addr \in Nat
  BY <1>3, <1>4, AreaFacts
<1>8. PICK m \in Nat : m = Len(a.frames)
  BY <1>7
<1>9. PICK fs : fs = Append(a.frames, page)
  OBVIOUS
<1>10. /\ fs \in Seq(Frames \cup {Lent, None}) /\ Len(fs) = m + 1
       /\ \A i \in 1..(m + 1) : fs[i] = IF i <= m THEN a.frames[i] ELSE page
  BY <1>6, <1>7, <1>8, <1>9, PushFacts
<1>11. PICK b : b = [a EXCEPT !.frames = fs]
  OBVIOUS
<1>12. /\ b \in AreaType /\ b.addr = a.addr /\ b.n = a.n /\ b.frames = fs
       /\ b.array = a.array /\ b.nr = a.nr
  BY <1>7, <1>10, <1>11 DEF AreaType
<1>13. /\ Linked' /\ Elsewhere(x) /\ Listed' = (Listed \ {a}) \cup {b}
       /\ Has(x)' /\ AreaAt(x)' = b
  <2>1. vmlist' = Update(b) /\ strained' = strained
    BY <1>5, <1>9, <1>11 DEF AllocPage
  <2> QED
    BY <1>3, <1>4, <1>12, <2>1, UpdateKeeps
<1>14. Stocked(a) /\ m < a.n /\ e.cur = x
  BY <1>2, <1>3, <1>8 DEF Fits
<1>15. Stocked(b)
  BY <1>6, <1>8, <1>10, <1>12, <1>14 DEF Stocked, AllFrames
<1>16. PICK c : c = IF m + 1 = a.n THEN [e EXCEPT !.step = "lock"] ELSE e
  OBVIOUS
<1>17. c \in CallType /\ c.step \in {"fill", "lock"} /\ c.addr = x /\ c.cur = x /\ (c.step = "lock" <=> m + 1 = a.n)
  BY <1>1, <1>2, <1>3, <1>14, <1>16 DEF CallType
<1>18. Becomes(t, c)
  <2>1. CASE m + 1 = a.n
    BY <1>1, <1>8, <1>16, <2>1 DEF AllocPage, Goto
  <2>2. CASE m + 1 # a.n
    <3>1. stack' = stack /\ c = stack[t][d]
      BY <1>1, <1>3, <1>8, <1>16, <2>2 DEF AllocPage
    <3>2. stack \in [Tasks -> Seq(CallType)]
      BY <1>4 DEF TypeOK
    <3>3. PICK s \in Seq(CallType) : s = stack[t]
      BY <3>2
    <3>4. [s EXCEPT ![d] = s[d]] = s
      BY <3>3, SeqParts
    <3> QED
      BY <1>1, <3>1, <3>2, <3>3, <3>4 DEF Becomes
  <2> QED
    BY <2>1, <2>2
<1>19. Fits(c, b)
  BY <1>3, <1>7, <1>8, <1>10, <1>12, <1>14, <1>15, <1>17 DEF Fits, Whole, Mapping
<1>20. pte' = pte /\ present' = present /\ replaced' = replaced /\ ptLock' = ptLock /\ live' = live /\ fault' = fault
       /\ strained' = strained
  BY DEF AllocPage
<1>21. ~replaced' => \A p \in Span(b) : \/ p - b.addr < Len(b.frames) /\ pte'[p] = b.frames[p - b.addr + 1]
                                        \/ pte'[p] = None /\ (Mapping(c) => p >= c.cur)
  <2> SUFFICES ASSUME ~replaced, NEW p \in Span(b)
               PROVE  \/ p - b.addr < Len(b.frames) /\ pte'[p] = b.frames[p - b.addr + 1]
                      \/ pte'[p] = None /\ (Mapping(c) => p >= c.cur)
    BY <1>20
  <2>1. p \in Span(a)
    BY <1>12 DEF Span
  <2>2. \/ p - a.addr < m /\ pte[p] = a.frames[p - a.addr + 1]
        \/ pte[p] = None
    BY <1>3, <1>8, <2>1 DEF Shows
  <2>3. p - a.addr < m => p - a.addr < m + 1 /\ p - a.addr + 1 <= m /\ p - a.addr + 1 \in 1..(m + 1)
    BY <1>7, <2>1
  <2>4. p - a.addr < m => p - a.addr < m + 1 /\ fs[p - a.addr + 1] = a.frames[p - a.addr + 1]
    BY <1>10, <2>3
  <2> QED
    BY <1>10, <1>12, <1>17, <1>20, <2>2, <2>4 DEF Mapping
<1>22. (\A u \in Tasks : GoneIn(stack'[u]) = GoneIn(stack[u])) => Framed'
  <2> SUFFICES ASSUME \A u \in Tasks : GoneIn(stack'[u]) = GoneIn(stack[u])
               PROVE  Framed'
    OBVIOUS
  <2>1. PagesOf(x) = a.frames /\ PagesOf(x)' = fs
    BY <1>3, <1>12, <1>13 DEF PagesOf
  <2>2. \A z \in Addresses : z # x => PagesOf(z)' = PagesOf(z)
    BY <1>13 DEF PagesOf, Elsewhere
  <2>3. page \in free /\ free' = free \ {page}
    BY <1>5
  <2> QED
    BY <1>3, <1>4, <1>6, <1>8, <1>10, <2>1, <2>2, <2>3, FramesGiven
<1>23. Tabled'
  BY <1>4, <1>12, <1>13, <1>20, StaysTabled
<1>24. Works(t, c, d, x, a, b)
  <2>1. Active(c) /\ c.step # "wait" /\ Holds(c) \notin Addresses
    BY <1>17, Constants DEF Active, Holds
  <2>2. free' \subseteq Frames
    BY <1>4, <1>5 DEF TypeOK
  <2> QED
    BY <1>1, <1>2, <1>4, <1>12, <1>13, <1>15, <1>17, <1>18, <1>19, <1>20, <1>21, <1>22, <1>23, <2>1, <2>2
       DEF Works, TypeOK
<1> QED
  BY <1>24, CallWorks

\* An area gets the array that the call for it has returned.
LEMMA ArrayTaken ==
    ASSUME Inv, NEW t \in Tasks, ArrayGiven(t)
    PROVE  Inv'
<1>1. PICK d, x, a, e : d = Depth(t) /\ x = Inner(t).addr /\ a = Mine(t) /\ e = Inner(t)
  OBVIOUS
<1>2. PICK v : v = e.cur
  OBVIOUS
<1>3. stack[t] # <<>> /\ e.step = "given" /\ Active(e) /\ v # None /\ Holds(e) = v
  BY <1>1, <1>2 DEF ArrayGiven, At, Active, Holds, Cur
<1>4. PICK o : o = <<"call", t, d>>
  OBVIOUS
<1>5. /\ d \in Nat \ {0} /\ e = stack[t][d] /\ e \in CallType
      /\ x \in Addresses /\ a \in Listed /\ a.addr = x /\ Has(x) /\ AreaAt(x) = a
      /\ o \in Owners /\ Title[o] = x /\ \A p \in Owners : Title[p] = x => p = o
      /\ Fits(e, a)
      /\ ~replaced => Shows(o, a)
  BY <1>1, <1>3, <1>4, MineFacts
<1>6. Linked /\ ListFacts /\ Framed /\ Tabled /\ TypeOK /\ Owned /\ Served
  BY InvLinked DEF Inv
<1>7. a \in AreaType /\ a.n \in Nat \ {0}
  BY <1>5, <1>6, AreaFacts
<1>8. Bare(a) /\ ((v = Slab /\ a.n <= Ptrs) \/ (v \in Addresses /\ a.n > Ptrs))
  BY <1>2, <1>3, <1>5 DEF Fits
<1>9. PICK b : b = [a EXCEPT !.nr = a.n, !.array = v]
  OBVIOUS
<1>10. /\ b \in AreaType /\ b.addr = x /\ b.n = a.n /\ b.frames = <<>>
       /\ b.array = v /\ b.nr = a.n
  BY <1>5, <1>7, <1>8, <1>9 DEF AreaType, Bare
<1>11. vmlist' = Update(b) /\ strained' = strained
  BY <1>1, <1>2, <1>9 DEF ArrayGiven, Cur
<1>12. /\ Linked' /\ Elsewhere(x) /\ Listed' = (Listed \ {a}) \cup {b}
       /\ Has(x)' /\ AreaAt(x)' = b
  BY <1>5, <1>6, <1>10, <1>11, UpdateKeeps
<1>13. PICK c : c = Call("fill", x)
  OBVIOUS
<1>14. c \in CallType /\ c.step = "fill" /\ c.addr = x /\ c.cur = x
  <2>1. Call("fill", x) \in CallType /\ Call("fill", x).step = "fill"
        /\ Call("fill", x).addr = x /\ Call("fill", x).cur = x
    BY <1>5, CallMade DEF CallSteps
  <2> QED
    BY <1>13, <2>1
<1>15. PICK s \in Seq(CallType) : s = stack[t] /\ s # <<>> /\ StackedIn(s) /\ d = Len(s)
  BY <1>1, <1>3, StackFacts
<1>16. PICK r : r = [s EXCEPT ![d] = c]
  OBVIOUS
<1>17. stack' = [stack EXCEPT ![t] = r]
  BY <1>1, <1>5, <1>13, <1>15, <1>16 DEF ArrayGiven, Becomes
<1>18. Replaced(s, c, d, r)
  BY <1>14, <1>15, <1>16, GoesOn
<1>19. stack' \in [Tasks -> Seq(CallType)] /\ stack'[t] = r /\ \A u \in Tasks \ {t} : stack'[u] = stack[u]
  BY <1>6, <1>17, <1>18 DEF TypeOK, Replaced
<1>20. Builds(c) = x /\ Holds(c) = None /\ Takes(c) = <<>> /\ Sound(c) /\ Takes(e) = <<>>
  BY <1>3, <1>14 DEF Builds, Holds, Takes, Sound, Active
<1>21. KeptIn(s) = v /\ GoneIn(s) = <<>>
  BY <1>3, <1>5, <1>15, <1>20, StackTop
<1>22. /\ pte' = pte /\ present' = present /\ free' = free /\ ptLock' = ptLock /\ live' = live
       /\ strained' = strained /\ fault' = fault /\ replaced' = replaced
  BY DEF ArrayGiven
<1> DEFINE k == <<"keep", t, 0>>
           g == <<"area", x, 0>>
           D == {o, k, g}
<1>23. k \in Owners /\ g \in Owners /\ k # o /\ g # o /\ g # k /\ o[1] = "call"
  <2>1. k[1] = "keep" /\ g[1] = "area" /\ o[1] = "call"
    BY <1>4
  <2>2. k \in Owners /\ g \in Owners
    BY <1>5, OwnerKinds
  <2> HIDE DEF k, g
  <2> QED
    BY <2>1, <2>2
<1>24. Title'[o] = x /\ Title[k] = v /\ Title'[k] = None /\ Title[g] = None /\ Title'[g] = v
  <2>1. Title'[o] = BuiltIn(stack'[t], d)
    BY <1>4, <1>5, TitlesNext
  <2>2. Title[k] = KeptIn(stack[t]) /\ Title'[k] = KeptIn(stack'[t])
    BY Titles, TitlesNext
  <2>3. Title[g] = ArrayOf(x) /\ Title'[g] = ArrayOf(x)'
    BY <1>5, Titles, TitlesNext
  <2>4. ArrayOf(x) = None /\ ArrayOf(x)' = v
    BY <1>5, <1>8, <1>10, <1>12 DEF ArrayOf, Bare
  <2> QED
    BY <1>15, <1>18, <1>19, <1>20, <1>21, <2>1, <2>2, <2>3, <2>4 DEF Replaced
<1>25. \A p \in Owners \ D : /\ Title'[p] = Title[p]
                             /\ p[1] = "call" /\ Title[p] # None => Caller(p)' = Caller(p)
  <2>1. \A i \in Nat : <<"call", t, i>> \notin D => i # d
    BY <1>4
  <2>2. \A i \in Nat : <<"call", t, i>> \notin D =>
               /\ BuiltIn(stack'[t], i) = BuiltIn(stack[t], i)
               /\ BuiltIn(stack[t], i) # None => stack'[t][i] = stack[t][i]
    BY <1>15, <1>18, <1>19, <2>1 DEF Replaced
  <2>3. k \in D
    OBVIOUS
  <2>4. \A z \in Addresses : <<"area", z, 0>> \notin D => ArrayOf(z)' = ArrayOf(z)
    <3>1. \A z \in Addresses : <<"area", z, 0>> \notin D => z # x
      OBVIOUS
    <3> HIDE DEF D
    <3> QED
      BY <1>12, <3>1 DEF ArrayOf, Elsewhere
  <2>5. \A z \in Addresses : (z \in live' <=> z \in live)
    BY <1>22
  <2> HIDE DEF D
  <2>6. Spared(t, D)
    BY <1>19, <2>2, <2>3, <2>4, <2>5 DEF Spared
  <2> QED
    BY <2>6, Bystanders
<1>26. Right(o)'
  <2>1. Caller(o)' = c /\ Caller(o) = e
    BY <1>4, <1>5, <1>18, <1>19 DEF Caller, Replaced
  <2>2. Stocked(b)
    BY <1>3, <1>7, <1>8, <1>10, Constants DEF Stocked, AllFrames
  <2>3. Fits(c, b)
    BY <1>7, <1>10, <1>14, <2>2 DEF Fits, Mapping
  <2>4. Serves(o, b)'
    BY <1>14, <1>23, <2>1, <2>3 DEF Serves, Mapping
  <2>5. ~replaced' => Shows(o, b)'
    <3> SUFFICES ASSUME ~replaced, NEW p \in Span(b)
                 PROVE  pte[p] = None
      BY <1>14, <1>22, <1>23, <2>1 DEF Shows, Mapping
    <3>1. p \in Span(a) /\ p >= a.addr /\ p \in Int /\ a.addr \in Int
      <4>1. p \in Span(a)
        BY <1>5, <1>10 DEF Span
      <4> QED
        BY <1>5, <1>6, <4>1, AreaFacts
    <3>2. \/ p - a.addr < Len(a.frames)
          \/ pte[p] = None
      BY <1>5, <3>1 DEF Shows
    <3>3. Len(a.frames) = 0
      BY <1>8 DEF Bare
    <3> QED
      BY <3>1, <3>2, <3>3
  <2> QED
    BY <1>12, <1>24, <2>4, <2>5 DEF Right
<1>27. ASSUME v \in Addresses
       PROVE  Has(v)' /\ v # x /\ Right(g)'
  <2>1. Has(v) /\ v # x
    BY <1>5, <1>6, <1>23, <1>24, <1>27, OwnedFacts
  <2>2. PICK z : z = AreaAt(v)
    OBVIOUS
  <2>3. Has(v)' /\ AreaAt(v)' = z
    BY <1>12, <1>27, <2>1, <2>2 DEF Elsewhere
  <2>4. Serves(k, z) /\ (~replaced => Shows(k, z))
    BY <1>6, <1>23, <1>24, <1>27, <2>2 DEF Served, Right
  <2>5. Serves(g, z)'
    BY <2>4 DEF Serves
  <2>6. ~replaced' => Shows(g, z)'
    BY <1>22, <2>4 DEF Shows
  <2> QED
    BY <1>24, <2>1, <2>3, <2>5, <2>6 DEF Right
<1> HIDE DEF k, g
<1>28. Handed(x, D)
  <2>1. D \subseteq Owners
    BY <1>5, <1>23
  <2>2. \A p, q \in D : Title'[p] \in Addresses /\ Title'[p] = Title'[q] => p = q
    BY <1>24, <1>27, Constants
  <2>3. \A p \in D, z \in Addresses : Title'[p] = z => Has(z)' /\ (z = x \/ \E q \in D : Title[q] = z)
    BY <1>12, <1>24, <1>27, Constants
  <2>4. \A p \in D, z \in Addresses : Title[p] = z /\ Has(z)' => \E q \in D : Title'[q] = z
    BY <1>5, <1>24, Constants
  <2>5. \A p \in D : Title'[p] \in Addresses => Right(p)'
    BY <1>24, <1>26, <1>27, Constants
  <2>6. /\ Has(x) => \E p \in D : Title[p] = x
        /\ Has(x)' => \E p \in D : Title'[p] = x
    BY <1>5, <1>24
  <2>7. \A z \in Addresses \ {x} : (Has(z)' <=> Has(z)) /\ (Has(z) => AreaAt(z)' = AreaAt(z))
    BY <1>12 DEF Elsewhere
  <2>8. ~replaced' => ~replaced /\ \A z \in Listed : z.addr # x => \A p \in Span(z) : pte'[p] = pte[p]
    BY <1>22
  <2> HIDE DEF D
  <2> QED
    BY <1>25, <2>1, <2>2, <2>3, <2>4, <2>5, <2>6, <2>7, <2>8, Zenon DEF Handed
<1>29. Owned' /\ Served'
  BY <1>6, <1>12, <1>28, Handover
<1>30. Framed'
  <2>1. PagesOf(x)' = PagesOf(x)
    BY <1>5, <1>8, <1>10, <1>12 DEF PagesOf, Bare
  <2>2. \A z \in Addresses : z # x => PagesOf(z)' = PagesOf(z)
    BY <1>12 DEF PagesOf, Elsewhere
  <2>3. \A u \in Tasks : GoneIn(stack'[u]) = GoneIn(stack[u])
    BY <1>15, <1>18, <1>19, <1>20, <1>21 DEF Replaced
  <2> QED
    BY <1>6, <1>22, <2>1, <2>2, <2>3, FramesStay
<1>31. Tabled'
  BY <1>5, <1>6, <1>10, <1>12, <1>22, StaysTabled
<1>32. TypeOK'
  BY <1>6, <1>12, <1>19, <1>22 DEF TypeOK, Linked
<1>33. Stacked'
  BY <1>15, <1>18, <1>19, <1>20 DEF Inv, Stacked, Replaced
<1> QED
  BY <1>12, <1>29, <1>30, <1>31, <1>32, <1>33 DEF Inv, Linked

\* vunmap: an area that holds the caller's pages goes.
LEMMA UserUnmaps ==
    ASSUME Inv, NEW t \in Tasks, NEW x \in live, Vunmap(t, x), AreaAt(x).array = None
    PROVE  Inv'
<1>1. Linked /\ ListFacts /\ Framed /\ Tabled /\ TypeOK /\ Owned /\ Served
  BY InvLinked DEF Inv
<1>2. x \in Addresses
  BY <1>1 DEF TypeOK
<1>3. PICK a : a = AreaAt(x)
  OBVIOUS
<1>4. PICK u : u = <<"user", x, 0>>
  OBVIOUS
<1>5. u \in Owners /\ Title[u] = x
  BY <1>2, <1>4, OwnerKinds, Titles
<1>6. /\ Has(x) /\ a \in Listed /\ a.addr = x
      /\ \A p \in Owners : Title[p] = x => p = u
  BY <1>1, <1>2, <1>3, <1>5, OwnedFacts DEF ListFacts
<1>7. a.array = None /\ \A i \in 1..Len(a.frames) : a.frames[i] \notin Frames
  <2>1. Serves(u, a)
    BY <1>1, <1>2, <1>3, <1>5 DEF Served, Right
  <2>2. Whole(a)
    BY <1>4, <2>1 DEF Serves
  <2> QED
    BY <1>3, <2>2 DEF Whole, Stocked, Borrowed
<1>8. /\ vmlist' = Removed(a) /\ pte' = Unmapped(a) /\ live' = live \ {x}
      /\ present' = present /\ free' = free /\ ptLock' = ptLock
      /\ strained' = strained /\ fault' = fault /\ replaced' = replaced
  BY <1>3 DEF Vunmap, Unlink
<1>9. stack' = stack
  <2>1. stack' = [stack EXCEPT ![t] = <<>>] /\ stack[t] = <<>>
    BY DEF Vunmap
  <2> QED
    BY <1>1, <2>1 DEF TypeOK
<1>10. Linked' /\ Elsewhere(x) /\ Listed' = Listed \ {a} /\ ~Has(x)'
  BY <1>1, <1>6, <1>8, RemoveKeeps
<1>11. /\ pte' \in [Addresses -> Frames \cup {Lent, None}]
       /\ \A b \in Listed : b # a => \A p \in Span(b) : pte'[p] = pte[p]
       /\ \A p \in Addresses : pte'[p] = None \/ pte'[p] = pte[p]
       /\ \A p \in Span(a) : pte'[p] = None
  BY <1>6, <1>8, UnmapFacts
<1> DEFINE D == {u}
<1>12. \A p \in Owners \ D : /\ Title'[p] = Title[p]
                             /\ p[1] = "call" /\ Title[p] # None => Caller(p)' = Caller(p)
  <2>1. \A z \in Addresses : ArrayOf(z)' = ArrayOf(z)
    <3>1. ArrayOf(x)' = ArrayOf(x)
      BY <1>3, <1>7, <1>10 DEF ArrayOf
    <3> QED
      BY <1>10, <3>1 DEF ArrayOf, Elsewhere
  <2>2. \A z \in Addresses : <<"user", z, 0>> \notin D => (z \in live' <=> z \in live)
    <3>1. \A z \in Addresses : <<"user", z, 0>> \notin D => z # x
      BY <1>4
    <3> QED
      BY <1>8, <3>1
  <2>3. Spared(t, D)
    BY <1>8, <1>9, <2>1, <2>2 DEF Spared
  <2> QED
    BY <2>3, Bystanders
<1>13. Title'[u] = None
  BY <1>2, <1>4, <1>8, TitlesNext
<1>14. Handed(x, D)
  <2>1. \A p, q \in D : Title'[p] \in Addresses /\ Title'[p] = Title'[q] => p = q
    OBVIOUS
  <2>2. \A p \in D, z \in Addresses : Title'[p] = z => Has(z)' /\ (z = x \/ \E q \in D : Title[q] = z)
    BY <1>13, Constants
  <2>3. \A p \in D, z \in Addresses : Title[p] = z /\ Has(z)' => \E q \in D : Title'[q] = z
    BY <1>5, <1>10
  <2>4. \A p \in D : Title'[p] \in Addresses => Right(p)'
    BY <1>13, Constants
  <2>5. /\ Has(x) => \E p \in D : Title[p] = x
        /\ Has(x)' => \E p \in D : Title'[p] = x
    BY <1>5, <1>10
  <2>6. \A z \in Addresses \ {x} : (Has(z)' <=> Has(z)) /\ (Has(z) => AreaAt(z)' = AreaAt(z))
    BY <1>10 DEF Elsewhere
  <2>7. ~replaced' => ~replaced /\ \A z \in Listed : z.addr # x => \A p \in Span(z) : pte'[p] = pte[p]
    BY <1>6, <1>8, <1>11
  <2>8. D \subseteq Owners
    BY <1>5
  <2> HIDE DEF D
  <2> QED
    BY <1>12, <2>1, <2>2, <2>3, <2>4, <2>5, <2>6, <2>7, <2>8, Zenon DEF Handed
<1>15. Owned' /\ Served'
  BY <1>1, <1>10, <1>14, Handover
<1>16. Framed'
  <2>1. \A z \in Addresses : z # x => PagesOf(z)' = PagesOf(z)
    BY <1>10 DEF PagesOf, Elsewhere
  <2>2. ASSUME NEW j \in Nat \ {0}
        PROVE  \/ Entry(PagesOf(x)', j) = Entry(PagesOf(x), j)
               \/ Entry(PagesOf(x)', j) \notin Frames /\ Entry(PagesOf(x), j) \notin Frames
    <3>1. PagesOf(x) = a.frames /\ PagesOf(x)' = <<>>
      BY <1>3, <1>6, <1>10 DEF PagesOf
    <3>2. Len(a.frames) \in Nat
      BY <1>1, <1>6, AreaFacts
    <3>3. Entry(a.frames, j) \notin Frames
      BY <1>7, <3>2, Constants DEF Entry
    <3>4. Entry(<<>>, j) \notin Frames
      BY Constants DEF Entry
    <3> QED
      BY <3>1, <3>3, <3>4
  <2> QED
    BY <1>1, <1>8, <1>9, <2>1, <2>2, FramesStay
<1>17. Tabled'
  <2> SUFFICES ASSUME ~replaced, NEW p \in Addresses
               PROVE  /\ (\A b \in Listed' : p \notin Span(b)) => pte'[p] = None
                      /\ pte'[p] # None => TableOf(p) \in present
    BY <1>8 DEF Tabled, Span, TableOf
  <2>1. /\ (\A b \in Listed : p \notin Span(b)) => pte[p] = None
        /\ pte[p] # None => TableOf(p) \in present
    BY <1>1 DEF Tabled
  <2>2. CASE p \in Span(a)
    BY <1>11, <2>2
  <2>3. CASE p \notin Span(a)
    BY <1>10, <1>11, <2>1, <2>3
  <2> QED
    BY <2>2, <2>3
<1>18. TypeOK'
  BY <1>1, <1>8, <1>9, <1>10, <1>11 DEF TypeOK, Linked
<1>19. Stacked'
  BY <1>9 DEF Inv, Stacked
<1> QED
  BY <1>10, <1>15, <1>16, <1>17, <1>18, <1>19 DEF Inv, Linked

\* What a task has taken down is freed, its array with it.
LEMMA KfreesArray ==
    ASSUME Inv, NEW t \in Tasks, Release(t), ~(Gone(t).nr > Ptrs)
    PROVE  Inv'
<1>1. PICK d, e, z : d = Depth(t) /\ e = Inner(t) /\ z = Gone(t)
  OBVIOUS
<1>2. stack[t] # <<>> /\ e.step = "undo" /\ e.area = z
  BY <1>1 DEF Release, At, Gone
<1>3. Linked /\ ListFacts /\ Framed /\ Tabled /\ TypeOK /\ Owned /\ Served
  BY InvLinked DEF Inv
<1>4. PICK s \in Seq(CallType) : s = stack[t] /\ s # <<>> /\ StackedIn(s) /\ d = Len(s)
  BY <1>1, <1>2, StackFacts
<1>5. d \in Nat \ {0} /\ e = s[d] /\ e \in CallType /\ Sound(e) /\ z \in AreaType
  <2>1. e = s[d]
    BY <1>1, <1>4 DEF Inner
  <2>2. d \in Nat \ {0} /\ e \in CallType /\ Sound(e)
    BY <1>4, <2>1, StackTop
  <2> QED
    BY <1>2, <2>1, <2>2, CallParts
<1>6. Taken(z)
  BY <1>2, <1>5 DEF Sound
<1>7. PICK y : y = z.array
  OBVIOUS
<1>8. y = Slab /\ y \notin Addresses /\ y # None
  BY <1>1, <1>7, Constants DEF Release
<1>9. KeptIn(s) = y /\ GoneIn(s) = z.frames /\ BuiltIn(s, d) = None
  <2>1. Holds(e) = y /\ Takes(e) = z.frames /\ Builds(e) = None
    BY <1>2, <1>7 DEF Holds, Takes, Builds, Active
  <2> QED
    BY <1>4, <1>5, <2>1, StackTop
<1>10. /\ free' = free \cup {z.frames[i] : i \in 1..z.nr}
       /\ Answer(t, None)
       /\ vmlist' = vmlist /\ pte' = pte /\ present' = present /\ ptLock' = ptLock
       /\ strained' = strained /\ replaced' = replaced /\ fault' = fault
  BY <1>1, <1>7 DEF Release
<1>11. PICK r : Answered(t, None, d, r)
  BY <1>1, <1>2, <1>10, AnswerFacts
<1>12. /\ stack' \in [Tasks -> Seq(CallType)] /\ stack'[t] = r
       /\ \A w \in Tasks \ {t} : stack'[w] = stack[w]
  BY <1>3, <1>11 DEF TypeOK, Answered
<1>13. Linked' /\ Listed' = Listed /\ \A x : (Has(x)' <=> Has(x)) /\ AreaAt(x)' = AreaAt(x)
  BY <1>3, <1>10, StayKeeps
<1>14. live' = live
  BY <1>11 DEF Answered
<1> DEFINE q == <<"call", t, d - 1>>
           h == <<"keep", t, 0>>
           D == {q, h}
<1>15. PICK x : x = BuiltIn(r, d - 1)
  OBVIOUS
<1>16. q \in Owners /\ h \in Owners /\ q # h
  <2>1. q[1] = "call" /\ h[1] = "keep" /\ d - 1 \in Nat
    BY <1>5
  <2>2. q \in Owners /\ h \in Owners
    BY <2>1, OwnerKinds
  <2> HIDE DEF q, h
  <2> QED
    BY <2>1, <2>2
<1>17. Title[q] = x /\ Title'[q] = x /\ Title[h] = y /\ Title'[h] = None
  <2>1. d - 1 \in Nat /\ d - 1 # d
    BY <1>5
  <2>2. /\ Title[q] = BuiltIn(stack[t], d - 1) /\ Title'[q] = x
        /\ Title[h] = KeptIn(stack[t]) /\ Title'[h] = KeptIn(r)
    BY <1>12, <1>15, <2>1, Titles, TitlesNext
  <2>3. KeptIn(r) = None /\ BuiltIn(stack[t], d - 1) = x
    BY <1>11, <1>15, <2>1 DEF Answered
  <2> QED
    BY <1>4, <1>9, <2>2, <2>3
<1>19. ASSUME x \in Addresses
       PROVE  Has(x)' /\ Right(q)'
  <2>1. d # 1
    BY <1>11, <1>15, <1>19, Constants DEF Answered
  <2>2. /\ Has(x)
        /\ Has(x)' /\ AreaAt(x)' = AreaAt(x)
              /\ (~replaced' => ~replaced /\ \A p \in Span(AreaAt(x)) : pte'[p] = pte[p]) => Right(q)'
    BY <1>11, <1>15, <2>1, Waiter
  <2> QED
    BY <1>10, <1>13, <2>2
<1>20. x = None \/ x \in Addresses
  BY <1>11, <1>15 DEF Answered
<1>21. \A p \in Owners \ D : /\ Title'[p] = Title[p]
                             /\ p[1] = "call" /\ Title[p] # None => Caller(p)' = Caller(p)
  <2>1. ASSUME NEW i \in Nat, <<"call", t, i>> \notin D
        PROVE  /\ BuiltIn(stack'[t], i) = BuiltIn(stack[t], i)
               /\ BuiltIn(stack[t], i) # None => stack'[t][i] = stack[t][i]
    <3>1. i # d - 1
      BY <2>1
    <3> HIDE DEF D
    <3>2. CASE i = d
      BY <1>4, <1>9, <1>11, <1>12, <3>2 DEF Answered
    <3>3. CASE i # d
      BY <1>11, <1>12, <3>1, <3>3 DEF Answered
    <3> QED
      BY <3>2, <3>3
  <2>2. h \in D
    OBVIOUS
  <2>3. \A w \in Addresses : ArrayOf(w)' = ArrayOf(w)
    BY <1>13 DEF ArrayOf
  <2>5. \A w \in Addresses : (w \in live' <=> w \in live)
    BY <1>14
  <2> HIDE DEF D
  <2>6. Spared(t, D)
    BY <1>12, <2>1, <2>2, <2>3, <2>5 DEF Spared
  <2> QED
    BY <2>6, Bystanders
<1> HIDE DEF q, h
<1>22. Handed(y, D)
  <2>1. D \subseteq Owners /\ q \in D /\ h \in D /\ \A p \in D : p = q \/ p = h
    BY <1>16
  <2> HIDE DEF D
  <2>2. \A p, w \in D : Title'[p] \in Addresses /\ Title'[p] = Title'[w] => p = w
    BY <1>8, <1>17, <1>19, <2>1, Constants
  <2>3. \A p \in D, w \in Addresses : Title'[p] = w => Has(w)' /\ (w = y \/ \E k \in D : Title[k] = w)
    BY <1>8, <1>17, <1>19, <2>1, Constants
  <2>4. \A p \in D, w \in Addresses : Title[p] = w /\ Has(w)' => \E k \in D : Title'[k] = w
    BY <1>8, <1>17, <2>1, Constants
  <2>5. \A p \in D : Title'[p] \in Addresses => Right(p)'
    BY <1>8, <1>17, <1>19, <2>1, Constants
  <2>6. /\ Has(y) => \E p \in D : Title[p] = y
        /\ Has(y)' => \E p \in D : Title'[p] = y
    <3>1. Has(y) => y \in Addresses
      BY <1>3 DEF ListFacts
    <3> QED
      BY <1>8, <1>13, <3>1
  <2>7. \A w \in Addresses \ {y} : (Has(w)' <=> Has(w)) /\ (Has(w) => AreaAt(w)' = AreaAt(w))
    BY <1>13
  <2>8. ~replaced' => ~replaced /\ \A w \in Listed : w.addr # y => \A p \in Span(w) : pte'[p] = pte[p]
    BY <1>10
  <2>9. D \subseteq Owners
    BY <2>1
  <2> QED
    BY <1>21, <2>2, <2>3, <2>4, <2>5, <2>6, <2>7, <2>8, <2>9, Zenon DEF Handed
<1>23. Owned' /\ Served'
  BY <1>3, <1>13, <1>22, Handover
<1>24. \A i \in 1..z.nr : z.frames[i] \in Frames
  BY <1>6 DEF Taken, AllFrames
<1>25. Framed'
  <2>1. \A w : PagesOf(w)' = PagesOf(w)
    BY <1>13 DEF PagesOf
  <2>2. \A u \in Tasks : u # t => GoneIn(stack'[u]) = GoneIn(stack[u])
    BY <1>12
  <2>3. GoneIn(stack[t]) = z.frames /\ GoneIn(stack'[t]) = <<>>
    BY <1>4, <1>9, <1>11, <1>12 DEF Answered
  <2>4. PICK m \in Nat : m = z.nr /\ m = Len(z.frames)
    BY <1>5, <1>6 DEF Taken, AreaType
  <2>5. m = Len(GoneIn(stack[t])) /\ \A i \in 1..m : GoneIn(stack[t])[i] \in Frames
    BY <1>24, <2>3, <2>4
  <2>6. free' = free \cup {GoneIn(stack[t])[i] : i \in 1..m}
    BY <1>10, <2>3, <2>4
  <2>7. VmStart \in Addresses
    BY Constants
  <2> QED
    BY <1>3, <2>1, <2>2, <2>3, <2>5, <2>6, <2>7, FramesTaken
<1>26. Tabled'
  BY <1>3, <1>10, <1>13 DEF Tabled
<1>27. TypeOK'
  <2>1. free' \subseteq Frames
    BY <1>3, <1>10, <1>24 DEF TypeOK
  <2> QED
    BY <1>3, <1>10, <1>12, <1>14, <2>1 DEF TypeOK
<1>28. Stacked'
  BY <1>11, <1>12 DEF Inv, Stacked, Answered
<1> QED
  BY <1>13, <1>23, <1>25, <1>26, <1>27, <1>28 DEF Inv, Linked

\* An area that is put where the search has found a place.
Placing(n, io, s, pages, a) ==
    /\ io \in BOOLEAN /\ s = Search(n, io) /\ Found(s, n) /\ pages \in Seq(Frames \cup {Lent, None})
    /\ a = [addr |-> s.addr, n |-> n, io |-> io, nr |-> 0, frames |-> pages, array |-> None]
    /\ vmlist' = InsertAt(vmlist, s.before + 1, a)
    /\ strained' \in BOOLEAN /\ (~strained' => ~strained /\ ~io /\ ~TooLarge(n))

LEMMA Placed ==
    ASSUME Linked, NEW n \in Nat \ {0}, NEW io, NEW s, NEW pages, NEW a,
           Placing(n, io, s, pages, a), NEW x, x = s.addr
    PROVE  /\ x \in Addresses /\ a \in AreaType /\ a.addr = x /\ a.n = n
           /\ a.array = None /\ a.nr = 0 /\ a.frames = pages
           /\ Linked' /\ Elsewhere(x) /\ ~Has(x) /\ Has(x)' /\ AreaAt(x)' = a
           /\ Listed' = Listed \cup {a} /\ Span(a) \subseteq Addresses
           /\ \A b \in Listed : Span(a) \cap Span(b) = {}
<1> USE DEF Placing
<1>1. /\ s.addr \in Nat /\ s.addr >= VmStart /\ s.before \in Nat /\ s.before < Len(vmlist) + 1
      /\ \A j \in 1..Len(vmlist) : IF j <= s.before THEN Limit(vmlist[j]) <= s.addr
                                   ELSE s.addr + n + 1 <= vmlist[j].addr
      /\ ~io /\ ~strained /\ ~TooLarge(n) => s.addr + n + 1 <= VmEnd
  BY SearchFinds DEF Linked, Found
<1>2. s.addr + n <= Top
  BY DEF Found
<1>3. x \in Nat /\ x \in Addresses
  BY <1>1, <1>2, Constants
<1>5. /\ a \in AreaType /\ a.addr = x /\ a.n = n
      /\ a.array = None /\ a.nr = 0 /\ a.frames = pages
  BY <1>3 DEF AreaType
<1>6. Limit(a) = x + n + 1
  BY <1>5 DEF Limit
<1>7. \A j \in 1..Len(vmlist) : IF j <= s.before THEN Limit(vmlist[j]) <= a.addr
                                ELSE Limit(a) <= vmlist[j].addr
  BY <1>1, <1>5, <1>6
<1>8. ~strained' => ~strained /\ Limit(a) <= VmEnd
  BY <1>1, <1>6
<1>9. PICK k \in Nat : k = s.before /\ k < Len(vmlist) + 1
  BY <1>1
<1>10. /\ Linked' /\ Elsewhere(a.addr) /\ Listed' = Listed \cup {a}
       /\ ~Has(a.addr) /\ Has(a.addr)' /\ AreaAt(a.addr)' = a
       /\ \A b \in Listed : Limit(b) <= a.addr \/ Limit(a) <= b.addr
  <2>1. a.addr \in Addresses /\ a.n \in Nat \ {0} /\ a.addr + a.n <= Top
    BY <1>2, <1>3, <1>5
  <2>2. \A j \in 1..Len(vmlist) : IF j <= k THEN Limit(vmlist[j]) <= a.addr
                                  ELSE Limit(a) <= vmlist[j].addr
    BY <1>7, <1>9
  <2>3. vmlist' = InsertAt(vmlist, k + 1, a)
    BY <1>9
  <2> QED
    BY <1>5, <1>8, <1>9, <2>1, <2>2, <2>3, InsertKeeps
<1>11. Span(a) \subseteq Addresses
  BY <1>1, <1>2, <1>3, <1>5, Constants DEF Span, Addresses
<1>12. ASSUME NEW b \in Listed
       PROVE  Span(a) \cap Span(b) = {}
  <2>1. /\ b.addr \in Nat /\ b.n \in Nat /\ Limit(b) = b.addr + b.n + 1
        /\ \A p : p \in Span(b) <=> p \in Int /\ b.addr <= p /\ p < b.addr + b.n
    BY AreaFacts
  <2>2. Limit(b) <= x \/ x + n + 1 <= b.addr
    BY <1>5, <1>6, <1>10
  <2>3. \A p : p \in Span(a) <=> p \in Int /\ x <= p /\ p < x + n
    BY <1>3, <1>5 DEF Span
  <2> HIDE DEF Placing
  <2> QED
    BY <1>3, <2>1, <2>2, <2>3
<1>13. Has(x)' /\ AreaAt(x)' = a
  <2>1. PICK y : y = a.addr
    OBVIOUS
  <2>2. Has(y)' /\ AreaAt(y)' = a
    BY <1>10, <2>1
  <2> QED
    BY <1>5, <2>1, <2>2
<1> QED
  BY <1>3, <1>5, <1>10, <1>11, <1>12, <1>13

\* __vmalloc begins, for the user or for the array of the call before it.
LEMMA Begins ==
    ASSUME Inv, NEW t \in Tasks, NEW n \in Nat \ {0}, NEW w \in Seq(CallType), NEW k \in Nat, k = Len(w),
           Begin(t, n, w), \A i \in 1..k : w[i].step = "wait",
           \A i \in Nat : BuiltIn(w, i) = BuiltIn(stack[t], i),
           \A i \in Nat : i # k => (BuiltIn(stack[t], i) # None => w[i] = stack[t][i]),
           KeptIn(stack[t]) = None, GoneIn(stack[t]) = <<>>,
           k > 0 => Has(w[k].addr) /\ Bare(AreaAt(w[k].addr)) /\ AreaAt(w[k].addr).n > Ptrs,
           strained' \in BOOLEAN, ~strained' => ~strained /\ ~TooLarge(n),
           UNCHANGED <<pte, present, free, ptLock, live, replaced, fault>>
    PROVE  Inv'
<1>1. Linked /\ ListFacts
  BY InvLinked
<1>2. PICK s : s = Search(n, FALSE)
  OBVIOUS
<1>3. CASE /\ Found(s, n)
           /\ vmlist' = Inserted(s, n, FALSE)
           /\ stack' = [stack EXCEPT ![t] = Append(w, Call("array", s.addr))]
  <2>1. PICK a, x, c : a = Area(s.addr, n, FALSE) /\ x = s.addr /\ c = Call("array", x)
    OBVIOUS
  <2>12. PICK io, pages : io \in BOOLEAN /\ io = FALSE /\ pages = <<>>
    OBVIOUS
  <2>2. Placing(n, io, s, pages, a)
    <3>1. a = [addr |-> s.addr, n |-> n, io |-> FALSE, nr |-> 0, frames |-> <<>>, array |-> None]
      BY <2>1 DEF Area
    <3>2. vmlist' = InsertAt(vmlist, s.before + 1, a)
      BY <1>3, <2>1 DEF Inserted
    <3>3. <<>> \in Seq(Frames \cup {Lent, None})
      OBVIOUS
    <3> QED
      BY <1>2, <1>3, <2>12, <3>1, <3>2, <3>3 DEF Placing
  <2>5. /\ x \in Addresses /\ a \in AreaType /\ a.addr = x /\ a.n = n
        /\ a.array = None /\ a.nr = 0 /\ a.frames = <<>>
        /\ Linked' /\ Elsewhere(x) /\ ~Has(x) /\ Has(x)' /\ AreaAt(x)' = a
        /\ Listed' = Listed \cup {a} /\ Span(a) \subseteq Addresses
        /\ \A b \in Listed : Span(a) \cap Span(b) = {}
    <3>1. x = s.addr
      BY <2>1
    <3>2. /\ x \in Addresses /\ a \in AreaType /\ a.addr = x /\ a.n = n
          /\ a.array = None /\ a.nr = 0 /\ a.frames = pages
          /\ Linked' /\ Elsewhere(x) /\ ~Has(x) /\ Has(x)' /\ AreaAt(x)' = a
          /\ Listed' = Listed \cup {a} /\ Span(a) \subseteq Addresses
          /\ \A b \in Listed : Span(a) \cap Span(b) = {}
      BY <1>1, <2>2, <3>1, Placed
    <3>3. pages = <<>>
      BY <2>12
    <3> QED
      BY <3>2, <3>3
  <2>6. Call("array", x) \in CallType /\ Call("array", x).step = "array" /\ Call("array", x).addr = x
    BY <2>5, CallMade DEF CallSteps
  <2>7. c \in CallType /\ c.step = "array" /\ c.addr = x /\ Active(c)
    BY <2>1, <2>6 DEF Active
  <2>8. Fits(c, a) /\ \A i \in 1..Len(a.frames) : a.frames[i] \notin Frames
    BY <2>5, <2>7 DEF Fits, Bare, Mapping
  <2>9. stack' = [stack EXCEPT ![t] = Append(w, c)]
    BY <1>3, <2>1
  <2>10. c.step \in {"array", "lock", "oops"} /\ c.step # "lock"
    BY <2>7
  <2>11. Starting(t, w, k, c, a, x)
    BY <2>5, <2>7, <2>8, <2>9, <2>10 DEF Starting
  <2> QED
    BY <2>11, CallStarts
<1>4. CASE /\ stack' = [stack EXCEPT ![t] = Append(w, Call("oops", VmStart))]
           /\ vmlist' = vmlist
  <2>1. PICK c : c = Call("oops", VmStart)
    OBVIOUS
  <2>2. VmStart \in Addresses /\ None \notin Addresses
    BY Constants
  <2>3. Call("oops", VmStart) \in CallType /\ Call("oops", VmStart).step = "oops"
    BY <2>2, CallMade DEF CallSteps
  <2>4. c \in CallType /\ c.step = "oops" /\ ~Active(c)
    BY <2>1, <2>3 DEF Active
  <2>5. /\ vmlist' \in Seq(AreaType) /\ Ordered' /\ Listed' = Listed
        /\ \A z : (Has(z)' <=> Has(z)) /\ AreaAt(z)' = AreaAt(z)
    BY <1>1, <1>4 DEF Linked, Ordered, Listed, Has, AreaAt, Place, Limit
  <2>6. Linked'
    BY <1>1, <2>5 DEF Linked, Ranged, Limit
  <2>7. Elsewhere(None) /\ ~Has(None) /\ ~Has(None)'
    BY <1>1, <2>2, <2>5 DEF Elsewhere, ListFacts
  <2>8. stack' = [stack EXCEPT ![t] = Append(w, c)] /\ c.step \in {"array", "lock", "oops"} /\ c.step # "lock"
    BY <1>4, <2>1, <2>4
  <2>9. Starting(t, w, k, c, NoArea, None)
    BY <2>4, <2>5, <2>6, <2>7, <2>8 DEF Starting
  <2> QED
    BY <2>9, CallStarts
<1> QED
  BY <1>2, <1>3, <1>4 DEF Begin

LEMMA VmallocKeeps ==
    ASSUME Inv, NEW t \in Tasks, NEW n \in VmallocSizes, Vmalloc(t, n)
    PROVE  Inv'
<1>1. n \in Nat \ {0}
  BY Constants
<1>2. PICK w \in Seq(CallType) : w = <<>> /\ Len(w) = 0 /\ w = stack[t]
  <2>1. <<>> \in Seq(CallType) /\ Len(<<>>) = 0
    OBVIOUS
  <2>2. stack[t] = <<>>
    BY DEF Vmalloc
  <2> QED
    BY <2>1, <2>2
<1>3. PICK k \in Nat : k = 0
  OBVIOUS
<1>4. Begin(t, n, w)
  BY <1>2 DEF Vmalloc
<1>5. KeptIn(stack[t]) = None /\ GoneIn(stack[t]) = <<>>
  BY <1>2 DEF KeptIn, GoneIn
<1>6. \A i \in Nat : BuiltIn(stack[t], i) = None
  BY <1>2 DEF BuiltIn
<1>7. strained' \in BOOLEAN /\ (~strained' => ~strained /\ ~TooLarge(n))
  BY DEF Vmalloc, Inv, TypeOK
<1>8. UNCHANGED <<pte, present, free, ptLock, live, replaced, fault>>
  BY DEF Vmalloc
<1>9. /\ k = Len(w) /\ ~(k > 0) /\ \A i \in 1..k : w[i].step = "wait"
      /\ \A i \in Nat : BuiltIn(w, i) = BuiltIn(stack[t], i)
      /\ \A i \in Nat : i # k => (BuiltIn(stack[t], i) # None => w[i] = stack[t][i])
  <2>1. 1..k = {}
    BY <1>3
  <2> QED
    BY <1>2, <1>3, <2>1
<1> QED
  BY <1>1, <1>4, <1>5, <1>7, <1>8, <1>9, Begins

\* The pages of an array of m pointers, p of which are in a page.
LEMMA ArrayPages ==
    ASSUME NEW m \in Nat, NEW p \in Nat, p > 1, m > p
    PROVE  (m + p - 1) \div p \in Nat \ {0} /\ (m + p - 1) \div p <= m
<1>1. PICK y \in Nat : y = m + p - 1
  OBVIOUS
<1>2. PICK q \in Nat : q = y \div p
  <2>1. p \in Nat \ {0}
    OBVIOUS
  <2> QED
    BY <2>1
<1>3. p * q <= y /\ p * q > y - p
  BY <1>1, <1>2
<1>4. q # 0
  BY <1>1, <1>3
<1>5. q <= m
  <2> SUFFICES ASSUME q >= m + 1
               PROVE  FALSE
    OBVIOUS
  <2>1. p * q >= p * (m + 1)
    OBVIOUS
  <2>2. p * (m + 1) = p * m + p
    OBVIOUS
  <2>3. p * m >= m
    OBVIOUS
  <2>4. PICK u \in Nat : u = p * q
    OBVIOUS
  <2>5. PICK v \in Nat : v = p * m
    OBVIOUS
  <2>6. u >= v + p /\ v >= m /\ u <= m + p - 1
    BY <1>1, <1>3, <2>1, <2>2, <2>3, <2>4, <2>5
  <2> QED
    BY <2>6
<1> QED
  BY <1>1, <1>2, <1>4, <1>5

LEMMA NestArrayKeeps ==
    ASSUME Inv, NEW t \in Tasks, NestArray(t)
    PROVE  Inv'
<1>1. PICK d, x, a, e : d = Depth(t) /\ x = Inner(t).addr /\ a = Mine(t) /\ e = Inner(t)
  OBVIOUS
<1>2. stack[t] # <<>> /\ e.step = "array" /\ Active(e)
  BY <1>1 DEF NestArray, At, Active
<1>0. Holds(e) = None /\ Takes(e) = <<>> /\ a.n > Ptrs
  BY <1>1, <1>2 DEF NestArray, Holds, Takes
<1>3. /\ d \in Nat \ {0} /\ e = stack[t][d] /\ e \in CallType
      /\ x \in Addresses /\ a \in Listed /\ a.addr = x /\ Has(x) /\ AreaAt(x) = a
      /\ Title[<<"call", t, d>>] = x /\ Fits(e, a)
  BY <1>1, <1>2, MineFacts
<1>4. Linked /\ a.n \in Nat \ {0}
  BY <1>3, InvLinked, AreaFacts
<1>5. PICK s \in Seq(CallType) : s = stack[t] /\ s # <<>> /\ StackedIn(s) /\ d = Len(s)
  BY <1>1, <1>2, StackFacts
<1>6. PICK n \in Nat \ {0} : n = (a.n + Ptrs - 1) \div Ptrs /\ n <= a.n
  BY <1>0, <1>4, Constants, ArrayPages
<1>7. PICK f : f = [e EXCEPT !.step = "wait"]
  OBVIOUS
<1>8. f \in CallType /\ f.step = "wait" /\ f.addr = x
  BY <1>1, <1>3, <1>7 DEF CallType
<1>9. PICK w : w = [s EXCEPT ![d] = f]
  OBVIOUS
<1>10. Replaced(s, f, d, w)
  BY <1>5, <1>8, <1>9, GoesOn
<1>11. Begin(t, n, w)
  <2>1. w = [stack[t] EXCEPT ![Depth(t)].step = "wait"]
    BY <1>1, <1>3, <1>5, <1>7, <1>9
  <2> QED
    BY <1>1, <1>6, <2>1 DEF NestArray
<1>12. w \in Seq(CallType) /\ Len(w) = d /\ w[d] = f
  BY <1>10 DEF Replaced
<1>13. \A i \in 1..d : w[i].step = "wait"
  <2> TAKE i \in 1..d
  <2>1. CASE i = d
    BY <1>8, <1>12, <2>1
  <2>2. CASE i # d
    <3>1. i \in 1..Len(s) /\ i < Len(s) /\ w[i] = s[i]
      BY <1>3, <1>5, <1>10, <2>2 DEF Replaced
    <3> QED
      BY <1>5, <3>1 DEF StackedIn
  <2> QED
    BY <2>1, <2>2
<1>14. KeptIn(s) = None /\ GoneIn(s) = <<>> /\ BuiltIn(s, d) = x
  <2>1. Builds(e) = x
    BY <1>1, <1>2 DEF Builds
  <2> QED
    BY <1>0, <1>3, <1>5, <2>1, StackTop
<1>15. BuiltIn(w, d) = x
  BY <1>8, <1>10 DEF Replaced, Builds, Active
<1>16. \A i \in Nat : BuiltIn(w, i) = BuiltIn(s, i)
  BY <1>10, <1>14, <1>15 DEF Replaced
<1>17. \A i \in Nat : i # d => (BuiltIn(s, i) # None => w[i] = s[i])
  BY <1>10 DEF Replaced
<1>18. Has(w[d].addr) /\ Bare(AreaAt(w[d].addr)) /\ AreaAt(w[d].addr).n > Ptrs
  BY <1>0, <1>2, <1>3, <1>8, <1>12 DEF Fits
<1>19. ~strained => ~TooLarge(n)
  <2> SUFFICES ASSUME ~strained
               PROVE  ~TooLarge(n)
    OBVIOUS
  <2>1. Limit(a) <= VmEnd /\ Limit(a) = a.addr + a.n + 1 /\ a.addr \in Nat /\ a.addr >= VmStart
    BY <1>3, <1>4, AreaFacts, Constants DEF Linked, Ranged
  <2> QED
    BY <1>4, <1>6, <2>1, Constants DEF TooLarge
<1>20. strained' = strained /\ strained \in BOOLEAN /\ UNCHANGED <<pte, present, free, ptLock, live, replaced, fault>>
  BY DEF NestArray, Inv, TypeOK
<1> QED
  <2>1. d \in Nat
    BY <1>3
  <2> QED
    BY <1>5, <1>11, <1>12, <1>13, <1>14, <1>16, <1>17, <1>18, <1>19, <1>20, <2>1, Begins

LEMMA VmapKeeps ==
    ASSUME Inv, NEW t \in Tasks, NEW n \in VmapSizes, NEW io \in BOOLEAN, NEW pages \in PageLists(n),
           Vmap(t, n, io, pages)
    PROVE  Inv'
<1>1. n \in Nat \ {0}
  BY Constants
<1>2. pages \in Seq(Frames \cup {Lent, None}) /\ Len(pages) = n /\ \A i \in 1..n : pages[i] \in {Lent, None}
  <2>1. pages \in [1..n -> {Lent, None}]
    BY DEF PageLists
  <2> QED
    BY <1>1, <2>1
<1>3. Linked
  BY InvLinked
<1>4. PICK s, a, x, c : /\ s = Search(n, io) /\ a = [Area(s.addr, n, io) EXCEPT !.frames = pages]
                        /\ x = s.addr /\ c = Call("lock", x)
  OBVIOUS
<1>5. Placing(n, io, s, pages, a)
  <2>1. a = [addr |-> s.addr, n |-> n, io |-> io, nr |-> 0, frames |-> pages, array |-> None]
    BY <1>4 DEF Area
  <2>2. Found(s, n) /\ vmlist' = InsertAt(vmlist, s.before + 1, a)
    BY <1>4 DEF Vmap
  <2>3. strained' \in BOOLEAN /\ (~strained' => ~strained /\ ~io /\ ~TooLarge(n))
    BY DEF Vmap, Inv, TypeOK
  <2> QED
    BY <1>2, <1>4, <2>1, <2>2, <2>3 DEF Placing
<1>6. x = s.addr
  BY <1>4
<1>7. /\ x \in Addresses /\ a \in AreaType /\ a.addr = x /\ a.n = n
      /\ a.array = None /\ a.nr = 0 /\ a.frames = pages
      /\ Linked' /\ Elsewhere(x) /\ ~Has(x) /\ Has(x)' /\ AreaAt(x)' = a
      /\ Listed' = Listed \cup {a} /\ Span(a) \subseteq Addresses
      /\ \A b \in Listed : Span(a) \cap Span(b) = {}
  BY <1>1, <1>3, <1>5, <1>6, Placed
<1>8. Call("lock", x) \in CallType /\ Call("lock", x).step = "lock" /\ Call("lock", x).addr = x /\ Call("lock", x).cur = x
  BY <1>7, CallMade DEF CallSteps
<1>9. c \in CallType /\ c.step = "lock" /\ c.addr = x /\ c.cur = x /\ Active(c)
  BY <1>4, <1>8 DEF Active
<1>10. \A i \in 1..Len(a.frames) : a.frames[i] \notin Frames
  BY <1>2, <1>7, Constants
<1>11. Fits(c, a)
  BY <1>2, <1>7, <1>9, <1>10 DEF Fits, Whole, Borrowed, Mapping
<1>12. PICK w \in Seq(CallType) : w = <<>> /\ Len(w) = 0 /\ w = stack[t]
  <2>1. <<>> \in Seq(CallType) /\ Len(<<>>) = 0
    OBVIOUS
  <2>2. stack[t] = <<>>
    BY DEF Vmap
  <2> QED
    BY <2>1, <2>2
<1>13. PICK k \in Nat : k = 0
  OBVIOUS
<1>14. stack' = [stack EXCEPT ![t] = Append(w, c)]
  <2>1. stack' = [stack EXCEPT ![t] = <<c>>]
    BY <1>4 DEF Vmap
  <2>2. Append(w, c) = <<c>>
    BY <1>12
  <2> QED
    BY <2>1, <2>2
<1>15. Starting(t, w, k, c, a, x)
  <2>1. KeptIn(stack[t]) = None /\ GoneIn(stack[t]) = <<>>
    BY <1>12 DEF KeptIn, GoneIn
  <2>2. \A i \in Nat : BuiltIn(stack[t], i) = None
    BY <1>12 DEF BuiltIn
  <2>3. strained' \in BOOLEAN /\ UNCHANGED <<pte, present, free, ptLock, live, replaced, fault>>
    BY DEF Vmap, Inv, TypeOK
  <2>4. /\ k = Len(w) /\ ~(k > 0) /\ \A i \in 1..k : w[i].step = "wait"
        /\ \A i \in Nat : BuiltIn(w, i) = BuiltIn(stack[t], i)
        /\ \A i \in Nat : i # k => (BuiltIn(stack[t], i) # None => w[i] = stack[t][i])
    <3>1. 1..k = {}
      BY <1>13
    <3> QED
      BY <1>12, <1>13, <3>1
  <2>5. w \in Seq(CallType) /\ k = 0
    BY <1>13
  <2> QED
    BY <1>7, <1>9, <1>10, <1>11, <1>14, <2>1, <2>3, <2>4, <2>5 DEF Starting
<1> QED
  BY <1>15, CallStarts

LEMMA SlabArrayKeeps ==
    ASSUME Inv, NEW t \in Tasks, SlabArray(t)
    PROVE  Inv'
<1>1. PICK d, x, a, e : d = Depth(t) /\ x = Inner(t).addr /\ a = Mine(t) /\ e = Inner(t)
  OBVIOUS
<1>2. stack[t] # <<>> /\ e.step = "array" /\ Active(e)
  BY <1>1 DEF SlabArray, At, Active
<1>3. Holds(e) = None /\ a.n <= Ptrs
  BY <1>1, <1>2 DEF SlabArray, Holds
<1>4. e \in CallType /\ Fits(e, a) /\ Title[<<"call", t, d>>] = x
  BY <1>1, <1>2, MineFacts
<1>5. PICK v \in {Slab, None} : Becomes(t, [e EXCEPT !.step = "given", !.cur = v])
  BY <1>1 DEF SlabArray
<1>6. PICK c : c = [e EXCEPT !.step = "given", !.cur = v]
  OBVIOUS
<1>7. c \in CallType /\ c.step = "given" /\ c.addr = x /\ c.cur = v
  BY <1>1, <1>4, <1>5, <1>6 DEF CallType
<1>8. Active(c) /\ c.step # "wait" /\ Holds(c) \notin Addresses /\ ~Mapping(c) /\ c.step \notin {"lock", "fail"}
  BY <1>5, <1>7, Constants DEF Active, Holds, Mapping
<1>9. Fits(c, a)
  BY <1>2, <1>3, <1>4, <1>5, <1>7 DEF Fits, Mapping
<1>10. ptLock' \in Tasks \cup {None} /\ UNCHANGED <<vmlist, pte, present, free, live, strained, replaced, fault>>
  BY DEF SlabArray, Inv, TypeOK
<1> QED
  BY <1>1, <1>2, <1>3, <1>5, <1>6, <1>7, <1>8, <1>9, <1>10, CallGoesOn

\* A call that only changes its step, once its area is complete.
LEMMA GotoKeeps ==
    ASSUME Inv, NEW t \in Tasks, stack[t] # <<>>, NEW step \in {"map", "table", "fail"}, Goto(t, step),
           Inner(t).step = "lock" \/ Mapping(Inner(t)),
           ptLock' \in Tasks \cup {None},
           UNCHANGED <<vmlist, pte, present, free, live, strained, replaced, fault>>
    PROVE  Inv'
<1>1. PICK d, x, a, e : d = Depth(t) /\ x = Inner(t).addr /\ a = Mine(t) /\ e = Inner(t)
  OBVIOUS
<1>2. e.step \in {"lock", "map", "table"} /\ Active(e) /\ Holds(e) = None
  BY <1>1 DEF Active, Holds, Mapping
<1>3. /\ e \in CallType /\ a \in Listed /\ a.addr = x /\ AreaAt(x) = a
      /\ Title[<<"call", t, d>>] = x /\ Fits(e, a)
  BY <1>1, <1>2, MineFacts
<1>4. PICK c : c = [e EXCEPT !.step = step]
  OBVIOUS
<1>5. c \in CallType /\ c.step = step /\ c.addr = x /\ c.cur = e.cur
  BY <1>1, <1>3, <1>4 DEF CallType
<1>6. Active(c) /\ c.step # "wait" /\ Holds(c) \notin Addresses
  BY <1>5, Constants DEF Active, Holds
<1>7. a.addr \in Span(a)
  <2>1. Linked
    BY InvLinked
  <2>2. a.addr \in Nat /\ a.n \in Nat \ {0} /\ \A p : p \in Span(a) <=> p \in Int /\ a.addr <= p /\ p < a.addr + a.n
    BY <1>3, <2>1, AreaFacts
  <2> QED
    BY <2>2
<1>8. Whole(a) /\ e.cur \in Span(a) /\ (e.step = "lock" => e.cur = x)
  BY <1>2, <1>3, <1>7 DEF Fits, Mapping
<1>9. Fits(c, a)
  BY <1>5, <1>8 DEF Fits, Mapping
<1>10. Becomes(t, c)
  BY <1>1, <1>4 DEF Goto
<1>11. Mapping(c) => c.cur = c.addr \/ (Mapping(e) /\ c.cur = e.cur)
  BY <1>2, <1>5, <1>8 DEF Mapping
<1>12. e.step \in {"lock", "fail"} \/ Mapping(e)
  BY <1>2 DEF Mapping
<1> QED
  BY <1>1, <1>2, <1>5, <1>6, <1>9, <1>10, <1>11, <1>12, CallGoesOn

\* An area without any frames of vmalloc's is taken off the list.
LEMMA Unlinked ==
    ASSUME Inv, NEW a \in Listed, vmlist' = Removed(a), pte' = Unmapped(a),
           UNCHANGED <<present, strained, replaced>>
    PROVE  /\ Linked' /\ Elsewhere(a.addr) /\ ~Has(a.addr)' /\ Tabled'
           /\ pte' \in [Addresses -> Frames \cup {Lent, None}]
           /\ \A b \in Listed : b.addr # a.addr => \A p \in Span(b) : pte'[p] = pte[p]
<1>1. Linked /\ Tabled
  BY InvLinked DEF Inv
<1>2. Linked' /\ Elsewhere(a.addr) /\ Listed' = Listed \ {a} /\ ~Has(a.addr)'
  BY <1>1, RemoveKeeps
<1>3. /\ pte' \in [Addresses -> Frames \cup {Lent, None}]
      /\ \A b \in Listed : b # a => \A p \in Span(b) : pte'[p] = pte[p]
      /\ \A p \in Addresses : pte'[p] = None \/ pte'[p] = pte[p]
      /\ \A p \in Span(a) : pte'[p] = None
  BY UnmapFacts
<1>4. Tabled'
  <2> SUFFICES ASSUME ~replaced, NEW p \in Addresses
               PROVE  /\ (\A b \in Listed' : p \notin Span(b)) => pte'[p] = None
                      /\ pte'[p] # None => TableOf(p) \in present
    BY DEF Tabled, Span, TableOf
  <2>1. /\ (\A b \in Listed : p \notin Span(b)) => pte[p] = None
        /\ pte[p] # None => TableOf(p) \in present
    BY <1>1 DEF Tabled
  <2>2. CASE p \in Span(a)
    BY <1>3, <2>2
  <2>3. CASE p \notin Span(a)
    BY <1>2, <1>3, <2>1, <2>3
  <2> QED
    BY <2>2, <2>3
<1> QED
  BY <1>2, <1>3, <1>4

LEMMA GivesUp ==
    ASSUME Inv, NEW t \in Tasks, stack[t] # <<>>, Active(Inner(t)), Holds(Inner(t)) = None,
           NEW a, a = Mine(t), a.array = None, \A i \in 1..Len(a.frames) : a.frames[i] \notin Frames,
           Unlink(a), Answer(t, None), UNCHANGED <<present, free, ptLock, strained, replaced, fault>>
    PROVE  Inv'
<1>1. PICK d, x, e : d = Depth(t) /\ x = Inner(t).addr /\ e = Inner(t)
  OBVIOUS
<1>2. /\ d \in Nat \ {0} /\ x \in Addresses /\ a \in Listed /\ a.addr = x
      /\ Title[<<"call", t, d>>] = x
  BY <1>1, MineFacts
<1>3. vmlist' = Removed(a) /\ pte' = Unmapped(a)
  BY DEF Unlink
<1>4. /\ Linked' /\ Elsewhere(a.addr) /\ ~Has(a.addr)' /\ Tabled'
      /\ pte' \in [Addresses -> Frames \cup {Lent, None}]
      /\ \A b \in Listed : b.addr # a.addr => \A p \in Span(b) : pte'[p] = pte[p]
  BY <1>2, <1>3, Unlinked
<1>5. ~Has(x)'
  <2>1. PICK y : y = a.addr
    OBVIOUS
  <2>2. ~Has(y)'
    BY <1>4, <2>1
  <2> QED
    BY <1>2, <2>1, <2>2
<1>6. present' \subseteq Tables /\ ptLock' \in Tasks \cup {None} /\ strained' \in BOOLEAN /\ replaced' \in BOOLEAN
  BY DEF Inv, TypeOK
<1>7. None # x
  BY <1>2, Constants
<1>8. PICK v : v = None
  OBVIOUS
<1>9. /\ v \in {None, x} /\ Answer(t, v) /\ v # x
      /\ (v = None => ~Has(x)' /\ a.array = None /\ \A i \in 1..Len(a.frames) : a.frames[i] \notin Frames)
  BY <1>5, <1>7, <1>8
<1>10. Elsewhere(x)
  BY <1>2, <1>4
<1>11. ~replaced' => ~replaced /\ \A b \in Listed : b.addr # x => \A p \in Span(b) : pte'[p] = pte[p]
  BY <1>2, <1>4
<1> QED
  BY <1>1, <1>4, <1>6, <1>9, <1>10, <1>11, CallAnswers

LEMMA NoArrayKeeps ==
    ASSUME Inv, NEW t \in Tasks, NoArray(t)
    PROVE  Inv'
<1>1. PICK d, x, a, e : d = Depth(t) /\ x = Inner(t).addr /\ a = Mine(t) /\ e = Inner(t)
  OBVIOUS
<1>2. stack[t] # <<>> /\ e.step = "given" /\ Active(e)
  BY <1>1 DEF NoArray, At, Active
<1>3. Holds(e) = None
  BY <1>1, <1>2 DEF NoArray, Holds, Cur
<1>4. Fits(e, a) /\ Title[<<"call", t, d>>] = x
  BY <1>1, <1>2, MineFacts
<1>5. a.array = None /\ \A i \in 1..Len(a.frames) : a.frames[i] \notin Frames
  BY <1>2, <1>4 DEF Fits, Bare
<1>6. Unlink(a) /\ Answer(t, None) /\ UNCHANGED <<present, free, ptLock, strained, replaced, fault>>
  BY <1>1 DEF NoArray, Unlink
<1> QED
  BY <1>1, <1>2, <1>3, <1>5, <1>6, GivesUp

\* A call that has allocated pages gives up: its area is to be freed.
LEMMA Undoes ==
    ASSUME Inv, NEW t \in Tasks, stack[t] # <<>>, Active(Inner(t)), Holds(Inner(t)) = None,
           NEW a, a = Mine(t), NEW z \in AreaType, z.array = a.array, z.frames = a.frames, z.addr = a.addr,
           Taken(z), Unlink(a), Becomes(t, [Call("undo", z.addr) EXCEPT !.area = z]),
           UNCHANGED <<present, free, ptLock, live, strained, replaced, fault>>
    PROVE  Inv'
<1>1. PICK d, x, e : d = Depth(t) /\ x = Inner(t).addr /\ e = Inner(t)
  OBVIOUS
<1>2. PICK o : o = <<"call", t, d>>
  OBVIOUS
<1>3. /\ d \in Nat \ {0} /\ e = stack[t][d] /\ x \in Addresses /\ a \in Listed /\ a.addr = x /\ AreaAt(x) = a
      /\ o \in Owners /\ Title[o] = x
  BY <1>1, <1>2, MineFacts
<1>4. PICK s \in Seq(CallType) : s = stack[t] /\ s # <<>> /\ StackedIn(s) /\ d = Len(s)
  BY <1>1, StackFacts
<1>5. PICK c : c = [Call("undo", x) EXCEPT !.area = z]
  OBVIOUS
<1>6. c \in CallType /\ c.step = "undo" /\ c.area = z
  BY <1>3, <1>5, UndoMade
<1>7. PICK r : r = [s EXCEPT ![d] = c]
  OBVIOUS
<1>8. Replaced(s, c, d, r)
  BY <1>4, <1>6, <1>7, GoesOn
<1>9. Holds(c) = a.array /\ Takes(c) = a.frames /\ Sound(c) /\ Builds(c) = None
  BY <1>6 DEF Holds, Takes, Sound, Builds, Active
<1>10. /\ r \in Seq(CallType) /\ KeptIn(r) = a.array /\ GoneIn(r) = a.frames /\ StackedIn(r) /\ BuiltIn(r, d) = None
       /\ \A i \in Nat : i # d => BuiltIn(r, i) = BuiltIn(s, i) /\ (BuiltIn(s, i) # None => r[i] = s[i])
  BY <1>4, <1>8, <1>9 DEF Replaced
<1>11. stack' = [stack EXCEPT ![t] = r]
  BY <1>1, <1>3, <1>4, <1>5, <1>7 DEF Becomes
<1>12. KeptIn(s) = None /\ GoneIn(s) = <<>>
  <2>1. Takes(e) = <<>> /\ Holds(e) = None
    BY <1>1 DEF Takes, Active
  <2> QED
    BY <1>3, <1>4, <2>1, StackTop
<1>13. PICK m \in Nat : m = 0
  OBVIOUS
<1>14. /\ m = Len(GoneIn(stack[t])) /\ \A i \in 1..m : GoneIn(stack[t])[i] \in Frames
       /\ free' = free \cup {GoneIn(stack[t])[i] : i \in 1..m}
  <2>1. Len(<<>>) = 0 /\ 1..m = {}
    BY <1>13
  <2> QED
    BY <1>4, <1>12, <1>13, <2>1
<1>15. o \in {<<"call", t, d>>, <<"keep", t, 0>>, <<"user", x, 0>>} /\ o # <<"user", x, 0>> /\ d \in Nat
  BY <1>2, <1>3
<1>16. live' = IF o = <<"user", x, 0>> THEN live \ {x} ELSE live
  BY <1>15
<1>17. /\ KeptIn(stack[t]) # None => o = <<"keep", t, 0>>
       /\ o = <<"call", t, d>> => BuiltIn(r, d) = None
       /\ \A i \in Nat : <<"call", t, i>> # o =>
             BuiltIn(r, i) = BuiltIn(stack[t], i) /\ (BuiltIn(stack[t], i) # None => r[i] = stack[t][i])
  BY <1>2, <1>4, <1>10, <1>12
<1>18. vmlist' = Removed(a) /\ pte' = Unmapped(a)
  BY DEF Unlink
<1> QED
  BY <1>3, <1>10, <1>11, <1>14, <1>15, <1>16, <1>17, <1>18, TakesDown

LEMMA AllocPageFailsKeeps ==
    ASSUME Inv, NEW t \in Tasks, AllocPageFails(t)
    PROVE  Inv'
<1>1. PICK d, x, a, e : d = Depth(t) /\ x = Inner(t).addr /\ a = Mine(t) /\ e = Inner(t)
  OBVIOUS
<1>2. stack[t] # <<>> /\ e.step = "fill" /\ Active(e) /\ Holds(e) = None
  BY <1>1 DEF AllocPageFails, At, Active, Holds
<1>3. a \in Listed /\ a.addr = x /\ Fits(e, a) /\ Title[<<"call", t, d>>] = x
  BY <1>1, <1>2, MineFacts
<1>4. Linked
  BY InvLinked
<1>5. a \in AreaType /\ Len(a.frames) \in Nat /\ a.n \in Nat
  BY <1>3, <1>4, AreaFacts
<1>6. PICK z : z = [a EXCEPT !.nr = Len(a.frames)]
  OBVIOUS
<1>7. /\ z \in AreaType /\ z.addr = a.addr /\ z.n = a.n /\ z.array = a.array /\ z.frames = a.frames
      /\ z.nr = Len(a.frames)
  BY <1>5, <1>6 DEF AreaType
<1>8. Stocked(a) /\ Len(a.frames) < a.n
  BY <1>2, <1>3 DEF Fits
<1>9. Taken(z)
  BY <1>5, <1>7, <1>8 DEF Taken, Stocked, AllFrames
<1>10. /\ Unlink(a) /\ Becomes(t, [Call("undo", z.addr) EXCEPT !.area = z])
       /\ UNCHANGED <<present, free, ptLock, live, strained, replaced, fault>>
  BY <1>1, <1>6 DEF AllocPageFails
<1> QED
  BY <1>1, <1>2, <1>7, <1>9, <1>10, Undoes

LEMMA LockTablesKeeps ==
    ASSUME Inv, NEW t \in Tasks, LockTables(t)
    PROVE  Inv'
<1>1. stack[t] # <<>> /\ Inner(t).step = "lock" /\ Goto(t, "map") /\ ptLock' \in Tasks \cup {None}
      /\ UNCHANGED <<vmlist, pte, present, free, live, strained, replaced, fault>>
  BY DEF LockTables, At
<1>2. PICK step \in {"map", "table", "fail"} : step = "map"
  OBVIOUS
<1>3. Goto(t, step)
  BY <1>1, <1>2
<1> QED
  BY <1>1, <1>3, GotoKeeps

LEMMA DropLockKeeps ==
    ASSUME Inv, NEW t \in Tasks, DropLock(t)
    PROVE  Inv'
<1>1. stack[t] # <<>> /\ Mapping(Inner(t)) /\ Goto(t, "table") /\ ptLock' \in Tasks \cup {None}
      /\ UNCHANGED <<vmlist, pte, present, free, live, strained, replaced, fault>>
  BY DEF DropLock, At, Mapping
<1>2. PICK step \in {"map", "table", "fail"} : step = "table"
  OBVIOUS
<1>3. Goto(t, step)
  BY <1>1, <1>2
<1> QED
  BY <1>1, <1>3, GotoKeeps

LEMMA NoTableKeeps ==
    ASSUME Inv, NEW t \in Tasks, NoTable(t)
    PROVE  Inv'
<1>1. stack[t] # <<>> /\ Mapping(Inner(t)) /\ Goto(t, "fail") /\ ptLock' \in Tasks \cup {None}
      /\ UNCHANGED <<vmlist, pte, present, free, live, strained, replaced, fault>>
  BY DEF NoTable, At, Mapping
<1>2. PICK step \in {"map", "table", "fail"} : step = "fail"
  OBVIOUS
<1>3. Goto(t, step)
  BY <1>1, <1>2
<1> QED
  BY <1>1, <1>3, GotoKeeps

LEMMA MapPagesKeeps ==
    ASSUME Inv, NEW t \in Tasks, MapPages(t)
    PROVE  Inv'
<1>1. /\ stack[t] # <<>> /\ Mapping(Inner(t)) /\ TableOf(Cur(t)) \in present /\ MapChunk(t, Mine(t), pte)
      /\ UNCHANGED <<vmlist, present, free, strained, replaced, fault>>
  BY DEF MapPages, At, Mapping
<1>2. present' \subseteq Tables /\ replaced' \in BOOLEAN
  BY <1>1 DEF Inv, TypeOK
<1>3. PICK tables : tables = pte
  OBVIOUS
<1>4. MapChunk(t, Mine(t), tables)
  BY <1>1, <1>3
<1> QED
  BY <1>1, <1>2, <1>3, <1>4, MapWorks

\* A new table maps what it replaces no more, which is nothing if there was none.
LEMMA NewTableKeeps ==
    ASSUME Inv, NEW t \in Tasks, NewTable(t)
    PROVE  Inv'
<1>1. PICK k : k = TableOf(Cur(t))
  OBVIOUS
<1>2. /\ stack[t] # <<>> /\ Inner(t).step = "table" /\ present' = present \cup {k}
      /\ replaced' = (replaced \/ k \in present)
      /\ MapChunk(t, Mine(t), Populated(k)) /\ UNCHANGED <<vmlist, free, strained, fault>>
  BY <1>1 DEF NewTable, At
<1>3. PICK tables : tables = Populated(k)
  OBVIOUS
<1>4. \A p \in Addresses : tables[p] = IF TableOf(p) = k THEN None ELSE pte[p]
  BY <1>3 DEF Populated
<1>5. ~replaced' => ~replaced /\ \A p \in Addresses : tables[p] = pte[p]
  BY <1>2, <1>4 DEF Inv, Tabled
<1>6. k \in Tables
  <2>1. PICK e, a, d, x : e = Inner(t) /\ a = Mine(t) /\ d = Depth(t) /\ x = Inner(t).addr
    OBVIOUS
  <2>2. Active(e)
    BY <1>2, <2>1 DEF Active
  <2>3. a \in Listed /\ Fits(e, a) /\ Title[<<"call", t, d>>] = x
    BY <1>2, <2>1, <2>2, MineFacts
  <2>4. Cur(t) \in Span(a)
    BY <1>2, <2>1, <2>3 DEF Fits, Mapping, Cur
  <2>5. Cur(t) \in Addresses
    BY <2>3, <2>4, InvLinked, AreaFacts
  <2> QED
    BY <1>1, <2>5 DEF Tables, TableOf
<1>7. present \subseteq present' /\ present' \subseteq Tables /\ TableOf(Cur(t)) \in present' /\ replaced' \in BOOLEAN
  BY <1>1, <1>2, <1>6 DEF Inv, TypeOK
<1>8. Mapping(Inner(t))
  BY <1>2 DEF Mapping
<1>9. MapChunk(t, Mine(t), tables)
  BY <1>2, <1>3
<1>10. \A p \in Addresses : tables[p] = pte[p] \/ tables[p] = None
  BY <1>4
<1> QED
  BY <1>2, <1>5, <1>7, <1>8, <1>9, <1>10, MapWorks

LEMMA MapFailsKeeps ==
    ASSUME Inv, NEW t \in Tasks, MapFails(t)
    PROVE  Inv'
<1>1. PICK d, x, a, e : d = Depth(t) /\ x = Inner(t).addr /\ a = Mine(t) /\ e = Inner(t)
  OBVIOUS
<1>2. stack[t] # <<>> /\ e.step = "fail" /\ Active(e) /\ Holds(e) = None
  BY <1>1 DEF MapFails, At, Active, Holds
<1>3. a \in Listed /\ a.addr = x /\ Fits(e, a) /\ Title[<<"call", t, d>>] = x
  BY <1>1, <1>2, MineFacts
<1>4. Whole(a)
  BY <1>2, <1>3 DEF Fits
<1>5. /\ Unlink(a)
      /\ IF a.array = None THEN Answer(t, None)
         ELSE Becomes(t, [Call("undo", a.addr) EXCEPT !.area = a]) /\ UNCHANGED live
      /\ UNCHANGED <<present, free, ptLock, strained, replaced, fault>>
  BY <1>1 DEF MapFails
<1>6. CASE a.array = None
  <2>1. \A i \in 1..Len(a.frames) : a.frames[i] \notin Frames
    BY <1>4, <1>6 DEF Whole, Stocked, Borrowed
  <2> QED
    BY <1>1, <1>2, <1>5, <1>6, <2>1, GivesUp
<1>7. CASE a.array # None
  <2>1. a \in AreaType /\ a.n \in Nat
    BY <1>3, InvLinked, AreaFacts
  <2>2. Taken(a)
    BY <1>4, <1>7, <2>1 DEF Whole, Stocked, Borrowed, Taken
  <2>3. Becomes(t, [Call("undo", a.addr) EXCEPT !.area = a]) /\ UNCHANGED <<present, free, ptLock, live, strained, replaced, fault>>
    BY <1>5, <1>7
  <2> QED
    BY <1>1, <1>2, <1>5, <2>1, <2>2, <2>3, Undoes
<1> QED
  BY <1>6, <1>7

LEMMA ReleaseKeeps ==
    ASSUME Inv, NEW t \in Tasks, Release(t)
    PROVE  Inv'
<1>1. CASE ~(Gone(t).nr > Ptrs)
  BY <1>1, KfreesArray
<1>2. CASE Gone(t).nr > Ptrs
  <2>1. PICK d, e, z : d = Depth(t) /\ e = Inner(t) /\ z = Gone(t)
    OBVIOUS
  <2>2. stack[t] # <<>> /\ e.step = "undo" /\ e.area = z
    BY <2>1 DEF Release, At, Gone
  <2>3. Linked /\ ListFacts /\ Owned /\ Served
    BY InvLinked DEF Inv
  <2>4. PICK s \in Seq(CallType) : s = stack[t] /\ s # <<>> /\ StackedIn(s) /\ d = Len(s)
    BY <2>1, <2>2, StackFacts
  <2>5. d \in Nat \ {0} /\ e = s[d] /\ e \in CallType /\ Sound(e) /\ z \in AreaType
    <3>1. e = s[d]
      BY <2>1, <2>4 DEF Inner
    <3>2. d \in Nat \ {0} /\ e \in CallType /\ Sound(e)
      BY <2>4, <3>1, StackTop
    <3> QED
      BY <2>2, <3>1, <3>2, CallParts
  <2>6. Taken(z)
    BY <2>2, <2>5 DEF Sound
  <2>7. PICK x : x = z.array
    OBVIOUS
  <2>8. x \in Addresses
    <3>1. z.nr \in Nat /\ z.n \in Nat /\ z.array \in Addresses \cup {Slab, None}
      BY <2>5 DEF AreaType
    <3> QED
      BY <1>2, <2>1, <2>6, <2>7, <3>1, Constants DEF Taken
  <2>9. KeptIn(s) = x /\ GoneIn(s) = z.frames /\ BuiltIn(s, d) = None
    <3>1. Holds(e) = x /\ Takes(e) = z.frames /\ Builds(e) = None
      BY <2>2, <2>7 DEF Holds, Takes, Builds, Active
    <3> QED
      BY <2>4, <2>5, <3>1, StackTop
  <2>10. PICK o : o = <<"keep", t, 0>>
    OBVIOUS
  <2>11. o \in Owners /\ Title[o] = x
    BY <2>4, <2>9, <2>10, OwnerKinds, Titles
  <2>12. PICK a : a = AreaAt(x)
    OBVIOUS
  <2>13. Has(x) /\ a \in Listed /\ a.addr = x
    BY <2>3, <2>8, <2>11, <2>12, OwnedFacts DEF ListFacts
  <2>14. Whole(a) /\ Stocked(a)
    <3>1. Serves(o, a)
      BY <2>3, <2>8, <2>11, <2>12 DEF Served, Right
    <3> QED
      BY <2>10, <3>1 DEF Serves
  <2>15. a \in AreaType /\ a.n \in Nat
    BY <2>3, <2>13, AreaFacts
  <2>16. Taken(a)
    BY <2>14, <2>15 DEF Whole, Stocked, Taken
  <2>17. PICK c : c = [Call("undo", x) EXCEPT !.area = a]
    OBVIOUS
  <2>18. c \in CallType /\ c.step = "undo" /\ c.area = a
    <3>1. a \in AreaType
      BY <2>15
    <3>2. NoArea \in AreaType
      BY DEF NoArea, Area, AreaType
    <3> HIDE DEF NoArea, AreaType
    <3> QED
      BY <2>8, <2>17, <3>1, <3>2 DEF Call, CallType
  <2>19. PICK r : r = [s EXCEPT ![d] = c]
    OBVIOUS
  <2>20. Replaced(s, c, d, r)
    BY <2>4, <2>18, <2>19, GoesOn
  <2>21. Holds(c) = a.array /\ Takes(c) = a.frames /\ Sound(c) /\ Builds(c) = None
    BY <2>16, <2>18 DEF Holds, Takes, Sound, Builds, Active
  <2>22. /\ r \in Seq(CallType) /\ KeptIn(r) = a.array /\ GoneIn(r) = a.frames /\ StackedIn(r) /\ BuiltIn(r, d) = None
         /\ \A i \in Nat : i # d => BuiltIn(r, i) = BuiltIn(s, i) /\ (BuiltIn(s, i) # None => r[i] = s[i])
    BY <2>4, <2>20, <2>21 DEF Replaced
  <2>23. /\ free' = free \cup {z.frames[i] : i \in 1..z.nr} /\ Unlink(a) /\ Becomes(t, c)
         /\ live' = live /\ UNCHANGED <<present, ptLock, strained, replaced, fault>>
    BY <1>2, <2>1, <2>7, <2>12, <2>13, <2>17 DEF Release
  <2>24. stack' = [stack EXCEPT ![t] = r]
    BY <2>1, <2>4, <2>19, <2>23 DEF Becomes
  <2>25. PICK m \in Nat : m = z.nr /\ m = Len(z.frames)
    BY <2>5, <2>6 DEF Taken, AreaType
  <2>26. /\ m = Len(GoneIn(stack[t])) /\ \A i \in 1..m : GoneIn(stack[t])[i] \in Frames
         /\ free' = free \cup {GoneIn(stack[t])[i] : i \in 1..m}
    BY <2>4, <2>6, <2>9, <2>23, <2>25 DEF Taken, AllFrames
  <2>27. /\ o \in {<<"call", t, d>>, <<"keep", t, 0>>, <<"user", x, 0>>} /\ o # <<"user", x, 0>> /\ o # <<"call", t, d>>
         /\ \A i \in Nat : <<"call", t, i>> # o
    <3>1. o[1] = "keep" /\ \A i \in Nat : <<"call", t, i>>[1] = "call"
      BY <2>10
    <3>2. <<"user", x, 0>>[1] = "user" /\ <<"call", t, d>>[1] = "call"
      OBVIOUS
    <3> QED
      BY <2>10, <3>1, <3>2
  <2>28. \A i \in Nat : BuiltIn(r, i) = BuiltIn(stack[t], i) /\ (BuiltIn(stack[t], i) # None => r[i] = stack[t][i])
    <3> TAKE i \in Nat
    <3>1. CASE i = d
      BY <2>4, <2>9, <2>22, <3>1
    <3>2. CASE i # d
      BY <2>4, <2>22, <3>2
    <3> QED
      BY <3>1, <3>2
  <2>29. live' = IF o = <<"user", x, 0>> THEN live \ {x} ELSE live
    BY <2>23, <2>27
  <2>30. vmlist' = Removed(a) /\ pte' = Unmapped(a)
    BY <2>23 DEF Unlink
  <2>31. /\ KeptIn(stack[t]) # None => o = <<"keep", t, 0>>
         /\ o = <<"call", t, d>> => BuiltIn(r, d) = None
         /\ \A i \in Nat : <<"call", t, i>> # o =>
               BuiltIn(r, i) = BuiltIn(stack[t], i) /\ (BuiltIn(stack[t], i) # None => r[i] = stack[t][i])
    BY <2>10, <2>22, <2>28
  <2>32. d \in Nat
    BY <2>5
  <2> QED
    BY <2>8, <2>11, <2>12, <2>22, <2>23, <2>24, <2>26, <2>27, <2>29, <2>30, <2>31, <2>32, TakesDown
<1> QED
  BY <1>1, <1>2

LEMMA VunmapKeeps ==
    ASSUME Inv, NEW t \in Tasks, NEW x \in live, Vunmap(t, x)
    PROVE  Inv'
<1>1. CASE AreaAt(x).array = None
  BY <1>1, UserUnmaps
<1>2. CASE AreaAt(x).array # None
  <2>1. Linked /\ ListFacts /\ Owned /\ Served /\ TypeOK
    BY InvLinked DEF Inv
  <2>2. x \in Addresses
    BY <2>1 DEF TypeOK
  <2>3. PICK o : o = <<"user", x, 0>>
    OBVIOUS
  <2>4. o \in Owners /\ Title[o] = x
    BY <2>2, <2>3, OwnerKinds, Titles
  <2>5. PICK a : a = AreaAt(x)
    OBVIOUS
  <2>6. Has(x) /\ a \in Listed /\ a.addr = x
    BY <2>1, <2>2, <2>4, <2>5, OwnedFacts DEF ListFacts
  <2>7. Whole(a)
    <3>1. Serves(o, a)
      BY <2>1, <2>2, <2>4, <2>5 DEF Served, Right
    <3> QED
      BY <2>3, <3>1 DEF Serves
  <2>8. a \in AreaType /\ a.n \in Nat
    BY <2>1, <2>6, AreaFacts
  <2>9. Taken(a)
    BY <1>2, <2>5, <2>7, <2>8 DEF Whole, Stocked, Borrowed, Taken
  <2>10. PICK c : c = [Call("undo", x) EXCEPT !.area = a]
    OBVIOUS
  <2>11. c \in CallType /\ c.step = "undo" /\ c.area = a
    <3>1. a \in AreaType
      BY <2>8
    <3>2. NoArea \in AreaType
      BY DEF NoArea, Area, AreaType
    <3> HIDE DEF NoArea, AreaType
    <3> QED
      BY <2>2, <2>10, <3>1, <3>2 DEF Call, CallType
  <2>12. PICK s \in Seq(CallType) : s = <<>> /\ Len(s) = 0 /\ s = stack[t]
    <3>1. <<>> \in Seq(CallType) /\ Len(<<>>) = 0
      OBVIOUS
    <3>2. stack[t] = <<>>
      BY DEF Vunmap
    <3> QED
      BY <3>1, <3>2
  <2>13. PICK r : r = Append(s, c)
    OBVIOUS
  <2>14. PICK k \in Nat : k = 1 /\ k = Len(s) + 1
    BY <2>12
  <2>15. Pushed(s, c, k, r)
    BY <2>11, <2>13, <2>14, Starts
  <2>16. stack' = [stack EXCEPT ![t] = r]
    <3>1. stack' = [stack EXCEPT ![t] = <<c>>]
      BY <1>2, <2>5, <2>10 DEF Vunmap
    <3>2. s = <<>>
      BY <2>12
    <3>3. r = <<c>>
      BY <2>13, <3>2
    <3> QED
      BY <3>1, <3>3
  <2>17. Holds(c) = a.array /\ Takes(c) = a.frames /\ Sound(c) /\ Builds(c) = None
    BY <2>9, <2>11 DEF Holds, Takes, Sound, Builds, Active
  <2>18. 1..Len(s) = {}
    BY <2>12
  <2>19. /\ r \in Seq(CallType) /\ KeptIn(r) = a.array /\ GoneIn(r) = a.frames /\ StackedIn(r) /\ BuiltIn(r, k) = None
         /\ \A i \in Nat : i # k => BuiltIn(r, i) = BuiltIn(s, i) /\ (BuiltIn(s, i) # None => r[i] = s[i])
    BY <2>15, <2>17, <2>18 DEF Pushed
  <2>20. KeptIn(s) = None /\ GoneIn(s) = <<>> /\ \A i \in Nat : BuiltIn(s, i) = None
    BY <2>12, <2>18 DEF KeptIn, GoneIn, BuiltIn
  <2>21. o \in {<<"call", t, k>>, <<"keep", t, 0>>, <<"user", x, 0>>} /\ o # <<"call", t, k>>
    <3>1. o[1] = "user" /\ <<"call", t, k>>[1] = "call"
      BY <2>3
    <3> QED
      BY <2>3, <3>1
  <2>22. /\ KeptIn(stack[t]) # None => o = <<"keep", t, 0>>
         /\ o = <<"call", t, k>> => BuiltIn(r, k) = None
         /\ \A i \in Nat : <<"call", t, i>> # o =>
               BuiltIn(r, i) = BuiltIn(stack[t], i) /\ (BuiltIn(stack[t], i) # None => r[i] = stack[t][i])
    BY <2>12, <2>19, <2>20
  <2>23. live' = IF o = <<"user", x, 0>> THEN live \ {x} ELSE live
    BY <2>3 DEF Vunmap
  <2>24. vmlist' = Removed(a) /\ pte' = Unmapped(a) /\ UNCHANGED <<present, free, ptLock, strained, replaced, fault>>
    BY <2>5 DEF Vunmap, Unlink
  <2>25. PICK m \in Nat : m = 0
    OBVIOUS
  <2>26. /\ m = Len(GoneIn(stack[t])) /\ \A i \in 1..m : GoneIn(stack[t])[i] \in Frames
         /\ free' = free \cup {GoneIn(stack[t])[i] : i \in 1..m}
    <3>1. Len(<<>>) = 0 /\ 1..m = {}
      BY <2>25
    <3> QED
      BY <2>12, <2>20, <2>24, <2>25, <3>1
  <2> QED
    BY <2>2, <2>4, <2>5, <2>16, <2>19, <2>21, <2>22, <2>23, <2>24, <2>26, TakesDown
<1> QED
  BY <1>1, <1>2

(****************************************************************************)
(* The invariant.                                                           *)
(****************************************************************************)
LEMMA InitInv == Init => Inv
<1> SUFFICES ASSUME Init
             PROVE  Inv
  OBVIOUS
<1> USE DEF Init
<1>1. Len(<<>>) = 0 /\ <<>> \in Seq(AreaType) /\ <<>> \in Seq(CallType) /\ 1..Len(<<>>) = {}
  OBVIOUS
<1>2. TypeOK
  BY <1>1 DEF TypeOK
<1>3. Listed = {}
  BY <1>1 DEF Listed, ToSet
<1>4. Ordered /\ Ranged
  BY <1>1, <1>3 DEF Ordered, Ranged
<1>5. \A t \in Tasks : stack[t] = <<>>
  OBVIOUS
<1>6. Stacked
  BY <1>1, <1>5 DEF Stacked, StackedIn
<1>7. /\ \A i \in Nat : BuiltIn(<<>>, i) = None
      /\ KeptIn(<<>>) = None /\ GoneIn(<<>>) = <<>>
  BY <1>1 DEF BuiltIn, KeptIn, GoneIn
<1>8. \A x : ArrayOf(x) = None /\ PagesOf(x) = <<>>
  BY <1>3 DEF ArrayOf, PagesOf, Has
<1>9. \A o \in Owners : Title[o] = None
  <2> TAKE o \in Owners
  <2>1. CASE \E t \in Tasks, i \in Nat : o = <<"call", t, i>>
    BY <1>5, <1>7, <2>1, Titles
  <2>2. CASE \E t \in Tasks : o = <<"keep", t, 0>>
    BY <1>5, <1>7, <2>2, Titles
  <2>3. CASE \E x \in Addresses : o = <<"area", x, 0>>
    BY <1>8, <2>3, Titles
  <2>4. CASE \E x \in Addresses : o = <<"user", x, 0>>
    BY <2>4, Titles
  <2> QED
    BY <2>1, <2>2, <2>3, <2>4, OwnerKinds
<1>10. DOMAIN Title = Owners
  BY Titles
<1>11. Owned /\ Served
  BY <1>3, <1>9, <1>10, Constants DEF Owned, Unique, Served
<1>12. \A h \in Holders : FrameAt[h] = None
  <2> TAKE h \in Holders
  <2>1. \A j \in Nat \ {0} : Entry(<<>>, j) = None
    BY <1>1 DEF Entry
  <2>2. CASE \E x \in Addresses, j \in Nat \ {0} : h = <<"area", x, j>>
    BY <1>8, <2>1, <2>2, Places
  <2>3. CASE \E t \in Tasks, j \in Nat \ {0} : h = <<"undo", t, j>>
    BY <1>5, <1>7, <2>1, <2>3, Places
  <2> QED
    BY <2>2, <2>3, HolderKinds
<1>13. DOMAIN FrameAt = Holders
  BY Places
<1>14. Framed
  BY <1>12, <1>13, Constants DEF Framed, Unique
<1>15. Tabled
  BY DEF Tabled
<1> QED
  BY <1>2, <1>4, <1>6, <1>11, <1>14, <1>15 DEF Inv

\* A step that changes nothing but what has gone wrong.
LEMMA StaysInv ==
    ASSUME Inv, UNCHANGED <<vmlist, pte, present, free, ptLock, stack, live, strained, replaced>>,
           fault' \in {"none", "clear", "kfree", "access"}
    PROVE  Inv'
<1>1. TypeOK' /\ Ordered' /\ Ranged' /\ Stacked'
  BY DEF Inv, TypeOK, Ordered, Ranged, Stacked, Listed
<1>2. Title' = Title /\ FrameAt' = FrameAt /\ Listed' = Listed
  BY DEF Title, FrameAt, Listed, ArrayOf, PagesOf, Has, AreaAt, Place
<1>3. Owned' /\ Framed'
  BY <1>2 DEF Inv, Owned, Framed
<1>4. Served' /\ Tabled'
  BY <1>2 DEF Inv, Served, Right, Serves, Shows, Caller, AreaAt, Place, Tabled
<1> QED
  BY <1>1, <1>3, <1>4 DEF Inv

LEMMA FaultKeeps ==
    ASSUME Inv, NEW t \in Tasks, ClearsWildly(t) \/ KfreesArea(t) \/ Touches(t)
    PROVE  Inv'
<1>1. UNCHANGED <<vmlist, pte, present, free, ptLock, stack, live, strained, replaced>>
  BY DEF ClearsWildly, KfreesArea, Touches
<1>2. fault' \in {"none", "clear", "kfree", "access"}
  BY DEF ClearsWildly, KfreesArea, Touches
<1> QED
  BY <1>1, <1>2, StaysInv

LEMMA NextInv == Inv /\ [Next]_vars => Inv'
<1> SUFFICES ASSUME Inv, [Next]_vars
             PROVE  Inv'
  OBVIOUS
<1>1. CASE UNCHANGED vars
  <2>1. UNCHANGED <<vmlist, pte, present, free, ptLock, stack, live, strained, replaced>> /\ fault' = fault
    BY <1>1 DEF vars
  <2>2. fault' \in {"none", "clear", "kfree", "access"}
    BY <2>1 DEF Inv, TypeOK
  <2> QED
    BY <2>1, <2>2, StaysInv
<1>2. ASSUME NEW t \in Tasks, NEW n \in VmallocSizes, Vmalloc(t, n)
      PROVE  Inv'
  BY <1>2, VmallocKeeps
<1>3. ASSUME NEW t \in Tasks, NEW n \in VmapSizes, NEW io \in BOOLEAN, NEW pages \in PageLists(n), Vmap(t, n, io, pages)
      PROVE  Inv'
  BY <1>3, VmapKeeps
<1>4. ASSUME NEW t \in Tasks, NEW addr \in live, Vunmap(t, addr)
      PROVE  Inv'
  BY <1>4, VunmapKeeps
<1>5. ASSUME NEW t \in Tasks, NestArray(t)
      PROVE  Inv'
  BY <1>5, NestArrayKeeps
<1>6. ASSUME NEW t \in Tasks, SlabArray(t)
      PROVE  Inv'
  BY <1>6, SlabArrayKeeps
<1>7. ASSUME NEW t \in Tasks, NoArray(t)
      PROVE  Inv'
  BY <1>7, NoArrayKeeps
<1>8. ASSUME NEW t \in Tasks, ArrayGiven(t)
      PROVE  Inv'
  BY <1>8, ArrayTaken
<1>9. ASSUME NEW t \in Tasks, AllocPage(t)
      PROVE  Inv'
  BY <1>9, PageGiven
<1>10. ASSUME NEW t \in Tasks, AllocPageFails(t)
       PROVE  Inv'
  BY <1>10, AllocPageFailsKeeps
<1>11. ASSUME NEW t \in Tasks, LockTables(t)
       PROVE  Inv'
  BY <1>11, LockTablesKeeps
<1>12. ASSUME NEW t \in Tasks, MapPages(t)
       PROVE  Inv'
  BY <1>12, MapPagesKeeps
<1>13. ASSUME NEW t \in Tasks, DropLock(t)
       PROVE  Inv'
  BY <1>13, DropLockKeeps
<1>14. ASSUME NEW t \in Tasks, NewTable(t)
       PROVE  Inv'
  BY <1>14, NewTableKeeps
<1>15. ASSUME NEW t \in Tasks, NoTable(t)
       PROVE  Inv'
  BY <1>15, NoTableKeeps
<1>16. ASSUME NEW t \in Tasks, MapFails(t)
       PROVE  Inv'
  BY <1>16, MapFailsKeeps
<1>17. ASSUME NEW t \in Tasks, Release(t)
       PROVE  Inv'
  BY <1>17, ReleaseKeeps
<1>18. ASSUME NEW t \in Tasks, ClearsWildly(t) \/ KfreesArea(t) \/ Touches(t)
       PROVE  Inv'
  BY <1>18, FaultKeeps
<1> QED
  BY <1>1, <1>2, <1>3, <1>4, <1>5, <1>6, <1>7, <1>8, <1>9, <1>10, <1>11, <1>12, <1>13, <1>14, <1>15, <1>16, <1>17, <1>18
     DEF Next, Continue

\* Whoever allocates, maps, fails or frees, each area, array and frame has one owner, and is as
\* complete and as far mapped as that owner takes it to be.
THEOREM InvAlways == Spec => []Inv
<1> QED
  BY InitInv, NextInv, PTL DEF Spec

\* Every variable has its type: only pages that were given to an area are ever freed, and a call
\* on a task's stack goes on with what it had.
THEOREM TypeCorrect == Spec => []TypeOK
<1>1. Inv => TypeOK
  BY DEF Inv
<1> QED
  BY <1>1, InvAlways, PTL

(****************************************************************************)
(* What the invariant says of the list, the areas, the frames and the page  *)
(* tables.                                                                  *)
(****************************************************************************)
LEMMA InvPlaced ==
    ASSUME Inv
    PROVE  AreasPlaced
<1>1. Linked
  BY InvLinked
<1>2. Len(vmlist) \in Nat
  BY <1>1, SeqParts DEF Linked
<1>3. ASSUME NEW i \in 1..(Len(vmlist) - 1)
      PROVE  Limit(vmlist[i]) <= vmlist[i + 1].addr
  <2>1. i \in 1..Len(vmlist) /\ i + 1 \in 1..Len(vmlist) /\ i < i + 1
    BY <1>2
  <2> QED
    BY <1>1, <2>1 DEF Linked, Ordered
<1>4. \A a \in Listed : a.addr >= VmStart /\ (~strained => Limit(a) <= VmEnd)
  <2> TAKE a \in Listed
  <2>1. a.addr \in Addresses /\ a.addr \in Nat /\ (~strained => Limit(a) <= VmEnd)
    BY <1>1, AreaFacts DEF Linked, Ranged
  <2> QED
    BY <2>1, Constants
<1> QED
  BY <1>3, <1>4 DEF AreasPlaced, AreasApart, WithinRange

\* Whose an area is, by the kind of its owner.
HeldBy(K, x) == \E o \in Owners : o[1] \in K /\ Title[o] = x

LEMMA BuildingFacts ==
    ASSUME Inv
    PROVE  Building \subseteq Addresses /\ \A x \in Addresses : x \in Building <=> HeldBy({"call"}, x)
<1>1. ASSUME NEW x, x \in Building
      PROVE  x \in Addresses /\ HeldBy({"call"}, x)
  <2>0. PICK c \in Calls : Active(c) /\ c.addr = x
    BY <1>1 DEF Building, Active
  <2>1. PICK t \in Tasks : c \in ToSet(stack[t])
    BY DEF Calls
  <2>2. PICK s \in Seq(CallType) : s = stack[t]
    BY StackFacts
  <2>3. PICK i \in 1..Len(s) : s[i] = c
    BY <2>1, <2>2, SeqParts
  <2>4. i \in Nat /\ c \in CallType /\ x \in Addresses
    BY <2>0, <2>3, SeqParts, CallParts
  <2>5. PICK o : o = <<"call", t, i>>
    OBVIOUS
  <2>6. o \in Owners /\ Title[o] = BuiltIn(s, i)
    BY <2>2, <2>4, <2>5, OwnerKinds, Titles
  <2>7. BuiltIn(s, i) = x
    BY <2>0, <2>3 DEF BuiltIn
  <2>8. o[1] \in {"call"}
    BY <2>5
  <2> QED
    BY <2>4, <2>6, <2>7, <2>8 DEF HeldBy
<1>2. ASSUME NEW x \in Addresses, HeldBy({"call"}, x)
      PROVE  x \in Building
  <2>1. PICK o \in Owners : o[1] = "call" /\ Title[o] = x
    BY <1>2 DEF HeldBy
  <2>2. PICK t \in Tasks, i \in Nat : o = <<"call", t, i>>
    BY <2>1 DEF Owners
  <2>3. PICK s \in Seq(CallType) : s = stack[t]
    BY StackFacts
  <2>4. BuiltIn(s, i) = x /\ x # None
    BY <2>1, <2>2, <2>3, Titles, Constants
  <2>5. i \in 1..Len(s) /\ Active(s[i]) /\ s[i].addr = x
    BY <2>4 DEF BuiltIn
  <2>6. s[i] \in ToSet(stack[t])
    BY <2>3, <2>5, SeqParts
  <2> QED
    BY <2>5, <2>6 DEF Building, Calls, Active
<1> QED
  BY <1>1, <1>2

LEMMA ArraysFacts ==
    ASSUME Inv
    PROVE  Arrays \subseteq Addresses /\ \A x \in Addresses : x \in Arrays <=> HeldBy({"keep", "area"}, x)
<1>0. Linked /\ ListFacts
  BY InvLinked
<1>1. \A x \in Addresses : x # Slab /\ x # None
  BY Constants
<1>2. ASSUME NEW a \in Listed, a.array \in Addresses
      PROVE  HeldBy({"keep", "area"}, a.array)
  <2>1. PICK o : o = <<"area", a.addr, 0>>
    OBVIOUS
  <2>2. a.addr \in Addresses /\ Has(a.addr) /\ AreaAt(a.addr) = a
    BY <1>0, AreaFacts DEF ListFacts
  <2>3. o \in Owners /\ Title[o] = a.array
    BY <2>1, <2>2, OwnerKinds, Titles DEF ArrayOf
  <2>4. o[1] \in {"keep", "area"}
    BY <2>1
  <2> QED
    BY <2>3, <2>4 DEF HeldBy
<1>3. ASSUME NEW t \in Tasks, KeptIn(stack[t]) \in Addresses
      PROVE  HeldBy({"keep", "area"}, KeptIn(stack[t]))
  <2>1. PICK o : o = <<"keep", t, 0>>
    OBVIOUS
  <2>2. o \in Owners /\ Title[o] = KeptIn(stack[t])
    BY <2>1, OwnerKinds, Titles
  <2>3. o[1] \in {"keep", "area"}
    BY <2>1
  <2> QED
    BY <2>2, <2>3 DEF HeldBy
<1>4. ASSUME NEW t \in Undoing
      PROVE  t \in Tasks /\ KeptIn(stack[t]) = Gone(t).array /\ Gone(t) \in AreaType
  <2>1. t \in Tasks /\ stack[t] # <<>> /\ Inner(t).step = "undo"
    BY DEF Undoing, At
  <2>2. PICK s \in Seq(CallType) : s = stack[t] /\ s # <<>> /\ Inner(t) = s[Len(s)]
    BY <2>1, StackFacts DEF Inner
  <2>3. Len(s) \in 1..Len(s)
    BY <2>2, SeqParts
  <2>4. Inner(t) \in CallType
    BY <2>2, <2>3, SeqParts
  <2> QED
    BY <2>1, <2>2, <2>4, CallParts DEF KeptIn, Gone
<1>5. ASSUME NEW c \in Calls, c.step = "given"
      PROVE  \E t \in Tasks : KeptIn(stack[t]) = c.cur /\ c.cur \in Addresses \cup {Slab, None}
  <2>1. PICK t \in Tasks : c \in ToSet(stack[t])
    BY DEF Calls
  <2>2. PICK s \in Seq(CallType) : s = stack[t] /\ StackedIn(s)
    BY StackFacts
  <2>3. PICK i \in 1..Len(s) : s[i] = c
    BY <2>1, <2>2, SeqParts
  <2>4. ~(i < Len(s)) /\ c \in CallType /\ Len(s) \in Nat /\ s # <<>>
    BY <1>5, <2>2, <2>3, SeqParts DEF StackedIn
  <2>5. i = Len(s)
    BY <2>4
  <2>6. KeptIn(s) = c.cur
    BY <1>5, <2>3, <2>4, <2>5 DEF KeptIn
  <2> QED
    BY <2>2, <2>4, <2>6, CallParts
<1>6. ASSUME NEW x, x \in Arrays
      PROVE  x \in Addresses /\ HeldBy({"keep", "area"}, x)
  <2>1. x # Slab /\ x # None
    BY <1>6 DEF Arrays
  <2>2. CASE \E a \in Listed : x = a.array
    BY <1>0, <1>2, <2>1, <2>2, AreaFacts
  <2>3. CASE \E t \in Undoing : x = Gone(t).array
    <3>1. PICK t \in Undoing : x = Gone(t).array
      BY <2>3
    <3>2. t \in Tasks /\ KeptIn(stack[t]) = x /\ x \in Addresses
      BY <1>4, <2>1, <3>1 DEF AreaType
    <3> QED
      BY <1>3, <3>2
  <2>4. CASE \E c \in Calls : c.step = "given" /\ x = c.cur
    <3>1. PICK t \in Tasks : KeptIn(stack[t]) = x /\ x \in Addresses
      BY <1>5, <2>1, <2>4
    <3> QED
      BY <1>3, <3>1
  <2> QED
    BY <1>6, <2>2, <2>3, <2>4 DEF Arrays
<1>7. ASSUME NEW x \in Addresses, HeldBy({"keep", "area"}, x)
      PROVE  x \in Arrays
  <2>1. PICK o \in Owners : o[1] \in {"keep", "area"} /\ Title[o] = x
    BY <1>7 DEF HeldBy
  <2>2. x # Slab /\ x # None
    BY <1>1
  <2>3. CASE o[1] = "area"
    <3>1. PICK y \in Addresses : o = <<"area", y, 0>>
      BY <2>3 DEF Owners
    <3>2. ArrayOf(y) = x
      BY <2>1, <3>1, Titles
    <3>3. AreaAt(y) \in Listed /\ AreaAt(y).array = x
      BY <1>0, <2>2, <3>2 DEF ArrayOf, ListFacts
    <3> QED
      BY <2>2, <3>3 DEF Arrays
  <2>4. CASE o[1] = "keep"
    <3>1. PICK t \in Tasks : o = <<"keep", t, 0>>
      BY <2>4 DEF Owners
    <3>2. PICK s \in Seq(CallType) : s = stack[t] /\ KeptIn(s) = x
      BY <2>1, <3>1, Titles, StackFacts
    <3>3. s # <<>> /\ s[Len(s)].step \in {"given", "undo"}
      BY <2>2, <3>2 DEF KeptIn
    <3>4. CASE s[Len(s)].step = "given"
      <4>1. Len(s) \in 1..Len(s)
        BY <3>3, SeqParts
      <4>2. s[Len(s)] \in ToSet(stack[t]) /\ s[Len(s)].cur = x
        BY <3>2, <3>3, <3>4, <4>1, SeqParts DEF KeptIn
      <4>3. s[Len(s)] \in Calls
        BY <4>2 DEF Calls
      <4> QED
        BY <2>2, <3>4, <4>2, <4>3 DEF Arrays
    <3>5. CASE s[Len(s)].step = "undo"
      <4>1. t \in Undoing /\ Gone(t).array = x
        BY <3>2, <3>3, <3>5 DEF Undoing, At, Inner, Depth, Gone, KeptIn
      <4> QED
        BY <2>2, <4>1 DEF Arrays
    <3> QED
      BY <3>3, <3>4, <3>5
  <2> QED
    BY <2>1, <2>3, <2>4
<1> QED
  BY <1>6, <1>7

LEMMA InvOwned ==
    ASSUME Inv
    PROVE  AreasOwned
<1>1. Linked /\ ListFacts /\ Owned /\ live \subseteq Addresses
  BY InvLinked DEF Inv, TypeOK
<1>2. ASSUME NEW x \in Addresses
      PROVE  x \in live <=> HeldBy({"user"}, x)
  <2>1. \A o \in Owners : o[1] = "user" /\ Title[o] = x => o = <<"user", x, 0>>
    <3> TAKE o \in Owners
    <3> HAVE o[1] = "user" /\ Title[o] = x
    <3>1. PICK y \in Addresses : o = <<"user", y, 0>>
      BY DEF Owners
    <3>2. Title[o] \in {y, None} /\ x # None
      BY <3>1, Titles, Constants
    <3> QED
      BY <3>1, <3>2
  <2>2. PICK u \in Owners : u = <<"user", x, 0>> /\ u[1] = "user" /\ (Title[u] = x <=> x \in live)
    <3>1. PICK u : u = <<"user", x, 0>>
      OBVIOUS
    <3>2. u \in Owners /\ Title[u] = (IF x \in live THEN x ELSE None) /\ x # None
      BY <3>1, OwnerKinds, Titles, Constants
    <3>3. u[1] = "user"
      BY <3>1
    <3> QED
      BY <3>1, <3>2, <3>3
  <2> QED
    BY <2>1, <2>2 DEF HeldBy
<1>3. \A o \in Owners : o[1] \in {"call", "keep", "area", "user"}
  BY DEF Owners
<1>4. /\ \A o, p \in Owners : Title[o] \in Addresses /\ Title[o] = Title[p] => o = p
      /\ \A x \in Addresses : Has(x) <=> \E o \in Owners : Title[o] = x
      /\ \A x : Has(x) => x \in Addresses
  BY <1>1, OwnedFacts DEF ListFacts
<1>5. PICK B, A : B = Building /\ A = Arrays
  OBVIOUS
<1>6. /\ B \subseteq Addresses /\ \A x \in Addresses : x \in B <=> HeldBy({"call"}, x)
      /\ A \subseteq Addresses /\ \A x \in Addresses : x \in A <=> HeldBy({"keep", "area"}, x)
  BY <1>5, BuildingFacts, ArraysFacts
<1>7. \A x : Has(x) <=> x \in live \cup B \cup A
  <2>1. \A x \in Addresses : Has(x) <=> x \in live \cup B \cup A
    BY <1>2, <1>3, <1>4, <1>6 DEF HeldBy
  <2> QED
    BY <1>1, <1>4, <1>6, <2>1
<1>8. \A K, L : \A x \in Addresses : K \cap L = {} => ~(HeldBy(K, x) /\ HeldBy(L, x))
  BY <1>4 DEF HeldBy
<1>9. ASSUME NEW x \in Addresses
      PROVE  /\ ~(x \in live /\ x \in B) /\ ~(x \in live /\ x \in A)
             /\ ~(x \in B /\ x \in A)
  <2>1. /\ {"user"} \cap {"call"} = {} /\ {"user"} \cap {"keep", "area"} = {}
        /\ {"call"} \cap {"keep", "area"} = {}
    OBVIOUS
  <2> QED
    BY <1>2, <1>6, <1>8, <2>1, Zenon
<1>10. {a.addr : a \in Listed} = live \cup B \cup A
  BY <1>1, <1>7 DEF ListFacts
<1>11. live \cap (B \cup A) = {} /\ B \cap A = {}
  BY <1>1, <1>6, <1>9
<1> QED
  BY <1>5, <1>10, <1>11 DEF AreasOwned

LEMMA InvMapped ==
    ASSUME Inv, ~replaced
    PROVE  Mapped
<1>1. Linked /\ ListFacts /\ Owned /\ Served /\ Tabled
  BY InvLinked DEF Inv
<1>2. ASSUME NEW a \in Listed, NEW p \in Span(a)
      PROVE  \/ p - a.addr < Len(a.frames) /\ pte[p] = a.frames[p - a.addr + 1]
             \/ a.addr \in Building /\ pte[p] = None
  <2>1. a.addr \in Addresses /\ Has(a.addr) /\ AreaAt(a.addr) = a
    BY <1>1, AreaFacts DEF ListFacts
  <2>2. PICK o \in Owners : Title[o] = a.addr
    BY <1>1, <2>1, OwnedFacts
  <2>3. Shows(o, a)
    BY <1>1, <2>1, <2>2 DEF Served, Right
  <2>4. o[1] = "call" => a.addr \in Building
    BY <2>1, <2>2, BuildingFacts DEF HeldBy
  <2> QED
    BY <2>3, <2>4 DEF Shows
<1>3. \A p \in Addresses : (\A a \in Listed : p \notin Span(a)) => pte[p] = None
  BY <1>1 DEF Tabled
<1> QED
  BY <1>2, <1>3 DEF Mapped

\* Where the frames of an area on the list are, and those of one that is being taken down.
LEMMA FramesPlaced ==
    ASSUME Inv
    PROVE  /\ \A a \in Listed : /\ a.frames \in Seq(Frames \cup {Lent, None}) /\ a.addr \in Addresses
                                /\ \A i \in Nat \ {0} : /\ <<"area", a.addr, i>> \in Holders
                                                        /\ FrameAt[<<"area", a.addr, i>>] = Entry(a.frames, i)
           /\ \A t \in Undoing : /\ Gone(t).frames \in Seq(Frames \cup {Lent, None}) /\ t \in Tasks
                                 /\ \A i \in Nat \ {0} : /\ <<"undo", t, i>> \in Holders
                                                         /\ FrameAt[<<"undo", t, i>>] = Entry(Gone(t).frames, i)
           /\ \A h \in Holders : FrameAt[h] \in Frames =>
                 \/ \E a \in Listed : h[3] \in 1..Len(a.frames) /\ h = <<"area", a.addr, h[3]>> /\ a.frames[h[3]] = FrameAt[h]
                 \/ \E t \in Undoing : /\ h[3] \in 1..Len(Gone(t).frames) /\ h = <<"undo", t, h[3]>>
                                       /\ Gone(t).frames[h[3]] = FrameAt[h]
<1>1. Linked /\ ListFacts
  BY InvLinked
<1>2. None \notin Frames
  BY Constants
<1>3. ASSUME NEW a \in Listed
      PROVE  /\ a.frames \in Seq(Frames \cup {Lent, None}) /\ a.addr \in Addresses
             /\ \A i \in Nat \ {0} : /\ <<"area", a.addr, i>> \in Holders
                                     /\ FrameAt[<<"area", a.addr, i>>] = Entry(a.frames, i)
  <2>1. a.frames \in Seq(Frames \cup {Lent, None}) /\ a.addr \in Addresses /\ PagesOf(a.addr) = a.frames
    BY <1>1, AreaFacts DEF ListFacts, PagesOf
  <2> QED
    BY <2>1, HolderKinds, Places
<1>4. ASSUME NEW t \in Undoing
      PROVE  /\ Gone(t).frames \in Seq(Frames \cup {Lent, None}) /\ t \in Tasks
             /\ GoneIn(stack[t]) = Gone(t).frames
             /\ \A i \in Nat \ {0} : /\ <<"undo", t, i>> \in Holders
                                     /\ FrameAt[<<"undo", t, i>>] = Entry(Gone(t).frames, i)
  <2>1. t \in Tasks /\ stack[t] # <<>> /\ Inner(t).step = "undo"
    BY DEF Undoing, At
  <2>2. PICK s \in Seq(CallType) : s = stack[t] /\ s # <<>> /\ Inner(t) = s[Len(s)]
    BY <2>1, StackFacts DEF Inner
  <2>3. Len(s) \in 1..Len(s)
    BY <2>2, SeqParts
  <2>4. Inner(t) \in CallType
    BY <2>2, <2>3, SeqParts
  <2>5. Gone(t).frames \in Seq(Frames \cup {Lent, None})
    BY <2>4, CallParts DEF Gone, AreaType
  <2>6. GoneIn(stack[t]) = Gone(t).frames
    BY <2>1, <2>2 DEF GoneIn, Gone
  <2> QED
    BY <2>1, <2>5, <2>6, HolderKinds, Places
<1>5. ASSUME NEW h \in Holders, FrameAt[h] \in Frames
      PROVE  \/ \E a \in Listed : h[3] \in 1..Len(a.frames) /\ h = <<"area", a.addr, h[3]>> /\ a.frames[h[3]] = FrameAt[h]
             \/ \E t \in Undoing : /\ h[3] \in 1..Len(Gone(t).frames) /\ h = <<"undo", t, h[3]>>
                                   /\ Gone(t).frames[h[3]] = FrameAt[h]
  <2>1. CASE \E x \in Addresses, j \in Nat \ {0} : h = <<"area", x, j>>
    <3>1. PICK x \in Addresses, j \in Nat \ {0} : h = <<"area", x, j>>
      BY <2>1
    <3>2. j <= Len(PagesOf(x)) /\ FrameAt[h] = PagesOf(x)[j]
      BY <1>2, <1>5, <3>1, Places DEF Entry
    <3>3. Has(x)
      <4>1. Len(<<>>) = 0
        OBVIOUS
      <4> QED
        BY <3>2, <4>1 DEF PagesOf
    <3>4. PICK a \in Listed : a = AreaAt(x) /\ a.addr = x /\ PagesOf(x) = a.frames
      BY <1>1, <3>3 DEF ListFacts, PagesOf
    <3>5. Len(a.frames) \in Nat /\ h[3] = j
      BY <1>1, <3>1, AreaFacts
    <3> QED
      BY <3>1, <3>2, <3>4, <3>5
  <2>2. CASE \E t \in Tasks, j \in Nat \ {0} : h = <<"undo", t, j>>
    <3>1. PICK t \in Tasks, j \in Nat \ {0} : h = <<"undo", t, j>>
      BY <2>2
    <3>2. j <= Len(GoneIn(stack[t])) /\ FrameAt[h] = GoneIn(stack[t])[j]
      BY <1>2, <1>5, <3>1, Places DEF Entry
    <3>3. t \in Undoing
      <4>1. Len(<<>>) = 0
        OBVIOUS
      <4> QED
        BY <3>2, <4>1 DEF GoneIn, Undoing, At, Inner, Depth
    <3>4. GoneIn(stack[t]) = Gone(t).frames /\ Gone(t).frames \in Seq(Frames \cup {Lent, None})
      BY <1>4, <3>3
    <3>5. Len(Gone(t).frames) \in Nat /\ h[3] = j
      BY <3>1, <3>4, SeqParts
    <3> QED
      BY <3>1, <3>2, <3>3, <3>4, <3>5
  <2> QED
    BY <2>1, <2>2, HolderKinds
<1> QED
  BY <1>3, <1>4, <1>5

LEMMA InvFrames ==
    ASSUME Inv
    PROVE  FramesOnce
<1> DEFINE keepers == {<<a, None>> : a \in Listed} \cup {<<Gone(t), t>> : t \in Undoing}
           held == UNION {{<<k, i>> : i \in {j \in DOMAIN k[1].frames : k[1].frames[j] \in Frames}} : k \in keepers}
           frame(h) == h[1][1].frames[h[2]]
           Keeps(k, o) == \/ k[2] = None /\ k[1] \in Listed /\ o = <<"area", k[1].addr, o[3]>> /\ o[1] = "area"
                          \/ k[2] \in Tasks /\ k[2] \in Undoing /\ k[1] = Gone(k[2]) /\ o = <<"undo", k[2], o[3]>> /\ o[1] = "undo"
<1>1. Linked /\ ListFacts /\ Unique(FrameAt, Frames, Frames \ free) /\ DOMAIN FrameAt = Holders /\ free \subseteq Frames
  BY InvLinked, Places DEF Inv, Framed, TypeOK
<1>2. ASSUME NEW k \in keepers, NEW i \in DOMAIN k[1].frames
      PROVE  \E o \in Holders : FrameAt[o] = k[1].frames[i] /\ o[3] = i /\ Keeps(k, o)
  <2>1. CASE \E a \in Listed : k = <<a, None>>
    <3>1. PICK a \in Listed : k = <<a, None>>
      BY <2>1
    <3>2. i \in Nat \ {0} /\ Entry(a.frames, i) = a.frames[i]
      BY <3>1, FramesPlaced, SeqParts DEF Entry
    <3>3. PICK o : o = <<"area", a.addr, i>>
      OBVIOUS
    <3>4. o \in Holders /\ FrameAt[o] = a.frames[i] /\ o[3] = i /\ o[1] = "area"
      BY <3>2, <3>3, FramesPlaced
    <3>5. k[1] = a /\ k[2] = None
      BY <3>1
    <3> QED
      BY <3>3, <3>4, <3>5
  <2>2. CASE \E t \in Undoing : k = <<Gone(t), t>>
    <3>1. PICK t \in Undoing : k = <<Gone(t), t>>
      BY <2>2
    <3>2. i \in Nat \ {0} /\ Entry(Gone(t).frames, i) = Gone(t).frames[i] /\ t \in Tasks
      BY <3>1, FramesPlaced, SeqParts DEF Entry
    <3>3. PICK o : o = <<"undo", t, i>>
      OBVIOUS
    <3>4. o \in Holders /\ FrameAt[o] = Gone(t).frames[i] /\ o[3] = i /\ o[1] = "undo"
      BY <3>2, <3>3, FramesPlaced
    <3>5. k[1] = Gone(t) /\ k[2] = t
      BY <3>1
    <3> QED
      BY <3>2, <3>3, <3>4, <3>5
  <2> QED
    BY <2>1, <2>2
<1>3. ASSUME NEW h \in held
      PROVE  /\ h[1] \in keepers /\ h[2] \in DOMAIN h[1][1].frames /\ h = <<h[1], h[2]>> /\ frame(h) \in Frames
             /\ h[1] = <<h[1][1], h[1][2]>>
  OBVIOUS
<1>4. ASSUME NEW g \in held, NEW h \in held, frame(g) = frame(h)
      PROVE  g = h
  <2> HIDE DEF keepers, held
  <2>1. PICK o \in Holders : FrameAt[o] = frame(g) /\ o[3] = g[2] /\ Keeps(g[1], o)
    BY <1>2, <1>3
  <2>2. PICK p \in Holders : FrameAt[p] = frame(h) /\ p[3] = h[2] /\ Keeps(h[1], p)
    BY <1>2, <1>3
  <2>3. o = p
    BY <1>1, <1>3, <1>4, <2>1, <2>2 DEF Unique
  <2>4. g[2] = h[2]
    BY <2>1, <2>2, <2>3
  <2>5. g[1][2] = h[1][2] /\ g[1][1] = h[1][1]
    <3>1. CASE o[1] = "area"
      <4>1. /\ g[1][2] = None /\ g[1][1] \in Listed /\ o[2] = g[1][1].addr
            /\ h[1][2] = None /\ h[1][1] \in Listed /\ p[2] = h[1][1].addr
        BY <2>1, <2>2, <2>3, <3>1
      <4> QED
        BY <1>1, <2>3, <4>1 DEF ListFacts
    <3>2. CASE o[1] = "undo"
      <4>1. /\ g[1][1] = Gone(g[1][2]) /\ o[2] = g[1][2]
            /\ h[1][1] = Gone(h[1][2]) /\ p[2] = h[1][2]
        BY <2>1, <2>2, <2>3, <3>2
      <4> QED
        BY <2>3, <4>1
    <3> QED
      BY <2>1, <3>1, <3>2
  <2> QED
    BY <1>3, <2>4, <2>5
<1>5. ASSUME NEW h \in held
      PROVE  frame(h) \in Frames \ free
  <2> HIDE DEF keepers, held
  <2>1. PICK o \in Holders : FrameAt[o] = frame(h)
    BY <1>2, <1>3
  <2> QED
    BY <1>1, <1>3, <2>1 DEF Unique
<1>6. ASSUME NEW f \in Frames \ free
      PROVE  \E h \in held : frame(h) = f
  <2>1. PICK o \in Holders : FrameAt[o] = f
    BY <1>1 DEF Unique
  <2>2. PICK i : i = o[3]
    OBVIOUS
  <2>3. CASE \E a \in Listed : i \in 1..Len(a.frames) /\ a.frames[i] = f
    <3>1. PICK a \in Listed : i \in 1..Len(a.frames) /\ a.frames[i] = f
      BY <2>3
    <3>2. i \in DOMAIN a.frames
      BY <3>1, FramesPlaced, SeqParts
    <3>3. PICK k \in keepers : k = <<a, None>>
      OBVIOUS
    <3>4. k[1] = a
      BY <3>3
    <3>5. <<k, i>> \in held
      BY <3>1, <3>2, <3>4
    <3> QED
      BY <3>1, <3>4, <3>5
  <2>4. CASE \E t \in Undoing : i \in 1..Len(Gone(t).frames) /\ Gone(t).frames[i] = f
    <3>1. PICK t \in Undoing : i \in 1..Len(Gone(t).frames) /\ Gone(t).frames[i] = f
      BY <2>4
    <3>2. i \in DOMAIN Gone(t).frames
      BY <3>1, FramesPlaced, SeqParts
    <3>3. PICK k \in keepers : k = <<Gone(t), t>>
      OBVIOUS
    <3>4. k[1] = Gone(t)
      BY <3>3
    <3>5. <<k, i>> \in held
      BY <3>1, <3>2, <3>4
    <3> QED
      BY <3>1, <3>4, <3>5
  <2> QED
    BY <2>1, <2>2, <2>3, <2>4, FramesPlaced
<1>7. {frame(h) : h \in held} = Frames \ free
  <2> HIDE DEF held
  <2> QED
    BY <1>5, <1>6
<1>8. \A g, h \in held : g # h => frame(g) # frame(h)
  <2> HIDE DEF held
  <2> QED
    BY <1>4
<1> QED
  BY <1>7, <1>8 DEF FramesOnce

LEMMA InvPages ==
    ASSUME Inv
    PROVE  PagesExact
BY InvOwned, InvFrames, InvMapped DEF PagesExact

\* __get_vm_area puts each area into a gap of the list: areas are apart, a guard page after each,
\* and in VMALLOC_START to VMALLOC_END as long as nobody asks for more than there is.
THEOREM AreasStayPlaced == Spec => []AreasPlaced
<1>1. Inv => AreasPlaced
  BY InvPlaced
<1> QED
  BY <1>1, InvAlways, PTL

\* However __vmalloc_area and map_vm_area fail half-way and whatever other tasks do meanwhile,
\* areas and frames are each exactly somebody's, and the page tables follow the list as long as
\* pte_alloc_kernel has not replaced a table that was in use.
THEOREM PagesStayExact == Spec => []PagesExact
<1>1. Inv => PagesExact
  BY InvPages
<1> QED
  BY <1>1, InvAlways, PTL

(****************************************************************************)
(* Reading and writing.                                                     *)
(****************************************************************************)
LEMMA OfTwo ==
    ASSUME NEW x \in Int, NEW y \in Int
    PROVE  /\ Min({x, y}) = IF x <= y THEN x ELSE y
           /\ Max({x, y}) = IF x <= y THEN y ELSE x
BY DEF Min, Max

\* From lo on, with c pages to go, vread and vwrite cross h pages before area i and n pages of it.
Crossing(i, lo, c, h, n) ==
    LET a == vmlist[i] IN
    /\ i \in 1..Len(vmlist) /\ lo \in Nat /\ c \in Nat /\ lo < Limit(a) - 1
    /\ \A j \in 1..(i - 1) : c = 0 \/ Limit(vmlist[j]) - 1 <= lo
    /\ h = (IF lo < a.addr THEN Min({a.addr - lo, c}) ELSE 0)
    /\ n = Min({c - h, Limit(a) - 1 - (lo + h)})

Crossed(i, lo, c, h, n) ==
    /\ h \in Nat /\ n \in Nat /\ h + n <= c /\ lo + h + n <= Limit(vmlist[i]) - 1
    /\ c = h + n \/ lo + h + n = Limit(vmlist[i]) - 1
    /\ \A q \in Nat : lo <= q /\ q < lo + h => ~InArea(q)
    /\ \A q \in Nat : lo + h <= q /\ q < lo + h + n => InArea(q)

\* The list in numbers.
LEMMA AreaNext ==
    ASSUME Linked
    PROVE  /\ Len(vmlist) \in Nat
           /\ \A i \in 1..Len(vmlist) :
                 /\ vmlist[i] \in Listed /\ vmlist[i].addr \in Nat \ {0} /\ vmlist[i].n \in Nat
                 /\ Limit(vmlist[i]) \in Nat /\ Limit(vmlist[i]) = vmlist[i].addr + vmlist[i].n + 1
                 /\ \A q : q \in Span(vmlist[i]) <=> q \in Int /\ vmlist[i].addr <= q /\ q < Limit(vmlist[i]) - 1
           /\ \A i, j \in 1..Len(vmlist) : i < j => Limit(vmlist[i]) <= vmlist[j].addr
           /\ \A a \in Listed : \E i \in 1..Len(vmlist) : vmlist[i] = a
<1>1. /\ Len(vmlist) \in Nat /\ \A i \in 1..Len(vmlist) : vmlist[i] \in Listed
      /\ \A a \in Listed : \E i \in 1..Len(vmlist) : vmlist[i] = a
  BY SeqParts DEF Linked, Listed
<1>2. ASSUME NEW a \in Listed
      PROVE  /\ a.addr \in Nat \ {0} /\ a.n \in Nat /\ Limit(a) \in Nat /\ Limit(a) = a.addr + a.n + 1
             /\ \A q : q \in Span(a) <=> q \in Int /\ a.addr <= q /\ q < Limit(a) - 1
  <2>1. /\ a.addr \in Nat \ {0} /\ a.n \in Nat /\ Limit(a) = a.addr + a.n + 1
        /\ \A q : q \in Span(a) <=> q \in Int /\ a.addr <= q /\ q < a.addr + a.n
    BY AreaFacts, Constants
  <2> QED
    BY <2>1
<1> QED
  BY <1>1, <1>2 DEF Linked, Ordered

LEMMA AreaCrossed ==
    ASSUME Linked, NEW i, NEW lo, NEW c, NEW h, NEW n, Crossing(i, lo, c, h, n)
    PROVE  Crossed(i, lo, c, h, n)
<1>1. PICK a : a = vmlist[i]
  OBVIOUS
<1>2. /\ i \in 1..Len(vmlist) /\ lo \in Nat /\ c \in Nat /\ lo < Limit(a) - 1
      /\ \A j \in 1..(i - 1) : c = 0 \/ Limit(vmlist[j]) - 1 <= lo
      /\ h = (IF lo < a.addr THEN Min({a.addr - lo, c}) ELSE 0)
      /\ n = Min({c - h, Limit(a) - 1 - (lo + h)})
  BY <1>1 DEF Crossing
<1>3. /\ a \in Listed /\ a.addr \in Nat \ {0} /\ a.n \in Nat /\ Limit(a) \in Nat /\ Limit(a) = a.addr + a.n + 1
      /\ \A q : q \in Span(a) <=> q \in Int /\ a.addr <= q /\ q < Limit(a) - 1
  BY <1>1, <1>2, AreaNext
<1>4. PICK e \in Nat, x \in Nat : e = Limit(a) - 1 /\ x = a.addr /\ x <= e
  BY <1>3
<1>5. h \in Nat /\ h <= c /\ lo + h <= e /\ (h = 0 \/ lo + h <= x) /\ (h = c \/ x <= lo + h)
  <2>1. CASE lo < x
    <3>1. PICK y \in Nat : y = x - lo
      BY <1>2, <2>1
    <3>2. h = IF y <= c THEN y ELSE c
      BY <1>2, <1>4, <2>1, <3>1, OfTwo
    <3> QED
      BY <1>2, <1>4, <3>1, <3>2
  <2>2. CASE ~(lo < x)
    BY <1>2, <1>4, <2>2
  <2> QED
    BY <2>1, <2>2
<1>6. n \in Nat /\ h + n <= c /\ lo + h + n <= e /\ (c = h + n \/ lo + h + n = e)
  <2>1. PICK y \in Nat, z \in Nat : y = c - h /\ z = e - (lo + h)
    <3>1. c \in Nat /\ lo \in Nat /\ h \in Nat /\ h <= c /\ lo + h <= e
      BY <1>2, <1>5
    <3>2. c - h \in Nat /\ e - (lo + h) \in Nat
      BY <3>1
    <3> QED
      BY <3>2
  <2>2. n = Min({y, z})
    BY <1>2, <1>4, <2>1
  <2>3. n = IF y <= z THEN y ELSE z
    BY <2>2, OfTwo
  <2>4. c \in Nat /\ lo \in Nat /\ h \in Nat /\ c = h + y /\ lo + h + z = e
    BY <1>2, <1>5, <2>1
  <2> QED
    BY <2>3, <2>4
<1>7. ASSUME NEW q \in Nat, lo <= q, q < lo + h
      PROVE  ~InArea(q)
  <2>1. h # 0 /\ c # 0 /\ q < a.addr
    BY <1>2, <1>4, <1>5, <1>7
  <2>2. ASSUME NEW b \in Listed, q \in Span(b)
        PROVE  FALSE
    <3>1. PICK j \in 1..Len(vmlist) : vmlist[j] = b
      BY AreaNext
    <3>2. b.addr <= q /\ q < Limit(b) - 1 /\ Limit(b) \in Nat /\ b.addr \in Nat
      BY <2>2, <3>1, AreaNext
    <3>3. CASE j < i
      <4>1. j \in 1..(i - 1)
        BY <1>2, <3>3, AreaNext
      <4>2. Limit(b) - 1 <= lo
        BY <1>2, <2>1, <3>1, <4>1
      <4> QED
        BY <1>2, <1>7, <3>2, <4>2
    <3>4. CASE j = i
      BY <1>1, <1>3, <2>1, <3>1, <3>2, <3>4
    <3>5. CASE i < j
      <4>1. Limit(a) <= b.addr
        BY <1>1, <1>2, <3>1, <3>5, AreaNext
      <4> QED
        BY <1>3, <2>1, <3>2, <4>1
    <3> QED
      BY <1>2, <3>3, <3>4, <3>5, AreaNext
  <2> QED
    BY <2>2 DEF InArea
<1>8. ASSUME NEW q \in Nat, lo + h <= q, q < lo + h + n
      PROVE  InArea(q)
  <2>0. c \in Nat /\ lo \in Nat /\ x # 0 /\ n # 0
    BY <1>2, <1>3, <1>4, <1>5, <1>6, <1>8
  <2>1. x <= q /\ q < e /\ q # 0
    BY <1>5, <1>6, <1>8, <2>0
  <2>2. q \in Span(a)
    BY <1>3, <1>4, <2>1
  <2> QED
    BY <1>3, <2>1, <2>2 DEF InArea
<1> QED
  BY <1>1, <1>4, <1>5, <1>6, <1>7, <1>8 DEF Crossed

\* How far vread and vwrite have come after i areas.
Passing(i, s, p, count) ==
    /\ s.addr + s.count = p + count /\ s.addr >= p
    /\ \A j \in 1..i : s.count = 0 \/ Limit(vmlist[j]) - 1 <= s.addr
    /\ s.addr = p \/ \E j \in 1..i : s.addr <= Limit(vmlist[j]) - 1

\* An area that lies behind is passed over.
LEMMA PassesOver ==
    ASSUME Linked, NEW i \in 1..Len(vmlist), NEW s, NEW p \in Nat, NEW count \in Nat, s.addr \in Nat,
           Passing(i - 1, s, p, count), s.addr >= Limit(vmlist[i]) - 1
    PROVE  Passing(i, s, p, count)
<1>1. i \in Nat /\ \A j \in 1..i : j = i \/ j \in 1..(i - 1)
  BY AreaNext
<1>2. 1..(i - 1) \subseteq 1..i
  BY <1>1
<1> QED
  BY <1>1, <1>2 DEF Passing

LEMMA PassesOn ==
    ASSUME Linked, NEW i, NEW s, NEW p \in Nat, NEW count \in Nat, NEW h, NEW n, NEW r,
           s.addr \in Nat, s.count \in Nat, Passing(i - 1, s, p, count), Crossing(i, s.addr, s.count, h, n),
           r.addr = s.addr + h + n, r.count = s.count - h - n
    PROVE  Passing(i, r, p, count)
<1>1. Crossed(i, s.addr, s.count, h, n)
  BY AreaCrossed
<1>2. i \in 1..Len(vmlist) /\ i \in Nat /\ \A j \in 1..i : j = i \/ j \in 1..(i - 1)
  BY AreaNext DEF Crossing
<1>3. PICK e \in Nat : e = Limit(vmlist[i]) - 1 /\ s.addr < e
  BY AreaNext DEF Crossing
<1>4. h \in Nat /\ n \in Nat /\ h + n <= s.count /\ s.addr + h + n <= e /\ (s.count = h + n \/ s.addr + h + n = e)
  BY <1>1, <1>3 DEF Crossed
<1>5. r.addr + r.count = p + count /\ r.addr >= p
  BY <1>4 DEF Passing
<1>6. \A j \in 1..i : r.count = 0 \/ Limit(vmlist[j]) - 1 <= r.addr
  <2> TAKE j \in 1..i
  <2>1. CASE j = i
    BY <1>3, <1>4, <2>1
  <2>2. CASE j \in 1..(i - 1)
    <3>1. s.count = 0 \/ Limit(vmlist[j]) - 1 <= s.addr
      BY <2>2 DEF Passing
    <3>2. Limit(vmlist[j]) \in Nat
      BY <1>2, <2>2, AreaNext
    <3> QED
      BY <1>4, <3>1, <3>2
  <2> QED
    BY <1>2, <2>1, <2>2
<1>7. i \in 1..i /\ r.addr <= Limit(vmlist[i]) - 1
  BY <1>2, <1>3, <1>4
<1> QED
  BY <1>5, <1>6, <1>7 DEF Passing

\* What is read at address q, and what can be read anywhere.
Content(q) == IF InArea(q) THEN pte[q] ELSE Zero
Pages == Frames \cup {Lent, None}
Contents == Pages \cup {Zero}

ReadState == [addr : Nat, count : Nat, buf : Seq(Contents)]
Reads(i, s, p, count) ==
    /\ s \in ReadState /\ Passing(i, s, p, count)
    /\ Len(s.buf) = s.addr - p /\ \A k \in 1..Len(s.buf) : s.buf[k] = Content(p + k - 1)

\* A buffer r to which h times o and the n pages of x are added.
Copying(S, o, b, h, n, x, r) ==
    /\ h \in Nat /\ n \in Nat /\ o \in S /\ b \in Seq(S) /\ x \in [1..n -> S]
    /\ \E v \in [1..h -> S] : (\A i \in 1..h : v[i] = o) /\ r = b \o v \o x

LEMMA Copied ==
    ASSUME NEW S, NEW o, NEW b, NEW h, NEW n, NEW x, NEW r, Copying(S, o, b, h, n, x, r)
    PROVE  /\ r \in Seq(S) /\ Len(r) = Len(b) + h + n
           /\ \A k \in 1..Len(b) : r[k] = b[k]
           /\ \A k \in 1..h : r[Len(b) + k] = o
           /\ \A k \in 1..n : r[Len(b) + h + k] = x[k]
<1> SUFFICES ASSUME h \in Nat, n \in Nat
             PROVE  /\ r \in Seq(S) /\ Len(r) = Len(b) + h + n
                    /\ \A k \in 1..Len(b) : r[k] = b[k]
                    /\ \A k \in 1..h : r[Len(b) + k] = o
                    /\ \A k \in 1..n : r[Len(b) + h + k] = x[k]
  BY DEF Copying
<1>0. /\ o \in S /\ b \in Seq(S) /\ x \in [1..n -> S]
      /\ \E v \in [1..h -> S] : (\A i \in 1..h : v[i] = o) /\ r = b \o v \o x
  BY DEF Copying
<1>14. PICK v \in [1..h -> S] : (\A i \in 1..h : v[i] = o) /\ r = b \o v \o x
  BY <1>0
<1>1. PICK z, y : z = v /\ y = x
  OBVIOUS
<1>2. z \in Seq(S) /\ Len(z) = h /\ \A k \in 1..h : z[k] = o
  <2>1. z \in [1..h -> S] /\ \A k \in 1..h : z[k] = o
    BY <1>1, <1>14
  <2> QED
    BY <1>0, <2>1
<1>3. y \in Seq(S) /\ Len(y) = n /\ \A k \in 1..n : y[k] = x[k]
  <2>1. y \in [1..n -> S] /\ \A k \in 1..n : y[k] = x[k]
    BY <1>0, <1>1
  <2> QED
    BY <1>0, <2>1
<1>4. PICK c : c = b \o z
  OBVIOUS
<1>5. /\ c \in Seq(S) /\ Len(c) = Len(b) + Len(z)
      /\ \A k \in 1..(Len(b) + Len(z)) : c[k] = IF k <= Len(b) THEN b[k] ELSE z[k - Len(b)]
  <2>1. b \in Seq(S) /\ z \in Seq(S)
    BY <1>0, <1>2
  <2>2. /\ b \o z \in Seq(S) /\ Len(b \o z) = Len(b) + Len(z)
        /\ \A k \in 1..(Len(b) + Len(z)) : (b \o z)[k] = IF k <= Len(b) THEN b[k] ELSE z[k - Len(b)]
    BY <2>1, ConcatProperties
  <2> QED
    BY <1>4, <2>2
<1>6. PICK w : w = c \o y
  OBVIOUS
<1>7. /\ w \in Seq(S) /\ Len(w) = Len(c) + Len(y)
      /\ \A k \in 1..(Len(c) + Len(y)) : w[k] = IF k <= Len(c) THEN c[k] ELSE y[k - Len(c)]
  <2>1. c \in Seq(S) /\ y \in Seq(S)
    BY <1>3, <1>5
  <2>2. /\ c \o y \in Seq(S) /\ Len(c \o y) = Len(c) + Len(y)
        /\ \A k \in 1..(Len(c) + Len(y)) : (c \o y)[k] = IF k <= Len(c) THEN c[k] ELSE y[k - Len(c)]
    BY <2>1, ConcatProperties
  <2> QED
    BY <1>6, <2>2
<1>8. r = w
  BY <1>1, <1>4, <1>6, <1>14
<1>9. PICK l \in Nat : l = Len(b)
  BY <1>0, SeqParts
<1>10. /\ Len(w) = l + h + n
       /\ \A k \in 1..(l + h) : c[k] = IF k <= l THEN b[k] ELSE z[k - l]
       /\ \A k \in 1..(l + h + n) : w[k] = IF k <= l + h THEN c[k] ELSE y[k - (l + h)]
  BY <1>0, <1>2, <1>3, <1>5, <1>7, <1>9
<1>11. ASSUME NEW k \in 1..l
       PROVE  w[k] = b[k]
  <2>1. k \in 1..(l + h) /\ k \in 1..(l + h + n) /\ k <= l /\ k <= l + h
    BY <1>9
  <2>2. w[k] = c[k] /\ c[k] = b[k]
    BY <1>0, <1>10, <2>1
  <2> QED
    BY <2>2
<1>12. ASSUME NEW k \in 1..h
       PROVE  w[l + k] = o
  <2>1. PICK i \in 1..(l + h) : i = l + k
    BY <1>9
  <2>2. i \in 1..(l + h + n) /\ i <= l + h /\ ~(i <= l) /\ i - l = k
    BY <1>9, <2>1
  <2>3. w[i] = c[i] /\ c[i] = z[k]
    BY <1>10, <2>2
  <2> QED
    BY <1>2, <2>1, <2>3
<1>13. ASSUME NEW k \in 1..n
       PROVE  w[l + h + k] = x[k]
  <2>1. PICK i \in 1..(l + h + n) : i = l + h + k
    BY <1>9
  <2>2. ~(i <= l + h) /\ i - (l + h) = k
    BY <1>9, <2>1
  <2>3. w[i] = y[k]
    BY <1>10, <2>2
  <2> QED
    BY <1>3, <2>1, <2>3
<1> QED
  BY <1>0, <1>7, <1>8, <1>9, <1>10, <1>11, <1>12, <1>13

\* An area is among the addresses.
LEMMA InAreas ==
    ASSUME Linked, NEW q, InArea(q)
    PROVE  q \in Addresses
<1>1. PICK a \in Listed : q \in Span(a)
  BY DEF InArea
<1> QED
  BY <1>1, AreaFacts

LEMMA ReadComes ==
    ASSUME Linked, pte \in [Addresses -> Pages], NEW p \in Nat \ {0}, NEW count \in Nat, NEW i \in 1..Len(vmlist),
           NEW s, Reads(i - 1, s, p, count), NEW r, r = ReadArea(s, vmlist[i])
    PROVE  Reads(i, r, p, count)
<1>1. PICK lo \in Nat, c \in Nat, b \in Seq(Contents) : lo = s.addr /\ c = s.count /\ b = s.buf
  BY DEF Reads, ReadState
<1>2. /\ Passing(i - 1, s, p, count) /\ Len(b) = lo - p /\ lo >= p
      /\ \A k \in 1..Len(b) : b[k] = Content(p + k - 1)
  BY <1>1 DEF Reads, Passing
<1>3. CASE s.addr >= Limit(vmlist[i]) - 1
  <2>1. r = s
    BY <1>3 DEF ReadArea
  <2>2. Passing(i, s, p, count)
    BY <1>1, <1>2, <1>3, PassesOver
  <2> QED
    BY <2>1, <2>2 DEF Reads
<1>4. CASE ~(s.addr >= Limit(vmlist[i]) - 1)
  <2>1. PICK h : h = IF lo < vmlist[i].addr THEN Min({vmlist[i].addr - lo, c}) ELSE 0
    OBVIOUS
  <2>2. PICK n : n = Min({c - h, Limit(vmlist[i]) - 1 - (lo + h)})
    OBVIOUS
  <2>3. lo < Limit(vmlist[i]) - 1
    BY <1>1, <1>4, AreaNext
  <2>4. \A j \in 1..(i - 1) : c = 0 \/ Limit(vmlist[j]) - 1 <= lo
    BY <1>1, <1>2 DEF Passing
  <2>5. Crossing(i, lo, c, h, n)
    BY <2>1, <2>2, <2>3, <2>4 DEF Crossing
  <2>6. Crossed(i, lo, c, h, n)
    BY <2>5, AreaCrossed
  <2>7. /\ h \in Nat /\ n \in Nat /\ h + n <= c
        /\ \A q \in Nat : lo <= q /\ q < lo + h => Content(q) = Zero
        /\ \A q \in Nat : lo + h <= q /\ q < lo + h + n => InArea(q) /\ Content(q) = pte[q]
    BY <2>6 DEF Crossed, Content
  <2>8. PICK w : w = b \o [k \in 1..h |-> Zero] \o [k \in 1..n |-> pte[lo + h + k - 1]]
    OBVIOUS
  <2>9. r = [addr |-> lo + h + n, count |-> c - h - n, buf |-> w]
    BY <1>1, <1>4, <2>1, <2>2, <2>8 DEF ReadArea
  <2>10. PICK x : x = [k \in 1..n |-> pte[lo + h + k - 1]]
    OBVIOUS
  <2>11. w = b \o [k \in 1..h |-> Zero] \o x /\ x \in [1..n -> Contents] /\ Zero \in Contents
    <3>1. ASSUME NEW k \in 1..n
          PROVE  pte[lo + h + k - 1] \in Contents
      <4>1. PICK q \in Nat : q = lo + h + k - 1 /\ lo + h <= q /\ q < lo + h + n
        BY <2>7
      <4>2. q \in Addresses
        BY <2>7, <4>1, InAreas
      <4> QED
        BY <4>1, <4>2 DEF Contents
    <3> QED
      BY <2>8, <2>10, <3>1 DEF Contents
  <2>12. /\ w \in Seq(Contents) /\ Len(w) = Len(b) + h + n
         /\ \A k \in 1..Len(b) : w[k] = b[k]
         /\ \A k \in 1..h : w[Len(b) + k] = Zero
         /\ \A k \in 1..n : w[Len(b) + h + k] = x[k]
    <3>1. b \in Seq(Contents) /\ h \in Nat /\ n \in Nat
      BY <2>7
    <3>2. PICK S, o : S = Contents /\ o = Zero
      OBVIOUS
    <3>3. PICK v : v = [k \in 1..h |-> o]
      OBVIOUS
    <3>5. o \in S /\ b \in Seq(S) /\ x \in [1..n -> S] /\ w = b \o v \o x
      BY <2>11, <3>1, <3>2, <3>3
    <3>6. v \in [1..h -> S] /\ \A k \in 1..h : v[k] = o
      BY <3>3, <3>5
    <3>4. /\ w \in Seq(S) /\ Len(w) = Len(b) + h + n
          /\ \A k \in 1..Len(b) : w[k] = b[k]
          /\ \A k \in 1..h : w[Len(b) + k] = o
          /\ \A k \in 1..n : w[Len(b) + h + k] = x[k]
      <4>1. Copying(S, o, b, h, n, x, w)
        BY <3>1, <3>5, <3>6 DEF Copying
      <4> QED
        BY <4>1, Copied
    <3> QED
      BY <3>2, <3>4
  <2>13. PICK l \in Nat : l = Len(b) /\ p + l = lo
    <3>1. Len(b) \in Nat /\ p + Len(b) = lo
      BY <1>2
    <3> QED
      BY <3>1
  <2>14. ASSUME NEW k \in 1..Len(w)
         PROVE  w[k] = Content(p + k - 1)
    <3>1. CASE k <= l
      <4>1. k \in 1..l
        BY <2>13, <3>1
      <4> QED
        BY <1>2, <2>12, <2>13, <4>1
    <3>2. CASE l < k /\ k <= l + h
      <4>1. PICK j \in 1..h : k = l + j
        <5>1. k - l \in 1..h /\ k = l + (k - l)
          BY <2>7, <2>13, <3>2
        <5> QED
          BY <5>1
      <4>2. PICK q \in Nat : q = lo + j - 1
        <5>1. lo + j - 1 \in Nat
          BY <4>1
        <5> QED
          BY <5>1
      <4>3. q = p + k - 1 /\ lo <= q /\ q < lo + h
        <5>1. h \in Nat /\ p + l = lo
          BY <2>7, <2>13
        <5> QED
          BY <4>1, <4>2, <5>1
      <4> QED
        BY <2>7, <2>12, <2>13, <4>1, <4>3
    <3>3. CASE l + h < k
      <4>1. PICK j \in 1..n : k = l + h + j
        <5>1. k - (l + h) \in 1..n /\ k = l + h + (k - (l + h))
          BY <2>7, <2>12, <2>13, <3>3
        <5> QED
          BY <5>1
      <4>2. PICK q \in Nat : q = p + k - 1 /\ lo + h <= q /\ q < lo + h + n /\ q = lo + h + j - 1
        BY <2>7, <2>13, <4>1
      <4>3. x[j] = pte[q]
        BY <2>10, <4>1, <4>2
      <4> QED
        BY <2>7, <2>12, <2>13, <4>1, <4>2, <4>3
    <3> QED
      BY <2>7, <2>13, <3>1, <3>2, <3>3
  <2>15. r.addr = lo + h + n /\ r.count = c - h - n /\ r.buf = w
    BY <2>9
  <2>16. r \in ReadState
    BY <2>7, <2>9, <2>12 DEF ReadState
  <2>17. Len(r.buf) = r.addr - p
    <3>0. h \in Nat /\ n \in Nat /\ p + l = lo /\ Len(w) = l + h + n
      BY <2>7, <2>12, <2>13
    <3>1. Len(w) = (lo + h + n) - p
      BY <3>0
    <3> QED
      BY <2>15, <3>1
  <2>18. Passing(i, r, p, count)
    BY <1>1, <1>2, <2>5, <2>15, PassesOn
  <2> QED
    BY <2>14, <2>15, <2>16, <2>17, <2>18 DEF Reads
<1> QED
  BY <1>3, <1>4

LEMMA VreadRuns ==
    ASSUME Linked, pte \in [Addresses -> Pages], NEW p \in Nat \ {0}, NEW count, ReadCount(p, count) \in Nat
    PROVE  \E s : Reads(Len(vmlist), s, p, ReadCount(p, count)) /\ Vread(p, count) = s.buf
<1> DEFINE start == [addr |-> p, count |-> ReadCount(p, count), buf |-> <<>>]
           Coming(f) == f = [i \in 0..Len(vmlist) |->
                               IF i = 0 THEN [addr |-> p, count |-> ReadCount(p, count), buf |-> <<>>]
                               ELSE ReadArea(f[i - 1], vmlist[i])]
           step == [i \in 1..Len(vmlist) |->
                      [s \in ReadState |-> IF Reads(i - 1, s, p, ReadCount(p, count)) THEN ReadArea(s, vmlist[i]) ELSE s]]
<1>1. Len(vmlist) \in Nat
  BY AreaNext
<1>2. Reads(0, start, p, ReadCount(p, count))
  <2>1. PICK s : s = start
    OBVIOUS
  <2>2. s.addr = p /\ s.count = ReadCount(p, count) /\ s.buf = <<>> /\ s \in ReadState
    BY <2>1 DEF ReadState
  <2>3. Len(<<>>) = 0 /\ 1..0 = {}
    OBVIOUS
  <2>4. Reads(0, s, p, ReadCount(p, count))
    BY <2>2, <2>3 DEF Reads, Passing
  <2> QED
    BY <2>1, <2>4
<1>3. start \in ReadState
  BY <1>2 DEF Reads
<1>4. step \in [1..Len(vmlist) -> [ReadState -> ReadState]]
  <2>1. ASSUME NEW i \in 1..Len(vmlist), NEW s \in ReadState, Reads(i - 1, s, p, ReadCount(p, count))
        PROVE  ReadArea(s, vmlist[i]) \in ReadState
    <3>1. PICK r : r = ReadArea(s, vmlist[i])
      OBVIOUS
    <3>2. Reads(i, r, p, ReadCount(p, count))
      BY <2>1, <3>1, ReadComes
    <3> QED
      BY <3>1, <3>2 DEF Reads
  <2> QED
    BY <2>1
<1>5. PICK f : Run(f, Len(vmlist), ReadState, start, step)
  <2> HIDE DEF start, step
  <2>1. Loop(Len(vmlist), ReadState, start, step)
    BY <1>1, <1>3, <1>4 DEF Loop
  <2> QED
    BY <2>1, Recursion
<1> HIDE DEF start
<1>6. \A i \in 0..Len(vmlist) : Reads(i, f[i], p, ReadCount(p, count))
  <2> DEFINE G == {i \in 0..Len(vmlist) : Reads(i, f[i], p, ReadCount(p, count))}
  <2>1. 0 \in G
    BY <1>1, <1>2, <1>5 DEF Run
  <2>2. ASSUME NEW i \in 1..Len(vmlist), i - 1 \in G
        PROVE  i \in G
    <3>1. f[i - 1] \in ReadState /\ Reads(i - 1, f[i - 1], p, ReadCount(p, count))
      BY <2>2 DEF Reads
    <3>2. f[i] = step[i][f[i - 1]]
      BY <1>5 DEF Run
    <3>3. f[i] = ReadArea(f[i - 1], vmlist[i])
      BY <3>1, <3>2
    <3>4. Reads(i, f[i], p, ReadCount(p, count))
      BY <3>1, <3>3, ReadComes
    <3> QED
      BY <1>1, <3>4
  <2>3. \A i \in 0..Len(vmlist) : i \in G
    <3> HIDE DEF G
    <3> QED
      BY <1>1, <2>1, <2>2, UpTo
  <2> QED
    BY <2>3
<1>7. Coming(f)
  <2>1. ASSUME NEW i \in 1..Len(vmlist)
        PROVE  f[i] = ReadArea(f[i - 1], vmlist[i])
    <3>1. i - 1 \in 0..Len(vmlist)
      BY <1>1
    <3>2. f[i - 1] \in ReadState /\ Reads(i - 1, f[i - 1], p, ReadCount(p, count))
      BY <1>6, <3>1 DEF Reads
    <3>3. f[i] = step[i][f[i - 1]]
      BY <1>5 DEF Run
    <3> QED
      BY <3>2, <3>3
  <2>2. \A i \in 0..Len(vmlist) : i # 0 => i \in 1..Len(vmlist)
    BY <1>1
  <2>3. f[0] = start /\ f \in [0..Len(vmlist) -> ReadState]
    BY <1>5 DEF Run
  <2>4. \A i \in 0..Len(vmlist) : f[i] = IF i = 0 THEN start ELSE ReadArea(f[i - 1], vmlist[i])
    BY <2>1, <2>2, <2>3
  <2> QED
    BY <2>3, <2>4 DEF start
<1> DEFINE g == CHOOSE h : Coming(h)
<1>8. Coming(g)
  <2> HIDE DEF Coming
  <2> QED
    BY <1>7
<1>9. Vread(p, count) = g[Len(vmlist)].buf
  BY DEF Vread
<1> HIDE DEF g
<1>10. \A i \in 0..Len(vmlist) : Reads(i, g[i], p, ReadCount(p, count))
  <2> DEFINE G == {i \in 0..Len(vmlist) : Reads(i, g[i], p, ReadCount(p, count))}
  <2>1. \A i \in 0..Len(vmlist) : g[i] = IF i = 0 THEN start ELSE ReadArea(g[i - 1], vmlist[i])
    BY <1>8 DEF start
  <2>2. 0 \in G
    BY <1>1, <1>2, <2>1
  <2>3. ASSUME NEW i \in 1..Len(vmlist), i - 1 \in G
        PROVE  i \in G
    <3>1. g[i] = ReadArea(g[i - 1], vmlist[i])
      BY <1>1, <2>1
    <3>2. Reads(i, g[i], p, ReadCount(p, count))
      BY <2>3, <3>1, ReadComes
    <3> QED
      BY <1>1, <3>2
  <2>4. \A i \in 0..Len(vmlist) : i \in G
    <3> HIDE DEF G
    <3> QED
      BY <1>1, <2>2, <2>3, UpTo
  <2> QED
    BY <2>4
<1> QED
  BY <1>1, <1>9, <1>10

WriteState == [addr : Nat, count : Nat, to : SUBSET Nat]
Writes(i, s, p, count) ==
    /\ s \in WriteState /\ Passing(i, s, p, count)
    /\ \A q \in Nat : q \in s.to <=> p <= q /\ q < s.addr /\ InArea(q)

LEMMA WriteComes ==
    ASSUME Linked, NEW p \in Nat \ {0}, NEW count \in Nat, NEW i \in 1..Len(vmlist),
           NEW s, Writes(i - 1, s, p, count), NEW r, r = WriteArea(s, vmlist[i])
    PROVE  Writes(i, r, p, count)
<1>1. PICK lo \in Nat, c \in Nat, b \in SUBSET Nat : lo = s.addr /\ c = s.count /\ b = s.to
  BY DEF Writes, WriteState
<1>2. /\ Passing(i - 1, s, p, count) /\ lo >= p
      /\ \A q \in Nat : q \in b <=> p <= q /\ q < lo /\ InArea(q)
  BY <1>1 DEF Writes, Passing
<1>3. CASE s.addr >= Limit(vmlist[i]) - 1
  <2>1. r = s
    BY <1>3 DEF WriteArea
  <2>2. Passing(i, s, p, count)
    BY <1>1, <1>2, <1>3, PassesOver
  <2> QED
    BY <2>1, <2>2 DEF Writes
<1>4. CASE ~(s.addr >= Limit(vmlist[i]) - 1)
  <2>1. PICK h : h = IF lo < vmlist[i].addr THEN Min({vmlist[i].addr - lo, c}) ELSE 0
    OBVIOUS
  <2>2. PICK n : n = Min({c - h, Limit(vmlist[i]) - 1 - (lo + h)})
    OBVIOUS
  <2>3. lo < Limit(vmlist[i]) - 1
    BY <1>1, <1>4, AreaNext
  <2>4. \A j \in 1..(i - 1) : c = 0 \/ Limit(vmlist[j]) - 1 <= lo
    BY <1>1, <1>2 DEF Passing
  <2>5. Crossing(i, lo, c, h, n)
    BY <2>1, <2>2, <2>3, <2>4 DEF Crossing
  <2>6. Crossed(i, lo, c, h, n)
    BY <2>5, AreaCrossed
  <2>7. /\ h \in Nat /\ n \in Nat /\ h + n <= c
        /\ \A q \in Nat : lo <= q /\ q < lo + h => ~InArea(q)
        /\ \A q \in Nat : lo + h <= q /\ q < lo + h + n => InArea(q)
    BY <2>6 DEF Crossed
  <2>8. PICK w : w = b \cup ((lo + h)..(lo + h + n - 1))
    OBVIOUS
  <2>9. r = [addr |-> lo + h + n, count |-> c - h - n, to |-> w]
    BY <1>1, <1>4, <2>1, <2>2, <2>8 DEF WriteArea
  <2>10. w \in SUBSET Nat /\ \A q \in Nat : q \in w <=> q \in b \/ (lo + h <= q /\ q < lo + h + n)
    BY <2>7, <2>8
  <2>11. ASSUME NEW q \in Nat
         PROVE  q \in w <=> p <= q /\ q < lo + h + n /\ InArea(q)
    <3>1. CASE q < lo
      <4>1. q < lo + h + n /\ ~(lo + h <= q)
        BY <2>7, <3>1
      <4> QED
        BY <1>2, <2>10, <3>1, <4>1
    <3>2. CASE lo <= q /\ q < lo + h
      <4>1. ~(q < lo) /\ ~(lo + h <= q) /\ ~InArea(q)
        BY <2>7, <3>2
      <4> QED
        BY <1>2, <2>10, <4>1
    <3>3. CASE lo + h <= q /\ q < lo + h + n
      <4>1. InArea(q) /\ p <= q
        BY <1>2, <2>7, <3>3
      <4> QED
        BY <2>10, <3>3, <4>1
    <3>4. CASE lo + h + n <= q
      <4>1. ~(q < lo) /\ ~(q < lo + h + n)
        BY <2>7, <3>4
      <4> QED
        BY <1>2, <2>10, <4>1
    <3> QED
      BY <2>7, <3>1, <3>2, <3>3, <3>4
  <2>12. r.addr = lo + h + n /\ r.count = c - h - n /\ r.to = w
    BY <2>9
  <2>13. r \in WriteState
    BY <2>7, <2>9, <2>10 DEF WriteState
  <2>14. Passing(i, r, p, count)
    BY <1>1, <1>2, <2>5, <2>12, PassesOn
  <2> QED
    BY <2>11, <2>12, <2>13, <2>14 DEF Writes
<1> QED
  BY <1>3, <1>4

LEMMA VwriteRuns ==
    ASSUME Linked, NEW p \in Nat \ {0}, NEW count, WriteCount(p, count) \in Nat
    PROVE  \E s : Writes(Len(vmlist), s, p, WriteCount(p, count)) /\ Vwrite(p, count) = s.to
<1> DEFINE start == [addr |-> p, count |-> WriteCount(p, count), to |-> {}]
           Coming(f) == f = [i \in 0..Len(vmlist) |->
                               IF i = 0 THEN [addr |-> p, count |-> WriteCount(p, count), to |-> {}]
                               ELSE WriteArea(f[i - 1], vmlist[i])]
           step == [i \in 1..Len(vmlist) |->
                      [s \in WriteState |-> IF Writes(i - 1, s, p, WriteCount(p, count)) THEN WriteArea(s, vmlist[i]) ELSE s]]
<1>1. Len(vmlist) \in Nat
  BY AreaNext
<1>2. Writes(0, start, p, WriteCount(p, count))
  <2>1. PICK s : s = start
    OBVIOUS
  <2>2. s.addr = p /\ s.count = WriteCount(p, count) /\ s.to = {} /\ s \in WriteState
    BY <2>1 DEF WriteState
  <2>3. 1..0 = {} /\ \A q \in Nat : ~(p <= q /\ q < p)
    OBVIOUS
  <2>4. Writes(0, s, p, WriteCount(p, count))
    BY <2>2, <2>3 DEF Writes, Passing
  <2> QED
    BY <2>1, <2>4
<1>3. start \in WriteState
  BY <1>2 DEF Writes
<1>4. step \in [1..Len(vmlist) -> [WriteState -> WriteState]]
  <2>1. ASSUME NEW i \in 1..Len(vmlist), NEW s \in WriteState, Writes(i - 1, s, p, WriteCount(p, count))
        PROVE  WriteArea(s, vmlist[i]) \in WriteState
    <3>1. PICK r : r = WriteArea(s, vmlist[i])
      OBVIOUS
    <3>2. Writes(i, r, p, WriteCount(p, count))
      BY <2>1, <3>1, WriteComes
    <3> QED
      BY <3>1, <3>2 DEF Writes
  <2> QED
    BY <2>1
<1>5. PICK f : Run(f, Len(vmlist), WriteState, start, step)
  <2> HIDE DEF start, step
  <2>1. Loop(Len(vmlist), WriteState, start, step)
    BY <1>1, <1>3, <1>4 DEF Loop
  <2> QED
    BY <2>1, Recursion
<1> HIDE DEF start
<1>6. \A i \in 0..Len(vmlist) : Writes(i, f[i], p, WriteCount(p, count))
  <2> DEFINE G == {i \in 0..Len(vmlist) : Writes(i, f[i], p, WriteCount(p, count))}
  <2>1. 0 \in G
    BY <1>1, <1>2, <1>5 DEF Run
  <2>2. ASSUME NEW i \in 1..Len(vmlist), i - 1 \in G
        PROVE  i \in G
    <3>1. f[i - 1] \in WriteState /\ Writes(i - 1, f[i - 1], p, WriteCount(p, count))
      BY <2>2 DEF Writes
    <3>2. f[i] = step[i][f[i - 1]]
      BY <1>5 DEF Run
    <3>3. f[i] = WriteArea(f[i - 1], vmlist[i])
      BY <3>1, <3>2
    <3>4. Writes(i, f[i], p, WriteCount(p, count))
      BY <3>1, <3>3, WriteComes
    <3> QED
      BY <1>1, <3>4
  <2>3. \A i \in 0..Len(vmlist) : i \in G
    <3> HIDE DEF G
    <3> QED
      BY <1>1, <2>1, <2>2, UpTo
  <2> QED
    BY <2>3
<1>7. Coming(f)
  <2>1. ASSUME NEW i \in 1..Len(vmlist)
        PROVE  f[i] = WriteArea(f[i - 1], vmlist[i])
    <3>1. i - 1 \in 0..Len(vmlist)
      BY <1>1
    <3>2. f[i - 1] \in WriteState /\ Writes(i - 1, f[i - 1], p, WriteCount(p, count))
      BY <1>6, <3>1 DEF Writes
    <3>3. f[i] = step[i][f[i - 1]]
      BY <1>5 DEF Run
    <3> QED
      BY <3>2, <3>3
  <2>2. \A i \in 0..Len(vmlist) : i # 0 => i \in 1..Len(vmlist)
    BY <1>1
  <2>3. f[0] = start /\ f \in [0..Len(vmlist) -> WriteState]
    BY <1>5 DEF Run
  <2>4. \A i \in 0..Len(vmlist) : f[i] = IF i = 0 THEN start ELSE WriteArea(f[i - 1], vmlist[i])
    BY <2>1, <2>2, <2>3
  <2> QED
    BY <2>3, <2>4 DEF start
<1> DEFINE g == CHOOSE h : Coming(h)
<1>8. Coming(g)
  <2> HIDE DEF Coming
  <2> QED
    BY <1>7
<1>9. Vwrite(p, count) = g[Len(vmlist)].to
  BY DEF Vwrite
<1> HIDE DEF g
<1>10. \A i \in 0..Len(vmlist) : Writes(i, g[i], p, WriteCount(p, count))
  <2> DEFINE G == {i \in 0..Len(vmlist) : Writes(i, g[i], p, WriteCount(p, count))}
  <2>1. \A i \in 0..Len(vmlist) : g[i] = IF i = 0 THEN start ELSE WriteArea(g[i - 1], vmlist[i])
    BY <1>8 DEF start
  <2>2. 0 \in G
    BY <1>1, <1>2, <2>1
  <2>3. ASSUME NEW i \in 1..Len(vmlist), i - 1 \in G
        PROVE  i \in G
    <3>1. g[i] = WriteArea(g[i - 1], vmlist[i])
      BY <1>1, <2>1
    <3>2. Writes(i, g[i], p, WriteCount(p, count))
      BY <2>3, <3>1, WriteComes
    <3> QED
      BY <1>1, <3>2
  <2>4. \A i \in 0..Len(vmlist) : i \in G
    <3> HIDE DEF G
    <3> QED
      BY <1>1, <2>2, <2>3, UpTo
  <2> QED
    BY <2>4
<1> QED
  BY <1>1, <1>9, <1>10

\* What is beyond the last area.
LEMMA AtEnd ==
    ASSUME Linked, NEW p \in Nat \ {0}, NEW count \in Nat, NEW s, s.addr \in Nat, s.count \in Nat,
           Passing(Len(vmlist), s, p, count)
    PROVE  /\ s.addr - p = Max({0, Min({count, End - p})})
           /\ \A q \in Nat : s.addr <= q /\ q < p + count => ~InArea(q)
<1>1. PICK l \in Nat : l = Len(vmlist)
  BY AreaNext
<1>2. /\ s.addr + s.count = p + count /\ s.addr >= p
      /\ \A j \in 1..l : s.count = 0 \/ Limit(vmlist[j]) - 1 <= s.addr
      /\ s.addr = p \/ \E j \in 1..l : s.addr <= Limit(vmlist[j]) - 1
  BY <1>1 DEF Passing
<1>3. End \in Nat /\ (s.count = 0 \/ End <= s.addr) /\ (s.addr = p \/ s.addr <= End)
  <2>1. CASE vmlist = <<>>
    <3>1. l = 0 /\ 1..l = {}
      BY <1>1, <2>1
    <3> QED
      BY <1>2, <2>1, <3>1 DEF End
  <2>2. CASE vmlist # <<>>
    <3>1. l \in 1..l /\ l # 0
      BY <1>1, <2>2, SeqParts DEF Linked
    <3>2. l \in 1..Len(vmlist) /\ End = Limit(vmlist[l]) - 1
      BY <1>1, <2>2, <3>1 DEF End, Last
    <3>3. PICK e \in Nat : e = Limit(vmlist[l]) - 1 /\ vmlist[l].addr \in Nat /\ vmlist[l].addr <= e
      <4>1. /\ vmlist[l].addr \in Nat /\ vmlist[l].n \in Nat
            /\ Limit(vmlist[l]) = vmlist[l].addr + vmlist[l].n + 1
        BY <3>2, AreaNext
      <4>2. PICK x \in Nat, n \in Nat : x = vmlist[l].addr /\ n = vmlist[l].n
        BY <4>1
      <4>3. PICK e \in Nat : e = x + n
        OBVIOUS
      <4>4. Limit(vmlist[l]) = x + n + 1
        BY <4>1, <4>2
      <4>5. e = Limit(vmlist[l]) - 1 /\ x <= e
        BY <4>3, <4>4
      <4> QED
        BY <4>2, <4>5
    <3>4. \A j \in 1..l : Limit(vmlist[j]) - 1 <= e /\ Limit(vmlist[j]) \in Nat
      <4> TAKE j \in 1..l
      <4>1. j \in 1..Len(vmlist) /\ Limit(vmlist[j]) \in Nat
        BY <1>1, AreaNext
      <4>2. CASE j = l
        BY <3>3, <4>1, <4>2
      <4>3. CASE j # l
        <5>1. j < l
          BY <4>3
        <5>2. Limit(vmlist[j]) <= vmlist[l].addr
          BY <3>2, <4>1, <5>1, AreaNext
        <5> QED
          BY <3>3, <4>1, <5>2
      <4> QED
        BY <4>2, <4>3
    <3>5. End = e
      BY <3>2, <3>3
    <3>6. s.count = 0 \/ e <= s.addr
      BY <1>2, <3>1, <3>3
    <3>7. s.addr = p \/ s.addr <= e
      BY <1>2, <3>4
    <3> QED
      BY <3>5, <3>6, <3>7
  <2> QED
    BY <2>1, <2>2
<1>4. s.addr - p = Max({0, Min({count, End - p})})
  <2>1. PICK e \in Nat : e = End
    BY <1>3
  <2>2. PICK x \in Nat : x = s.addr
    OBVIOUS
  <2>3. PICK c \in Nat : c = s.count
    OBVIOUS
  <2>4. x + c = p + count /\ x >= p /\ (c = 0 \/ e <= x) /\ (x = p \/ x <= e)
    BY <1>2, <1>3, <2>1, <2>2, <2>3
  <2>5. PICK d \in Int : d = e - p
    OBVIOUS
  <2>6. PICK m \in Int : m = Min({count, d}) /\ m = IF count <= d THEN count ELSE d
    <3>1. count \in Int /\ Min({count, d}) = IF count <= d THEN count ELSE d
      BY OfTwo
    <3> QED
      BY <3>1
  <2>7. PICK y : y = Max({0, m}) /\ y = IF 0 <= m THEN m ELSE 0
    <3>1. 0 \in Int
      OBVIOUS
    <3> QED
      BY <3>1, OfTwo
  <2>8. y = x - p
    <3>1. m = (IF count <= d THEN count ELSE d) /\ y = IF 0 <= m THEN m ELSE 0
      BY <2>6, <2>7
    <3>2. CASE c = 0
      BY <2>4, <2>5, <3>1, <3>2
    <3>3. CASE c # 0
      BY <2>4, <2>5, <3>1, <3>3
    <3> QED
      BY <3>2, <3>3
  <2> QED
    BY <2>1, <2>2, <2>5, <2>6, <2>7, <2>8
<1>5. ASSUME NEW q \in Nat, s.addr <= q, q < p + count
      PROVE  ~InArea(q)
  <2>1. s.count # 0
    BY <1>2, <1>5
  <2>2. ASSUME NEW b \in Listed, q \in Span(b)
        PROVE  FALSE
    <3>1. PICK j \in 1..l : vmlist[j] = b
      BY <1>1, AreaNext
    <3>2. q < Limit(b) - 1 /\ Limit(b) \in Nat /\ Limit(b) - 1 <= s.addr
      BY <1>1, <1>2, <2>1, <2>2, <3>1, AreaNext
    <3> QED
      BY <1>5, <3>2
  <2> QED
    BY <2>2 DEF InArea
<1> QED
  BY <1>4, <1>5

LEMMA InvReads ==
    ASSUME Inv
    PROVE  ReadsExact
<1> SUFFICES ASSUME NEW p \in VmStart..(VmEnd + 1), NEW count \in Counts
             PROVE  /\ Len(Vread(p, count)) = Max({0, Min({ReadCount(p, count), End - p})})
                    /\ \A i \in 1..Len(Vread(p, count)) : ReadRight(Vread(p, count)[i], p + i - 1)
                    /\ Overflows(p, count) \/ Vwrite(p, count) = {q \in p..(p + count - 1) : InArea(q)}
  BY DEF ReadsExact
<1>1. Linked /\ pte \in [Addresses -> Pages]
  BY InvLinked DEF Inv, TypeOK, Pages
<1>2. p \in Nat \ {0} /\ count \in Nat /\ p <= Space /\ Space \in Nat
  BY Constants, VmallocAssumption
<1>3. PICK s : /\ Reads(Len(vmlist), s, p, ReadCount(p, count)) /\ Vread(p, count) = s.buf
               /\ ReadCount(p, count) \in Nat
  <2>1. ReadCount(p, count) \in Nat
    BY <1>2 DEF ReadCount
  <2> QED
    BY <1>1, <1>2, <2>1, VreadRuns
<1>4. /\ s.addr \in Nat /\ s.count \in Nat /\ Passing(Len(vmlist), s, p, ReadCount(p, count))
      /\ Len(s.buf) = s.addr - p /\ \A k \in 1..Len(s.buf) : s.buf[k] = Content(p + k - 1)
  BY <1>3 DEF Reads, ReadState
<1>5. Len(s.buf) = Max({0, Min({ReadCount(p, count), End - p})})
  BY <1>1, <1>2, <1>3, <1>4, AtEnd
<1>6. ASSUME NEW q
      PROVE  ReadRight(Content(q), q)
  <2>1. CASE ~InArea(q)
    BY <2>1 DEF ReadRight, Content
  <2>2. CASE InArea(q)
    <3>1. PICK a \in Listed : q \in Span(a)
      BY <2>2 DEF InArea
    <3>2. Content(q) = pte[q]
      BY <2>2 DEF Content
    <3>3. ~replaced => \/ q - a.addr < Len(a.frames) /\ pte[q] = a.frames[q - a.addr + 1]
                       \/ a.addr \in Building /\ pte[q] = None
      BY <3>1, InvMapped DEF Mapped
    <3> QED
      BY <3>1, <3>2, <3>3 DEF ReadRight
  <2> QED
    BY <2>1, <2>2
<1>7. ASSUME ~Overflows(p, count)
      PROVE  Vwrite(p, count) = {q \in p..(p + count - 1) : InArea(q)}
  <2>0. WriteCount(p, count) = count
    BY <1>7 DEF WriteCount
  <2>1. PICK w : Writes(Len(vmlist), w, p, count) /\ Vwrite(p, count) = w.to
    BY <1>1, <1>2, <2>0, VwriteRuns
  <2>2. /\ w.addr \in Nat /\ w.count \in Nat /\ w.to \subseteq Nat /\ Passing(Len(vmlist), w, p, count)
        /\ \A q \in Nat : q \in w.to <=> p <= q /\ q < w.addr /\ InArea(q)
    BY <2>1 DEF Writes, WriteState
  <2>3. \A q \in Nat : w.addr <= q /\ q < p + count => ~InArea(q)
    BY <1>1, <1>2, <2>2, AtEnd
  <2>4. w.addr <= p + count
    BY <1>2, <2>2 DEF Passing
  <2>5. ASSUME NEW q
        PROVE  q \in w.to <=> q \in p..(p + count - 1) /\ InArea(q)
    <3>1. q \in p..(p + count - 1) <=> q \in Nat /\ p <= q /\ q < p + count
      BY <1>2
    <3> QED
      BY <1>2, <2>2, <2>3, <2>4, <3>1
  <2> QED
    BY <2>1, <2>5
<1> QED
  BY <1>3, <1>4, <1>5, <1>6, <1>7

\* Whatever is allocated and freed before, vread copies the pages of the areas from an address on,
\* zeros for the holes and guard pages between them, and ends with the last area, even if the
\* count overflows, and only in an area that is being built, or whose table was replaced, may it
\* fault; vwrite reaches the same pages if the count does not overflow.
THEOREM ReadsStayExact == Spec => []ReadsExact
<1>1. Inv => ReadsExact
  BY InvReads
<1> QED
  BY <1>1, InvAlways, PTL
=============================================================================
