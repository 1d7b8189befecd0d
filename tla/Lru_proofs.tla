----------------------------- MODULE Lru_proofs -----------------------------
(****************************************************************************)
(* That the references are exact, that lists, counts and flags agree, and   *)
(* that a page is freed once and clean, though batches drop references      *)
(* without the lock that a scan has when it takes pages off a list.         *)
(****************************************************************************)
EXTENDS Lru, FiniteSetTheorems, SequenceTheorems, TLAPS

(****************************************************************************)
(* Sequences without repetition.                                            *)
(****************************************************************************)
\* What a sequence's length, its domain and its set of elements are.
LEMMA SeqParts ==
    ASSUME NEW S, NEW s \in Seq(S)
    PROVE  /\ Len(s) \in Nat /\ DOMAIN s = 1..Len(s) /\ ToSet(s) \subseteq S
           /\ \A x : x \in ToSet(s) <=> \E i \in 1..Len(s) : s[i] = x
           /\ IsInjective(s) <=> \A i, j \in 1..Len(s) : s[i] = s[j] => i = j
           /\ s = <<>> <=> Len(s) = 0
           /\ s = <<>> <=> ToSet(s) = {}
<1>1. Len(s) \in Nat /\ DOMAIN s = 1..Len(s) /\ \A i \in 1..Len(s) : s[i] \in S
  BY LenProperties
<1>2. s = <<>> <=> Len(s) = 0
  BY EmptySeq
<1>3. s = <<>> <=> ToSet(s) = {}
  <2>1. Len(s) # 0 => s[1] \in ToSet(s)
    BY <1>1 DEF ToSet
  <2>2. Len(s) = 0 => 1..Len(s) = {}
    OBVIOUS
  <2> QED
    BY <1>1, <1>2, <2>1, <2>2 DEF ToSet
<1> QED
  BY <1>1, <1>2, <1>3 DEF ToSet, IsInjective

\* The sequence without elements.
LEMMA EmptyParts == ToSet(<<>>) = {} /\ IsInjective(<<>>) /\ Len(<<>>) = 0 /\ \A S : <<>> \in Seq(S)
BY EmptySeq DEF ToSet, IsInjective

\* An element in front.
LEMMA Pushed ==
    ASSUME NEW S, NEW s \in Seq(S), NEW x \in S
    PROVE  /\ <<x>> \o s \in Seq(S) /\ Len(<<x>> \o s) = Len(s) + 1
           /\ ToSet(<<x>> \o s) = ToSet(s) \cup {x}
           /\ IsInjective(s) /\ x \notin ToSet(s) => IsInjective(<<x>> \o s)
<1> DEFINE t == <<x>> \o s
<1>0. PICK u : u = t
  OBVIOUS
<1>1. <<x>> \in Seq(S) /\ Len(<<x>>) = 1 /\ <<x>>[1] = x
  OBVIOUS
<1>2. /\ u \in Seq(S) /\ Len(u) = Len(s) + 1
      /\ \A i \in 1..Len(s) + 1 : u[i] = IF i <= 1 THEN x ELSE s[i - 1]
  BY <1>0, <1>1, ConcatProperties
<1>3. Len(s) \in Nat
  BY SeqParts
<1>4. u[1] = x /\ \A i \in 1..Len(s) : i + 1 \in 1..Len(u) /\ u[i + 1] = s[i]
  BY <1>2, <1>3
<1>5. \A y : y \in ToSet(u) <=> y \in ToSet(s) \cup {x}
  <2>1. ASSUME NEW y PROVE y \in ToSet(u) <=> y \in ToSet(s) \cup {x}
    <3>1. y \in ToSet(u) <=> \E i \in 1..Len(u) : u[i] = y
      BY <1>2, SeqParts
    <3>2. y \in ToSet(s) <=> \E i \in 1..Len(s) : s[i] = y
      BY SeqParts
    <3>3. ASSUME NEW i \in 1..Len(u), u[i] = y PROVE y = x \/ \E j \in 1..Len(s) : s[j] = y
      <4>1. CASE i = 1
        BY <1>4, <3>3, <4>1
      <4>2. CASE i # 1
        <5>1. i - 1 \in 1..Len(s) /\ s[i - 1] = y
          BY <1>2, <1>3, <3>3, <4>2
        <5> QED
          BY <5>1
      <4> QED
        BY <4>1, <4>2
    <3>4. 1 \in 1..Len(u)
      BY <1>2, <1>3
    <3>5. ASSUME NEW j \in 1..Len(s), s[j] = y PROVE \E i \in 1..Len(u) : u[i] = y
      BY <1>4, <3>5
    <3> QED
      BY <1>4, <3>1, <3>2, <3>3, <3>4, <3>5
  <2> QED
    BY <2>1
<1>6. ASSUME IsInjective(s), x \notin ToSet(s) PROVE IsInjective(u)
  <2>1. \A i \in 1..Len(s) : s[i] # x
    BY <1>6, SeqParts
  <2>2. \A i, j \in 1..Len(s) : s[i] = s[j] => i = j
    BY <1>6, SeqParts
  <2>3. ASSUME NEW i \in 1..Len(u), NEW j \in 1..Len(u), u[i] = u[j] PROVE i = j
    <3>1. i # 1 => i - 1 \in 1..Len(s) /\ u[i] = s[i - 1]
      BY <1>2, <1>3
    <3>2. j # 1 => j - 1 \in 1..Len(s) /\ u[j] = s[j - 1]
      BY <1>2, <1>3
    <3> QED
      BY <1>4, <2>1, <2>2, <2>3, <3>1, <3>2
  <2> QED
    BY <1>2, <2>3, SeqParts
<1> QED
  BY <1>0, <1>2, <1>5, <1>6

\* An element behind.
LEMMA Appended ==
    ASSUME NEW S, NEW s \in Seq(S), NEW x \in S
    PROVE  /\ Append(s, x) \in Seq(S) /\ Len(Append(s, x)) = Len(s) + 1
           /\ ToSet(Append(s, x)) = ToSet(s) \cup {x}
           /\ IsInjective(s) /\ x \notin ToSet(s) => IsInjective(Append(s, x))
<1>0. PICK u : u = Append(s, x)
  OBVIOUS
<1>1. Len(s) \in Nat
  BY SeqParts
<1>2. /\ u \in Seq(S) /\ Len(u) = Len(s) + 1 /\ u[Len(s) + 1] = x
      /\ \A i \in 1..Len(s) : u[i] = s[i]
  BY <1>0, AppendProperties
<1>3. \A y : y \in ToSet(u) <=> y \in ToSet(s) \cup {x}
  <2>1. ASSUME NEW y PROVE y \in ToSet(u) <=> y \in ToSet(s) \cup {x}
    <3>1. y \in ToSet(u) <=> \E i \in 1..Len(u) : u[i] = y
      BY <1>2, SeqParts
    <3>2. y \in ToSet(s) <=> \E i \in 1..Len(s) : s[i] = y
      BY SeqParts
    <3>3. \A i \in 1..Len(u) : i \in 1..Len(s) \/ i = Len(s) + 1
      BY <1>1, <1>2
    <3>4. Len(s) + 1 \in 1..Len(u) /\ \A i \in 1..Len(s) : i \in 1..Len(u)
      BY <1>1, <1>2
    <3> QED
      BY <1>2, <3>1, <3>2, <3>3, <3>4
  <2> QED
    BY <2>1
<1>4. ASSUME IsInjective(s), x \notin ToSet(s) PROVE IsInjective(u)
  <2>1. \A i \in 1..Len(s) : s[i] # x
    BY <1>4, SeqParts
  <2>2. \A i, j \in 1..Len(s) : s[i] = s[j] => i = j
    BY <1>4, SeqParts
  <2>3. \A i \in 1..Len(u) : i \in 1..Len(s) \/ i = Len(s) + 1
    BY <1>1, <1>2
  <2>4. \A i, j \in 1..Len(u) : u[i] = u[j] => i = j
    BY <1>2, <2>1, <2>2, <2>3
  <2> QED
    BY <1>2, <2>4, SeqParts
<1> QED
  BY <1>0, <1>2, <1>3, <1>4

\* Sequence u is s without its element at k.
Drops(s, k, u) ==
    /\ Len(u) = Len(s) - 1
    /\ \A i \in 1..Len(u) : i < k => u[i] = s[i]
    /\ \A i \in 1..Len(u) : ~(i < k) => u[i] = s[i + 1]

\* Without one of its elements, a sequence without repetition has the others once each.
LEMMA Removed ==
    ASSUME NEW S, NEW s \in Seq(S), NEW k \in 1..Len(s), NEW u \in Seq(S), IsInjective(s),
           Drops(s, k, u)
    PROVE  IsInjective(u) /\ ToSet(u) = ToSet(s) \ {s[k]}
<1>0. /\ Len(u) = Len(s) - 1
      /\ \A i \in 1..Len(u) : i < k => u[i] = s[i]
      /\ \A i \in 1..Len(u) : ~(i < k) => u[i] = s[i + 1]
  BY DEF Drops
<1>1. Len(s) \in Nat /\ Len(u) \in Nat /\ \A i, j \in 1..Len(s) : s[i] = s[j] => i = j
  BY SeqParts
<1>2. \A i \in 1..Len(u) : i \in 1..Len(s) /\ i + 1 \in 1..Len(s)
  BY <1>0, <1>1
<1>3. \A i, j \in 1..Len(u) : u[i] = u[j] => i = j
  <2>1. ASSUME NEW i \in 1..Len(u), NEW j \in 1..Len(u), u[i] = u[j] PROVE i = j
    <3>1. CASE i < k /\ j < k
      BY <1>0, <1>1, <1>2, <2>1, <3>1
    <3>2. CASE i < k /\ ~(j < k)
      <4>1. s[i] = s[j + 1]
        BY <1>0, <2>1, <3>2
      <4> QED
        BY <1>0, <1>1, <1>2, <3>2, <4>1
    <3>3. CASE ~(i < k) /\ j < k
      <4>1. s[i + 1] = s[j]
        BY <1>0, <2>1, <3>3
      <4> QED
        BY <1>0, <1>1, <1>2, <3>3, <4>1
    <3>4. CASE ~(i < k) /\ ~(j < k)
      <4>1. s[i + 1] = s[j + 1]
        BY <1>0, <2>1, <3>4
      <4> QED
        BY <1>0, <1>1, <1>2, <3>4, <4>1
    <3> QED
      BY <3>1, <3>2, <3>3, <3>4
  <2> QED
    BY <1>0, <2>1
<1>4. ASSUME NEW x PROVE x \in ToSet(u) <=> x \in ToSet(s) \ {s[k]}
  <2>1. x \in ToSet(u) <=> \E i \in 1..Len(u) : u[i] = x
    BY SeqParts
  <2>2. x \in ToSet(s) <=> \E i \in 1..Len(s) : s[i] = x
    BY SeqParts
  <2>3. ASSUME NEW i \in 1..Len(u), u[i] = x PROVE x \in ToSet(s) /\ x # s[k]
    <3>1. CASE i < k
      BY <1>0, <1>1, <1>2, <2>2, <2>3, <3>1
    <3>2. CASE ~(i < k)
      <4>1. x = s[i + 1] /\ i + 1 # k /\ i + 1 \in 1..Len(s)
        BY <1>0, <1>2, <2>3, <3>2
      <4> QED
        BY <1>0, <1>1, <2>2, <4>1
    <3> QED
      BY <3>1, <3>2
  <2>4. ASSUME NEW i \in 1..Len(s), s[i] = x, x # s[k] PROVE x \in ToSet(u)
    <3>1. CASE i < k
      <4>1. i \in 1..Len(u) /\ u[i] = x
        BY <1>0, <1>1, <2>4, <3>1
      <4> QED
        BY <1>0, <2>1, <4>1
    <3>2. CASE ~(i < k)
      <4>1. i - 1 \in 1..Len(u) /\ ~(i - 1 < k) /\ (i - 1) + 1 = i
        BY <1>0, <1>1, <2>4, <3>2
      <4>2. u[i - 1] = x
        BY <1>0, <2>4, <4>1
      <4> QED
        BY <1>0, <2>1, <4>1, <4>2
    <3> QED
      BY <3>1, <3>2
  <2>5. x \in ToSet(u) => x \in ToSet(s) /\ x # s[k]
    BY <1>0, <2>1, <2>3
  <2>6. x \in ToSet(s) /\ x # s[k] => x \in ToSet(u)
    BY <1>0, <2>2, <2>4
  <2> QED
    BY <1>0, <2>5, <2>6
<1> QED
  BY <1>0, <1>3, <1>4, SeqParts

\* The first element, and the rest.
LEMMA TailParts ==
    ASSUME NEW S, NEW s \in Seq(S), s # <<>>
    PROVE  /\ Head(s) \in S /\ Head(s) \in ToSet(s) /\ Head(s) = s[1]
           /\ Tail(s) \in Seq(S) /\ Len(Tail(s)) = Len(s) - 1
           /\ IsInjective(s) => IsInjective(Tail(s)) /\ ToSet(Tail(s)) = ToSet(s) \ {Head(s)}
<1>1. Len(s) \in Nat \ {0} /\ 1 \in 1..Len(s)
  BY EmptySeq
<1>2. /\ Head(s) \in S /\ Tail(s) \in Seq(S) /\ Len(Tail(s)) = Len(s) - 1
      /\ \A i \in 1..Len(Tail(s)) : Tail(s)[i] = s[i + 1]
  BY HeadTailProperties
<1>3. Head(s) = s[1]
  BY <1>1
<1>4. PICK u : u = Tail(s)
  OBVIOUS
<1>5. PICK k : k = 1
  OBVIOUS
<1>6. IsInjective(s) => IsInjective(u) /\ ToSet(u) = ToSet(s) \ {s[1]}
  <2>1. k \in 1..Len(s) /\ u \in Seq(S) /\ Len(u) = Len(s) - 1
    BY <1>1, <1>2, <1>4, <1>5
  <2>2. Drops(s, k, u)
    BY <1>1, <1>2, <1>4, <1>5 DEF Drops
  <2>3. IsInjective(s) => IsInjective(u) /\ ToSet(u) = ToSet(s) \ {s[k]}
    BY <2>1, <2>2, Removed
  <2> QED
    BY <1>5, <2>3
<1>7. s[1] \in ToSet(s)
  BY <1>1, SeqParts
<1> QED
  BY <1>2, <1>3, <1>4, <1>6, <1>7

\* The last element, and the rest.
LEMMA FrontParts ==
    ASSUME NEW S, NEW s \in Seq(S), s # <<>>
    PROVE  /\ Last(s) \in S /\ Last(s) \in ToSet(s)
           /\ Front(s) \in Seq(S) /\ Len(Front(s)) = Len(s) - 1
           /\ IsInjective(s) => IsInjective(Front(s)) /\ ToSet(Front(s)) = ToSet(s) \ {Last(s)}
<1>1. Len(s) \in Nat \ {0} /\ Len(s) \in 1..Len(s) /\ \A i \in 1..Len(s) : s[i] \in S
  BY EmptySeq, ElementOfSeq
<1>2. PICK n : n = Len(s) - 1
  OBVIOUS
<1>3. n \in Int /\ 1 \in Int /\ \A i \in 1..n : s[i] \in S
  BY <1>1, <1>2
<1>4. PICK u : u = Front(s)
  OBVIOUS
<1>5. u = SubSeq(s, 1, n)
  BY <1>2, <1>4 DEF Front
<1>6. /\ u \in Seq(S) /\ Len(u) = IF 1 <= n THEN n - 1 + 1 ELSE 0
      /\ \A i \in 1..n - 1 + 1 : u[i] = s[1 + i - 1]
  BY <1>3, <1>5, SubSeqProperties
<1>7. Len(u) = Len(s) - 1 /\ \A i \in 1..Len(u) : u[i] = s[i]
  BY <1>1, <1>2, <1>6
<1>8. Drops(s, Len(s), u)
  BY <1>1, <1>7 DEF Drops
<1>9. IsInjective(s) => IsInjective(u) /\ ToSet(u) = ToSet(s) \ {s[Len(s)]}
  BY <1>1, <1>6, <1>7, <1>8, Removed
<1>10. s[Len(s)] \in ToSet(s)
  BY <1>1, SeqParts
<1> QED
  BY <1>1, <1>4, <1>6, <1>7, <1>9, <1>10 DEF Last

\* list_del takes one page off a list on which no page is twice.
LEMMA WithoutParts ==
    ASSUME NEW S, NEW s \in Seq(S), NEW x, IsInjective(s)
    PROVE  /\ Without(s, x) \in Seq(S) /\ IsInjective(Without(s, x))
           /\ ToSet(Without(s, x)) = ToSet(s) \ {x}
           /\ x \in ToSet(s) => Len(Without(s, x)) = Len(s) - 1
           /\ x \notin ToSet(s) => Without(s, x) = s
<1>1. CASE x \notin ToSet(s)
  BY <1>1 DEF Without
<1>2. CASE x \in ToSet(s)
  <2>1. Len(s) \in Nat /\ DOMAIN s = 1..Len(s) /\ \A i \in 1..Len(s) : s[i] \in S
    BY SeqParts, ElementOfSeq
  <2>2. PICK k : k = CHOOSE i \in DOMAIN s : s[i] = x
    OBVIOUS
  <2>3. k \in 1..Len(s) /\ s[k] = x
    BY <1>2, <2>1, <2>2, SeqParts
  <2>4. PICK a : a = SubSeq(s, 1, k - 1)
    OBVIOUS
  <2>5. PICK b : b = SubSeq(s, k + 1, Len(s))
    OBVIOUS
  <2>6. PICK u : u = a \o b
    OBVIOUS
  <2>7. Without(s, x) = u
    BY <1>2, <2>2, <2>4, <2>5, <2>6 DEF Without, RemoveAt
  <2>8. PICK m : m = k - 1
    OBVIOUS
  <2>9. PICK n : n = k + 1
    OBVIOUS
  <2>10. m \in Int /\ n \in Int /\ 1 \in Int /\ Len(s) \in Int
    BY <2>1, <2>3, <2>8, <2>9
  <2>11. /\ a \in Seq(S) /\ Len(a) = IF 1 <= m THEN m - 1 + 1 ELSE 0
         /\ \A i \in 1..m - 1 + 1 : a[i] = s[1 + i - 1]
    <3>1. \A i \in 1..m : s[i] \in S
      BY <2>1, <2>3, <2>8
    <3> QED
      BY <2>4, <2>8, <2>10, <3>1, SubSeqProperties
  <2>12. /\ b \in Seq(S) /\ Len(b) = IF n <= Len(s) THEN Len(s) - n + 1 ELSE 0
         /\ \A i \in 1..Len(s) - n + 1 : b[i] = s[n + i - 1]
    <3>1. \A i \in n..Len(s) : s[i] \in S
      BY <2>1, <2>3, <2>9
    <3> QED
      BY <2>5, <2>9, <2>10, <3>1, SubSeqProperties
  <2>13. /\ u \in Seq(S) /\ Len(u) = Len(a) + Len(b)
         /\ \A i \in 1..Len(a) + Len(b) : u[i] = IF i <= Len(a) THEN a[i] ELSE b[i - Len(a)]
    BY <2>6, <2>11, <2>12, ConcatProperties
  <2>14. Len(a) = k - 1 /\ Len(b) = Len(s) - k /\ Len(u) = Len(s) - 1
    <3>1. Len(a) = k - 1
      BY <2>3, <2>8, <2>11
    <3>2. Len(b) = Len(s) - k
      <4>1. Len(b) = IF n <= Len(s) THEN Len(s) - n + 1 ELSE 0
        BY <2>12
      <4>2. n = k + 1 /\ k <= Len(s) /\ k \in Nat /\ Len(s) \in Nat
        BY <2>1, <2>3, <2>9
      <4>3. CASE k = Len(s)
        BY <4>1, <4>2, <4>3
      <4>4. CASE k # Len(s)
        BY <4>1, <4>2, <4>4
      <4> QED
        BY <4>3, <4>4
    <3> QED
      BY <2>1, <2>3, <2>13, <3>1, <3>2
  <2>15. \A i \in 1..Len(a) : a[i] = s[i]
    BY <2>1, <2>3, <2>8, <2>11, <2>14
  <2>16. \A i \in 1..Len(b) : b[i] = s[k + i]
    <3>1. Len(s) - n + 1 = Len(b) /\ \A i \in 1..Len(b) : n + i - 1 = k + i
      BY <2>1, <2>3, <2>9, <2>14
    <3> QED
      BY <2>12, <3>1
  <2>17. ASSUME NEW i \in 1..Len(u) PROVE u[i] = IF i < k THEN s[i] ELSE s[i + 1]
    <3>1. CASE i < k
      BY <2>1, <2>3, <2>13, <2>14, <2>15, <3>1
    <3>2. CASE ~(i < k)
      <4>1. i - Len(a) \in 1..Len(b) /\ u[i] = b[i - Len(a)]
        <5>1. i \in 1..(Len(a) + Len(b)) /\ i > Len(a) /\ Len(a) \in Nat /\ Len(b) \in Nat
          BY <2>1, <2>3, <2>13, <2>14, <3>2
        <5>2. u[i] = IF i <= Len(a) THEN a[i] ELSE b[i - Len(a)]
          BY <2>13, <5>1
        <5> QED
          BY <5>1, <5>2
      <4>2. b[i - Len(a)] = s[k + (i - Len(a))]
        BY <2>16, <4>1
      <4>3. k + (i - Len(a)) = i + 1
        BY <2>3, <2>14
      <4> QED
        BY <3>2, <4>1, <4>2, <4>3
    <3> QED
      BY <3>1, <3>2
  <2>18. IsInjective(u) /\ ToSet(u) = ToSet(s) \ {s[k]}
    <3>1. u \in Seq(S) /\ Len(u) = Len(s) - 1
      BY <2>13, <2>14
    <3>2. k \in 1..Len(s)
      BY <2>3
    <3>3. Drops(s, k, u)
      BY <2>17, <3>1 DEF Drops
    <3> QED
      BY <3>1, <3>2, <3>3, Removed
  <2> QED
    BY <1>2, <2>3, <2>7, <2>13, <2>14, <2>18
<1> QED
  BY <1>1, <1>2

\* It is a sequence even if it had x twice.
LEMMA WithoutType ==
    ASSUME NEW S, NEW s \in Seq(S), NEW x
    PROVE  Without(s, x) \in Seq(S)
<1>1. CASE x \notin ToSet(s)
  BY <1>1 DEF Without
<1>2. CASE x \in ToSet(s)
  <2>1. Len(s) \in Nat /\ DOMAIN s = 1..Len(s) /\ \A i \in 1..Len(s) : s[i] \in S
    BY SeqParts, ElementOfSeq
  <2>2. PICK k : k = CHOOSE i \in DOMAIN s : s[i] = x
    OBVIOUS
  <2>3. k \in 1..Len(s)
    BY <1>2, <2>1, <2>2, SeqParts
  <2>4. PICK m : m = k - 1
    OBVIOUS
  <2>5. PICK n : n = k + 1
    OBVIOUS
  <2>6. m \in Int /\ n \in Int /\ 1 \in Int /\ Len(s) \in Int
    BY <2>1, <2>3, <2>4, <2>5
  <2>7. SubSeq(s, 1, m) \in Seq(S)
    <3>1. \A i \in 1..m : s[i] \in S
      BY <2>1, <2>3, <2>4
    <3> QED
      BY <2>6, <3>1, SubSeqProperties
  <2>8. SubSeq(s, n, Len(s)) \in Seq(S)
    <3>1. \A i \in n..Len(s) : s[i] \in S
      BY <2>1, <2>3, <2>5
    <3> QED
      BY <2>6, <3>1, SubSeqProperties
  <2>9. Without(s, x) = SubSeq(s, 1, m) \o SubSeq(s, n, Len(s))
    BY <1>2, <2>2, <2>4, <2>5 DEF Without, RemoveAt
  <2> QED
    BY <2>7, <2>8, <2>9, ConcatProperties
<1> QED
  BY <1>1, <1>2

(****************************************************************************)
(* Types, vectors and locks.                                                *)
(****************************************************************************)
Turns == {"idle", "add", "put", "unlist", "free"}

TypedPages ==
    /\ zoneOf \in ZoneMaps /\ zoneOf \in [Pages -> Zones]
    /\ count \in [Pages -> Int]
    /\ lruFlag \subseteq Pages /\ activeFlag \subseteq Pages
    /\ activeList \in [Zones -> Seq(Pages)] /\ inactiveList \in [Zones -> Seq(Pages)]
    /\ nrActive \in [Zones -> Int] /\ nrInactive \in [Zones -> Int]
    /\ free \subseteq Pages

TypedTasks ==
    /\ \A t \in Tasks : pc[t] \in Turns
    /\ vec \in [Tasks -> Seq(Pages)] /\ todo \in [Tasks -> Seq(Pages)]
    /\ kind \in [Tasks -> {"active", "inactive"}]
    /\ toFree \in [Tasks -> Seq(Pages)]
    /\ refs \in [Tasks -> [Pages -> 0..MaxRefs]]
    /\ fresh \in [Tasks -> SUBSET Pages]

TypedScan ==
    /\ pc \in [Contexts -> Turns \cup {"isolate", "give_back"}]
    /\ pc[Scanner] \in {"idle", "isolate", "give_back"}
    /\ hold \in Seq(Pages) /\ lost \subseteq Pages
    /\ scan \in [zone : Zones \cup {None}, seen : Nat, taken : Nat]

TypedLocks ==
    /\ lock \in [Zones -> Contexts \cup {None}]
    /\ held \in [Tasks -> Zones \cup {None}]

Typed == TypedPages /\ TypedTasks /\ TypedScan /\ TypedLocks

\* What a task's vectors are where it is.
Vectors ==
    \A t \in Tasks :
        /\ IsInjective(vec[t]) /\ IsInjective(todo[t])
        /\ pc[t] = "idle" => vec[t] = <<>>
        /\ pc[t] = "add" => ToSet(vec[t]) \subseteq ToSet(todo[t])
        /\ pc[t] = "unlist" => vec[t] # <<>>
        /\ pc[t] = "free" => toFree[t] # <<>>

\* Who has which lock, and what the scan has on its list.
Held == \A t \in Tasks, z \in Zones : held[t] = z <=> lock[z] = t

Scanned ==
    /\ \A z \in Zones : scan.zone = z <=> lock[z] = Scanner
    /\ pc[Scanner] = "idle" <=> scan.zone = None
    /\ pc[Scanner] = "idle" => hold = <<>>
    /\ Len(hold) = scan.taken + (IF pc[Scanner] = "give_back" THEN 1 ELSE 0)

Base == Typed /\ Vectors /\ Held /\ Scanned

\* What LruAssumption says of the constants, as the proofs need it.
LEMMA Constants ==
    /\ MaxRefs \in Nat \ {0} /\ VecSize \in Nat \ {0} /\ None \notin Zones /\ Scanner \in Contexts
    /\ None \notin Tasks /\ None # Scanner /\ Scanner \notin Tasks
    /\ \A t \in Tasks : t \in Contexts /\ t # Scanner
BY LruAssumption DEF Contexts

\* A batch is a sequence of different pages that the task has references to.
LEMMA BatchParts ==
    ASSUME NEW t \in Tasks, NEW v \in Batches(t)
    PROVE  /\ v \in Seq(Pages) /\ IsInjective(v) /\ ToSet(v) \subseteq Pages /\ v # <<>>
           /\ \A p \in ToSet(v) : refs[t][p] > 0
<1>1. v \in BoundedSeq(Pages, VecSize) /\ IsInjective(v) /\ \A p \in ToSet(v) : refs[t][p] > 0
  BY DEF Batches
<1>2. PICK m \in 0..VecSize : v \in [1..m -> Pages]
  BY <1>1 DEF BoundedSeq, SeqOf
<1>3. m \in Nat
  BY <1>2, Constants
<1>4. v \in Seq(Pages)
  BY <1>2, <1>3, SeqDef
<1> QED
  BY <1>1, <1>4, SeqParts DEF Batches

LEMMA BaseInit == Init => Base
<1> SUFFICES ASSUME Init PROVE Base
  OBVIOUS
<1>1. TypedPages
  BY LruAssumption, EmptyParts DEF Init, TypedPages
<1>2. TypedTasks
  BY Constants, EmptyParts DEF Init, TypedTasks, Turns
<1>3. TypedScan
  BY Constants, EmptyParts DEF Init, TypedScan, Turns, NoScan
<1>4. TypedLocks
  BY Constants DEF Init, TypedLocks
<1>5. Vectors
  BY Constants, EmptyParts DEF Init, Vectors
<1>6. Held
  BY Constants DEF Init, Held
<1>7. Scanned
  <2>1. \A z \in Zones : scan.zone # z /\ lock[z] # Scanner
    BY Constants DEF Init, NoScan
  <2>2. pc[Scanner] = "idle" /\ scan.zone = None /\ hold = <<>> /\ Len(hold) = 0 /\ scan.taken = 0
    BY Constants, EmptyParts DEF Init, NoScan
  <2> QED
    BY <2>1, <2>2 DEF Scanned
<1> QED
  BY <1>1, <1>2, <1>3, <1>4, <1>5, <1>6, <1>7 DEF Base, Typed

(****************************************************************************)
(* What a step leaves alone.                                                *)
(****************************************************************************)
\* A task changes nothing that belongs to another or to the scan.
LEMMA TaskFrame ==
    ASSUME Base, NEW t \in Tasks, Call(t) \/ Continue(t)
    PROVE  /\ zoneOf' = zoneOf /\ hold' = hold /\ scan' = scan /\ lost' = lost
           /\ pc' = [pc EXCEPT ![t] = pc'[t]] /\ pc'[Scanner] = pc[Scanner]
           /\ \A u \in Tasks \ {t} :
                 /\ pc'[u] = pc[u] /\ vec'[u] = vec[u] /\ todo'[u] = todo[u] /\ kind'[u] = kind[u]
                 /\ toFree'[u] = toFree[u] /\ held'[u] = held[u]
                 /\ refs'[u] = refs[u] /\ fresh'[u] = fresh[u]
<1>1. pc \in [Contexts -> Turns \cup {"isolate", "give_back"}] /\ t \in Contexts /\ t # Scanner
      /\ Tasks \subseteq Contexts /\ Scanner \in Contexts
  BY Constants DEF Base, Typed, TypedScan
<1>2. /\ DOMAIN vec = Tasks /\ DOMAIN todo = Tasks /\ DOMAIN kind = Tasks /\ DOMAIN toFree = Tasks
      /\ DOMAIN held = Tasks /\ DOMAIN refs = Tasks /\ DOMAIN fresh = Tasks
  BY DEF Base, Typed, TypedTasks, TypedLocks
<1> DEFINE Same(u) ==
        /\ vec'[u] = vec[u] /\ todo'[u] = todo[u] /\ kind'[u] = kind[u]
        /\ toFree'[u] = toFree[u] /\ held'[u] = held[u]
        /\ refs'[u] = refs[u] /\ fresh'[u] = fresh[u]
<1>3. (\E label : Goto(t, label)) \/ pc' = pc
  <2>1. ASSUME NEW p \in Pages, GetFree(t, p) \/ GetRef(t, p) PROVE pc' = pc
    BY <2>1 DEF GetFree, GetRef
  <2>2. ASSUME NEW v \in Batches(t), ReleasePages(t, v) PROVE Goto(t, "put")
    BY <2>2 DEF ReleasePages
  <2>3. ASSUME NEW v \in Batches(t), NEW k \in {"active", "inactive"}, LruAdd(t, v, k)
        PROVE  Goto(t, "add")
    BY <2>3 DEF LruAdd
  <2>4. CASE LeaveZone(t) \/ EnterZone(t) \/ AddPage(t)
    BY <2>4 DEF LeaveZone, EnterZone, AddPage
  <2>5. CASE AddEnds(t) \/ Put(t) \/ Unlist(t)
    BY <2>5 DEF AddEnds, Put, Unlist
  <2>6. CASE FreeVec(t) \/ ReleaseEnds(t)
    BY <2>6 DEF FreeVec, ReleaseEnds
  <2> QED
    BY <2>1, <2>2, <2>3, <2>4, <2>5, <2>6 DEF Call, Continue
<1>4. pc' = [pc EXCEPT ![t] = pc'[t]]
  BY <1>1, <1>3 DEF Goto
<1>5. zoneOf' = zoneOf /\ hold' = hold /\ scan' = scan /\ lost' = lost
  BY DEF Call, Continue, GetFree, GetRef, ReleasePages, LruAdd, LeaveZone, EnterZone, AddPage,
         AddEnds, Put, Unlist, FreeVec, ReleaseEnds, scanVars
<1>6. ASSUME NEW u \in Tasks \ {t} PROVE Same(u)
  <2>1. ASSUME NEW p \in Pages, GetFree(t, p) \/ GetRef(t, p) PROVE Same(u)
    BY <1>2, <2>1 DEF GetFree, GetRef, batchVars
  <2>2. ASSUME NEW v \in Batches(t), ReleasePages(t, v) PROVE Same(u)
    BY <1>2, <2>2 DEF ReleasePages, Owed
  <2>3. ASSUME NEW v \in Batches(t), NEW k \in {"active", "inactive"}, LruAdd(t, v, k)
        PROVE  Same(u)
    BY <1>2, <2>3 DEF LruAdd, Owed
  <2>4. Unlocked(t) => held'[u] = held[u]
    BY <1>2 DEF Unlocked
  <2>5. CASE LeaveZone(t) \/ EnterZone(t)
    BY <1>2, <2>4, <2>5 DEF LeaveZone, EnterZone, userVars
  <2>6. CASE AddPage(t) \/ Put(t)
    BY <1>2, <2>6 DEF AddPage, Put, userVars
  <2>7. CASE AddEnds(t)
    BY <1>2, <2>4, <2>7 DEF AddEnds, userVars
  <2>8. CASE Unlist(t)
    <3>1. held'[u] = held[u]
      BY <2>4, <2>8 DEF Unlist
    <3>2. toFree'[u] = toFree[u] /\ vec'[u] = vec[u]
      BY <1>2, <2>8 DEF Unlist
    <3> QED
      BY <2>8, <3>1, <3>2 DEF Unlist, userVars
  <2>9. CASE FreeVec(t) \/ ReleaseEnds(t)
    BY <1>2, <2>4, <2>9 DEF FreeVec, ReleaseEnds, userVars
  <2> QED
    BY <2>1, <2>2, <2>3, <2>5, <2>6, <2>7, <2>8, <2>9 DEF Call, Continue
<1> QED
  BY <1>1, <1>4, <1>5, <1>6

(****************************************************************************)
(* Types, vectors and locks last.                                           *)
(****************************************************************************)
\* The page at the head of a vector, and the rest.
LEMMA HereParts ==
    ASSUME Base, NEW t \in Tasks, vec[t] # <<>>
    PROVE  /\ Here(t) \in Pages /\ zoneOf[Here(t)] \in Zones /\ Here(t) \in ToSet(vec[t])
           /\ Tail(vec[t]) \in Seq(Pages) /\ IsInjective(Tail(vec[t]))
           /\ ToSet(Tail(vec[t])) = ToSet(vec[t]) \ {Here(t)}
<1>1. vec[t] \in Seq(Pages) /\ IsInjective(vec[t]) /\ zoneOf \in [Pages -> Zones]
  BY DEF Base, Typed, TypedTasks, TypedPages, Vectors
<1> QED
  BY <1>1, TailParts DEF Here

\* A step of a task leaves the tasks' variables their types and their vectors in order.
LEMMA TasksStep ==
    ASSUME Base, NEW t \in Tasks, Call(t) \/ Continue(t)
    PROVE  /\ TypedTasks' /\ Vectors'
           /\ pc' \in [Contexts -> Turns \cup {"isolate", "give_back"}]
<1> DEFINE Fine ==
        /\ pc'[t] \in Turns /\ vec'[t] \in Seq(Pages) /\ todo'[t] \in Seq(Pages)
        /\ kind'[t] \in {"active", "inactive"} /\ toFree'[t] \in Seq(Pages)
        /\ refs'[t] \in [Pages -> 0..MaxRefs] /\ fresh'[t] \subseteq Pages
        /\ IsInjective(vec'[t]) /\ IsInjective(todo'[t])
        /\ pc'[t] = "idle" => vec'[t] = <<>>
        /\ pc'[t] = "add" => ToSet(vec'[t]) \subseteq ToSet(todo'[t])
        /\ pc'[t] = "unlist" => vec'[t] # <<>>
        /\ pc'[t] = "free" => toFree'[t] # <<>>
<1> DEFINE Whole ==
        /\ vec' = [vec EXCEPT ![t] = vec'[t]] /\ todo' = [todo EXCEPT ![t] = todo'[t]]
        /\ kind' = [kind EXCEPT ![t] = kind'[t]] /\ toFree' = [toFree EXCEPT ![t] = toFree'[t]]
        /\ refs' = [refs EXCEPT ![t] = refs'[t]] /\ fresh' = [fresh EXCEPT ![t] = fresh'[t]]
<1>0. /\ pc \in [Contexts -> Turns \cup {"isolate", "give_back"}] /\ t \in Contexts
      /\ pc[t] \in Turns /\ vec[t] \in Seq(Pages) /\ todo[t] \in Seq(Pages)
      /\ kind[t] \in {"active", "inactive"} /\ toFree[t] \in Seq(Pages)
      /\ refs[t] \in [Pages -> 0..MaxRefs] /\ fresh[t] \subseteq Pages
      /\ IsInjective(vec[t]) /\ IsInjective(todo[t])
      /\ pc[t] = "idle" => vec[t] = <<>>
      /\ pc[t] = "add" => ToSet(vec[t]) \subseteq ToSet(todo[t])
      /\ pc[t] = "unlist" => vec[t] # <<>>
      /\ pc[t] = "free" => toFree[t] # <<>>
  BY Constants DEF Base, Typed, TypedTasks, TypedScan, Vectors
<1>1. /\ vec \in [Tasks -> Seq(Pages)] /\ todo \in [Tasks -> Seq(Pages)]
      /\ kind \in [Tasks -> {"active", "inactive"}]
      /\ toFree \in [Tasks -> Seq(Pages)]
      /\ refs \in [Tasks -> [Pages -> 0..MaxRefs]]
      /\ fresh \in [Tasks -> SUBSET Pages]
  BY DEF Base, Typed, TypedTasks
<1>2. ASSUME NEW p \in Pages, GetFree(t, p) PROVE Fine /\ Whole
  <2>1. refs' = [refs EXCEPT ![t] = [refs[t] EXCEPT ![p] = 1]] /\ 1 \in 0..MaxRefs
    BY <1>2, Constants DEF GetFree
  <2>2. refs'[t] \in [Pages -> 0..MaxRefs] /\ refs' = [refs EXCEPT ![t] = refs'[t]]
    BY <1>0, <1>1, <2>1
  <2> QED
    BY <1>0, <1>1, <1>2, <2>2 DEF GetFree, batchVars
<1>3. ASSUME NEW p \in Pages, GetRef(t, p) PROVE Fine /\ Whole
  <2>1. refs[t][p] + 1 \in 0..MaxRefs
    BY <1>0, <1>3, Constants DEF GetRef
  <2>2. refs' = [refs EXCEPT ![t] = [refs[t] EXCEPT ![p] = refs[t][p] + 1]]
    BY <1>3 DEF GetRef
  <2>3. refs'[t] \in [Pages -> 0..MaxRefs] /\ refs' = [refs EXCEPT ![t] = refs'[t]]
    BY <1>0, <1>1, <2>1, <2>2
  <2> QED
    BY <1>0, <1>1, <1>3, <2>3 DEF GetRef, batchVars
<1>4. ASSUME NEW v \in Batches(t), refs' = Owed(t, v)
      PROVE  refs'[t] \in [Pages -> 0..MaxRefs] /\ refs' = [refs EXCEPT ![t] = refs'[t]]
  <2> DEFINE left == [p \in Pages |-> IF p \in ToSet(v) THEN refs[t][p] - 1 ELSE refs[t][p]]
  <2>1. refs' = [refs EXCEPT ![t] = left]
    BY <1>4 DEF Owed
  <2>2. ASSUME NEW p \in Pages PROVE left[p] \in 0..MaxRefs
    <3>1. refs[t][p] \in 0..MaxRefs
      BY <1>0
    <3>2. p \in ToSet(v) => refs[t][p] > 0
      BY BatchParts
    <3> QED
      BY <3>1, <3>2, Constants
  <2>3. left \in [Pages -> 0..MaxRefs]
    BY <2>2
  <2> HIDE DEF left
  <2> QED
    BY <1>1, <2>1, <2>3
<1>5. ASSUME NEW v \in Batches(t), NEW k \in {"active", "inactive"}, LruAdd(t, v, k)
      PROVE  Fine /\ Whole
  <2>1. v \in Seq(Pages) /\ IsInjective(v) /\ v # <<>>
    BY BatchParts
  <2>2. refs'[t] \in [Pages -> 0..MaxRefs] /\ refs' = [refs EXCEPT ![t] = refs'[t]]
    BY <1>4, <1>5 DEF LruAdd
  <2> QED
    BY <1>0, <1>1, <1>5, <2>1, <2>2 DEF LruAdd, Goto, Turns
<1>6. ASSUME NEW v \in Batches(t), ReleasePages(t, v) PROVE Fine /\ Whole
  <2>1. v \in Seq(Pages) /\ IsInjective(v) /\ v # <<>>
    BY BatchParts
  <2>2. refs'[t] \in [Pages -> 0..MaxRefs] /\ refs' = [refs EXCEPT ![t] = refs'[t]]
    BY <1>4, <1>6 DEF ReleasePages
  <2> QED
    BY <1>0, <1>1, <1>6, <2>1, <2>2 DEF ReleasePages, Goto, Turns
<1>7. ASSUME LeaveZone(t) \/ EnterZone(t) PROVE Fine /\ Whole
  BY <1>0, <1>1, <1>7 DEF LeaveZone, EnterZone, userVars
<1>8. ASSUME AddPage(t) PROVE Fine /\ Whole
  BY <1>0, <1>1, <1>8, HereParts DEF AddPage, userVars
<1>9. ASSUME AddEnds(t) PROVE Fine /\ Whole
  BY <1>0, <1>1, <1>9, EmptyParts DEF AddEnds, userVars, Goto, Turns
<1>10. ASSUME Put(t) PROVE Fine /\ Whole
  BY <1>0, <1>1, <1>10, HereParts DEF Put, userVars, Goto, Turns
<1>11. ASSUME Unlist(t) PROVE Fine /\ Whole
  <2>1. vec[t] # <<>> /\ pc[t] = "unlist"
    BY <1>0, <1>11 DEF Unlist
  <2>2. Append(toFree[t], Here(t)) \in Seq(Pages)
    BY <1>0, <2>1, HereParts, Appended
  <2>3. toFree'[t] \in Seq(Pages) /\ toFree' = [toFree EXCEPT ![t] = toFree'[t]]
    BY <1>0, <1>1, <1>11, <2>2 DEF Unlist
  <2>4. \/ pc'[t] = "put"
        \/ /\ pc'[t] = "free"
           /\ Len(toFree'[t]) = VecSize
    BY <1>0, <1>11 DEF Unlist, Goto
  <2>5. Len(toFree'[t]) = VecSize => toFree'[t] # <<>>
    BY EmptyParts, Constants
  <2>6. vec'[t] = Tail(vec[t]) /\ vec' = [vec EXCEPT ![t] = vec'[t]]
    BY <1>0, <1>1, <1>11 DEF Unlist
  <2>7. todo' = todo /\ kind' = kind /\ refs' = refs /\ fresh' = fresh
    BY <1>11 DEF Unlist, userVars
  <2> QED
    BY <1>0, <1>1, <2>1, <2>3, <2>4, <2>5, <2>6, <2>7, HereParts DEF Turns
<1>12. ASSUME FreeVec(t) PROVE Fine /\ Whole
  <2>1. toFree[t] # <<>> /\ pc[t] = "free"
    BY <1>0, <1>12 DEF FreeVec
  <2>2. Front(toFree[t]) \in Seq(Pages) /\ Len(Front(toFree[t])) = Len(toFree[t]) - 1
    BY <1>0, <2>1, FrontParts
  <2>3. Len(toFree[t]) # 1 => Front(toFree[t]) # <<>>
    <3>1. Len(toFree[t]) \in Nat
      BY <1>0, SeqParts
    <3>2. Len(toFree[t]) # 1 => Len(Front(toFree[t])) # 0
      BY <2>2, <3>1
    <3> QED
      BY <3>2, EmptyParts
  <2> QED
    BY <1>0, <1>1, <1>12, <2>1, <2>2, <2>3 DEF FreeVec, userVars, Goto, Turns
<1>13. ASSUME ReleaseEnds(t) PROVE Fine /\ Whole
  BY <1>0, <1>1, <1>13 DEF ReleaseEnds, userVars, Goto, Turns
<1>14. Fine /\ Whole
  BY <1>2, <1>3, <1>5, <1>6, <1>7, <1>8, <1>9, <1>10, <1>11, <1>12, <1>13 DEF Call, Continue
<1>15. /\ vec' \in [Tasks -> Seq(Pages)] /\ todo' \in [Tasks -> Seq(Pages)]
       /\ kind' \in [Tasks -> {"active", "inactive"}]
       /\ toFree' \in [Tasks -> Seq(Pages)]
       /\ refs' \in [Tasks -> [Pages -> 0..MaxRefs]]
       /\ fresh' \in [Tasks -> SUBSET Pages]
  BY <1>1, <1>14
<1>16. TypedTasks'
  <2>1. ASSUME NEW u \in Tasks PROVE pc'[u] \in Turns
    <3>1. pc[u] \in Turns
      BY DEF Base, Typed, TypedTasks
    <3> QED
      BY <1>14, <3>1, TaskFrame
  <2> QED
    BY <1>15, <2>1 DEF TypedTasks
<1>17. Vectors'
  <2>1. ASSUME NEW u \in Tasks
        PROVE  /\ IsInjective(vec'[u]) /\ IsInjective(todo'[u])
               /\ pc'[u] = "idle" => vec'[u] = <<>>
               /\ pc'[u] = "add" => ToSet(vec'[u]) \subseteq ToSet(todo'[u])
               /\ pc'[u] = "unlist" => vec'[u] # <<>>
               /\ pc'[u] = "free" => toFree'[u] # <<>>
    <3>1. CASE u = t
      BY <1>14, <3>1
    <3>2. CASE u # t
      <4>1. /\ pc'[u] = pc[u] /\ vec'[u] = vec[u] /\ todo'[u] = todo[u] /\ toFree'[u] = toFree[u]
        BY <3>2, TaskFrame
      <4> QED
        BY <4>1 DEF Base, Vectors
    <3> QED
      BY <3>1, <3>2
  <2> QED
    BY <2>1 DEF Vectors
<1>18. pc' \in [Contexts -> Turns \cup {"isolate", "give_back"}]
  <2>1. pc' = [pc EXCEPT ![t] = pc'[t]] /\ pc'[t] \in Turns
    BY <1>14, TaskFrame
  <2> QED
    BY <1>0, <2>1
<1> QED
  BY <1>16, <1>17, <1>18

\* A step of a task leaves the pages' and the lists' variables their types.
LEMMA PagesStep ==
    ASSUME Base, NEW t \in Tasks, Call(t) \/ Continue(t)
    PROVE  TypedPages'
<1>0. TypedPages
  BY DEF Base, Typed
<1>1. ASSUME NEW p \in Pages, GetFree(t, p) \/ GetRef(t, p) PROVE TypedPages'
  BY <1>0, <1>1 DEF GetFree, GetRef, listVars, TypedPages
<1>2. ASSUME NEW v \in Batches(t), ReleasePages(t, v) PROVE TypedPages'
  BY <1>0, <1>2 DEF ReleasePages, pageVars, listVars, TypedPages
<1>3. ASSUME NEW v \in Batches(t), NEW k \in {"active", "inactive"}, LruAdd(t, v, k)
      PROVE  TypedPages'
  BY <1>0, <1>3 DEF LruAdd, pageVars, listVars, TypedPages
<1>4. ASSUME LeaveZone(t) \/ EnterZone(t) \/ AddEnds(t) \/ ReleaseEnds(t) PROVE TypedPages'
  BY <1>0, <1>4 DEF LeaveZone, EnterZone, AddEnds, ReleaseEnds, pageVars, listVars, TypedPages
<1>5. ASSUME AddPage(t) PROVE TypedPages'
  <2>1. Here(t) \in Pages
    BY <1>5, HereParts DEF AddPage
  <2>2. \A z \in Zones : /\ <<Here(t)>> \o activeList[z] \in Seq(Pages)
                         /\ <<Here(t)>> \o inactiveList[z] \in Seq(Pages)
    BY <1>0, <2>1, Pushed DEF TypedPages
  <2>3. lruFlag' \subseteq Pages /\ activeFlag' \subseteq Pages
    BY <1>0, <1>5, <2>1 DEF AddPage, TypedPages
  <2>4. nrActive' \in [Zones -> Int] /\ nrInactive' \in [Zones -> Int]
    BY <1>0, <1>5 DEF AddPage, TypedPages
  <2>5. activeList' \in [Zones -> Seq(Pages)] /\ inactiveList' \in [Zones -> Seq(Pages)]
    <3>1. PICK z : z = zoneOf[Here(t)]
      OBVIOUS
    <3>2. z \in Zones
      BY <1>5, <3>1, HereParts DEF AddPage
    <3>3. PICK a \in Seq(Pages) : a = <<Here(t)>> \o activeList[z]
      BY <2>2, <3>2
    <3>4. PICK i \in Seq(Pages) : i = <<Here(t)>> \o inactiveList[z]
      BY <2>2, <3>2
    <3>5. /\ activeList' = activeList \/ activeList' = [activeList EXCEPT ![z] = a]
          /\ inactiveList' = inactiveList \/ inactiveList' = [inactiveList EXCEPT ![z] = i]
      BY <1>5, <3>1, <3>3, <3>4 DEF AddPage
    <3>6. activeList \in [Zones -> Seq(Pages)] /\ inactiveList \in [Zones -> Seq(Pages)]
      BY <1>0 DEF TypedPages
    <3>7. activeList' \in [Zones -> Seq(Pages)]
      BY <3>2, <3>3, <3>5, <3>6
    <3>8. inactiveList' \in [Zones -> Seq(Pages)]
      BY <3>2, <3>4, <3>5, <3>6
    <3> QED
      BY <3>7, <3>8
  <2>6. zoneOf' = zoneOf /\ count' = count /\ free' = free
    BY <1>5 DEF AddPage
  <2> QED
    BY <1>0, <2>3, <2>4, <2>5, <2>6 DEF TypedPages
<1>6. ASSUME Put(t) PROVE TypedPages'
  <2>1. Here(t) \in Pages /\ count[Here(t)] - 1 \in Int
    BY <1>0, <1>6, HereParts DEF Put, TypedPages
  <2>2. count' \in [Pages -> Int]
    BY <1>0, <1>6, <2>1 DEF Put, TypedPages
  <2> QED
    BY <1>0, <1>6, <2>2 DEF Put, listVars, TypedPages
<1>7. ASSUME Unlist(t) PROVE TypedPages'
  <2>1. CASE Here(t) \notin lruFlag
    BY <1>0, <1>7, <2>1 DEF Unlist, listVars, TypedPages
  <2>2. CASE Here(t) \in lruFlag
    <3>1. TakenOff(Here(t)) /\ zoneOf' = zoneOf /\ count' = count /\ free' = free
      BY <1>7, <2>2 DEF Unlist
    <3>2. /\ lruFlag' \subseteq Pages /\ activeFlag' \subseteq Pages
          /\ nrActive' \in [Zones -> Int] /\ nrInactive' \in [Zones -> Int]
      BY <1>0, <3>1 DEF TakenOff, TypedPages
    <3>3. \A z \in Zones : /\ Without(activeList[z], Here(t)) \in Seq(Pages)
                           /\ Without(inactiveList[z], Here(t)) \in Seq(Pages)
      BY <1>0, WithoutType DEF TypedPages
    <3>4. activeList' \in [Zones -> Seq(Pages)] /\ inactiveList' \in [Zones -> Seq(Pages)]
      BY <1>0, <3>1, <3>3 DEF TakenOff, TypedPages
    <3> QED
      BY <1>0, <3>1, <3>2, <3>4 DEF TypedPages
  <2> QED
    BY <2>1, <2>2
<1>8. ASSUME FreeVec(t) PROVE TypedPages'
  <2>1. toFree[t] \in Seq(Pages) /\ toFree[t] # <<>>
    BY <1>8 DEF FreeVec, Base, Typed, TypedTasks, Vectors
  <2>2. Last(toFree[t]) \in Pages
    BY <2>1, FrontParts
  <2> QED
    BY <1>0, <1>8, <2>2 DEF FreeVec, pageVars, listVars, TypedPages
<1> QED
  BY <1>1, <1>2, <1>3, <1>4, <1>5, <1>6, <1>7, <1>8 DEF Call, Continue

\* The lock is given back.
LEMMA UnlockedHeld ==
    ASSUME Base, NEW t \in Tasks, Unlocked(t)
    PROVE  TypedLocks' /\ Held' /\ \A z \in Zones : lock'[z] = Scanner <=> lock[z] = Scanner
<1>1. held[t] \in Zones \cup {None} /\ held \in [Tasks -> Zones \cup {None}]
      /\ lock \in [Zones -> Contexts \cup {None}]
  BY DEF Base, Typed, TypedLocks
<1>2. /\ \A z \in Zones : lock'[z] = IF z = held[t] THEN None ELSE lock[z]
      /\ held' = [held EXCEPT ![t] = None] /\ lock' \in [Zones -> Contexts \cup {None}]
  BY <1>1 DEF Unlocked
<1>3. ASSUME NEW u \in Tasks, NEW z \in Zones PROVE held'[u] = z <=> lock'[z] = u
  <2>1. held[u] = z <=> lock[z] = u
    BY DEF Base, Held
  <2>2. held[t] = z <=> lock[z] = t
    BY DEF Base, Held
  <2> QED
    BY <1>1, <1>2, <2>1, <2>2, Constants
<1>4. ASSUME NEW z \in Zones PROVE lock'[z] = Scanner <=> lock[z] = Scanner
  <2>1. held[t] = z <=> lock[z] = t
    BY DEF Base, Held
  <2> QED
    BY <1>2, <2>1, Constants
<1> QED
  BY <1>1, <1>2, <1>3, <1>4 DEF TypedLocks, Held

\* A step of a task leaves the locks with those who have them, the scan's with the scan.
LEMMA LocksStep ==
    ASSUME Base, NEW t \in Tasks, Call(t) \/ Continue(t)
    PROVE  TypedLocks' /\ Held' /\ \A z \in Zones : lock'[z] = Scanner <=> lock[z] = Scanner
<1> DEFINE Goal == TypedLocks' /\ Held' /\ \A z \in Zones : lock'[z] = Scanner <=> lock[z] = Scanner
<1>0. TypedLocks /\ Held
  BY DEF Base, Typed
<1>1. UNCHANGED <<lock, held>> => Goal
  BY <1>0 DEF TypedLocks, Held
<1>2. ASSUME NEW p \in Pages, GetFree(t, p) \/ GetRef(t, p) PROVE UNCHANGED <<lock, held>>
  BY <1>2 DEF GetFree, GetRef, batchVars
<1>3. ASSUME NEW v \in Batches(t), ReleasePages(t, v) PROVE UNCHANGED <<lock, held>>
  BY <1>3 DEF ReleasePages
<1>4. ASSUME NEW v \in Batches(t), NEW k \in {"active", "inactive"}, LruAdd(t, v, k)
      PROVE  UNCHANGED <<lock, held>>
  BY <1>4 DEF LruAdd
<1>5. ASSUME AddPage(t) \/ Put(t) \/ FreeVec(t) PROVE UNCHANGED <<lock, held>>
  BY <1>5 DEF AddPage, Put, FreeVec
<1>6. ASSUME LeaveZone(t) \/ AddEnds(t) \/ Unlist(t) \/ ReleaseEnds(t)
      PROVE  Unlocked(t) \/ UNCHANGED <<lock, held>>
  BY <1>6 DEF LeaveZone, AddEnds, Unlist, ReleaseEnds
<1>7. ASSUME EnterZone(t) PROVE Goal
  <2>1. PICK z \in Zones : z = zoneOf[Here(t)]
    BY <1>7, HereParts DEF EnterZone
  <2>2. held[t] = None /\ lock[z] = None /\ lock' = [lock EXCEPT ![z] = t]
        /\ held' = [held EXCEPT ![t] = z]
    BY <1>7, <2>1 DEF EnterZone
  <2>3. TypedLocks'
    BY <1>0, <2>2, Constants DEF TypedLocks
  <2>4. ASSUME NEW u \in Tasks, NEW y \in Zones PROVE held'[u] = y <=> lock'[y] = u
    <3>1. /\ held[u] = y <=> lock[y] = u
          /\ held[u] = z <=> lock[z] = u
      BY <1>0 DEF Held
    <3> QED
      BY <1>0, <2>2, <3>1, Constants DEF TypedLocks
  <2>5. \A y \in Zones : lock'[y] = Scanner <=> lock[y] = Scanner
    BY <1>0, <2>2, Constants DEF TypedLocks
  <2> QED
    BY <2>3, <2>4, <2>5 DEF Held
<1> HIDE DEF Goal
<1>8. Unlocked(t) => Goal
  BY UnlockedHeld DEF Goal
<1>9. Goal
  BY <1>1, <1>2, <1>3, <1>4, <1>5, <1>6, <1>7, <1>8 DEF Call, Continue
<1> QED
  BY <1>9 DEF Goal

LEMMA BaseTask ==
    ASSUME Base, NEW t \in Tasks, Call(t) \/ Continue(t)
    PROVE  Base'
<1>1. hold' = hold /\ scan' = scan /\ lost' = lost /\ pc'[Scanner] = pc[Scanner]
  BY TaskFrame
<1>2. TypedScan'
  BY <1>1, TasksStep DEF Base, Typed, TypedScan
<1>3. Scanned'
  BY <1>1, LocksStep DEF Base, Scanned
<1> QED
  BY <1>2, <1>3, TasksStep, PagesStep, LocksStep DEF Base, Typed

(****************************************************************************)
(* The same of the scan.                                                    *)
(****************************************************************************)
ScanSteps == (\E z \in Zones : ScanLock(z)) \/ ScanGoesOn

\* A step of the scan changes nothing that belongs to a task.
LEMMA ScanFrame ==
    ASSUME Base, ScanSteps
    PROVE  /\ UNCHANGED <<zoneOf, activeFlag, inactiveList, nrInactive, free, batchVars, userVars>>
           /\ \A t \in Tasks : pc'[t] = pc[t]
           /\ pc' = [pc EXCEPT ![Scanner] = pc'[Scanner]]
<1>1. pc \in [Contexts -> Turns \cup {"isolate", "give_back"}] /\ Scanner \in Contexts
      /\ \A t \in Tasks : t \in Contexts /\ t # Scanner
  BY Constants DEF Base, Typed, TypedScan
<1>2. pc' = pc \/ \E label : Goto(Scanner, label)
  BY DEF ScanSteps, ScanGoesOn, ScanLock, Isolate, GiveBack, IsolateEnds
<1>3. UNCHANGED <<zoneOf, activeFlag, inactiveList, nrInactive, free, batchVars, userVars>>
  BY DEF ScanSteps, ScanGoesOn, ScanLock, Isolate, GiveBack, IsolateEnds, pageVars, listVars
<1> QED
  BY <1>1, <1>2, <1>3 DEF Goto

\* Where the scan has a lock, it is a zone's and that zone's list is a list of pages.
LEMMA ScanParts ==
    ASSUME Base, pc[Scanner] # "idle"
    PROVE  scan.zone \in Zones /\ activeList[scan.zone] \in Seq(Pages) /\ lock[scan.zone] = Scanner
BY DEF Base, Typed, TypedScan, TypedPages, Scanned

LEMMA BaseScan ==
    ASSUME Base, ScanSteps
    PROVE  Base'
<1> DEFINE Fine ==
        /\ pc'[Scanner] \in {"idle", "isolate", "give_back"}
        /\ count' \in [Pages -> Int] /\ lruFlag' \subseteq Pages
        /\ activeList' \in [Zones -> Seq(Pages)] /\ nrActive' \in [Zones -> Int]
        /\ lock' \in [Zones -> Contexts \cup {None}]
        /\ hold' \in Seq(Pages) /\ lost' \subseteq Pages
        /\ scan' \in [zone : Zones \cup {None}, seen : Nat, taken : Nat]
<1> DEFINE Locked ==
        /\ \A t \in Tasks, z \in Zones : lock'[z] = t <=> lock[z] = t
        /\ Scanned'
<1>0. /\ zoneOf \in [Pages -> Zones] /\ count \in [Pages -> Int]
      /\ lruFlag \subseteq Pages /\ lost \subseteq Pages /\ hold \in Seq(Pages)
      /\ activeList \in [Zones -> Seq(Pages)] /\ nrActive \in [Zones -> Int]
      /\ lock \in [Zones -> Contexts \cup {None}]
      /\ scan \in [zone : Zones \cup {None}, seen : Nat, taken : Nat]
      /\ pc \in [Contexts -> Turns \cup {"isolate", "give_back"}] /\ Scanner \in Contexts
  BY Constants DEF Base, Typed, TypedPages, TypedLocks, TypedScan
<1>1. /\ \A z \in Zones : scan.zone = z <=> lock[z] = Scanner
      /\ pc[Scanner] = "idle" <=> scan.zone = None
      /\ pc[Scanner] = "idle" => hold = <<>>
      /\ Len(hold) = scan.taken + (IF pc[Scanner] = "give_back" THEN 1 ELSE 0)
  BY DEF Base, Scanned
<1>2. ASSUME NEW z \in Zones, ScanLock(z) PROVE Fine /\ Locked
  <2>1. /\ pc[Scanner] = "idle" /\ lock[z] = None /\ lock' = [lock EXCEPT ![z] = Scanner]
        /\ scan' = [zone |-> z, seen |-> 0, taken |-> 0] /\ pc'[Scanner] = "isolate"
    BY <1>0, <1>2 DEF ScanLock, Goto
  <2>2. UNCHANGED <<count, lruFlag, activeList, nrActive, hold, lost>>
    BY <1>2 DEF ScanLock, pageVars, listVars
  <2>3. Fine
    BY <1>0, <2>1, <2>2
  <2>4. \A y \in Zones : lock[y] # Scanner
    BY <1>1, <2>1, Constants
  <2>5. Scanned'
    <3>1. scan'.zone = z /\ scan'.taken = 0 /\ hold = <<>> /\ Len(hold) = 0
      BY <1>1, <2>1, EmptyParts
    <3>2. \A y \in Zones : scan'.zone = y <=> lock'[y] = Scanner
      BY <1>0, <2>1, <2>4, <3>1, Constants
    <3> QED
      BY <2>1, <2>2, <3>1, <3>2, Constants DEF Scanned
  <2>6. \A t \in Tasks, y \in Zones : lock'[y] = t <=> lock[y] = t
    BY <1>0, <2>1, Constants
  <2> QED
    BY <2>3, <2>5, <2>6
<1>3. ASSUME Isolate PROVE Fine /\ Locked
  <2>1. /\ pc[Scanner] = "isolate" /\ activeList[scan.zone] # <<>> /\ lock' = lock /\ lost' = lost
        /\ nrActive' = nrActive /\ hold' = <<Oldest>> \o hold
        /\ activeList' = [activeList EXCEPT ![scan.zone] = Front(activeList[scan.zone])]
        /\ lruFlag' = lruFlag \ {Oldest} /\ count' = [count EXCEPT ![Oldest] = count[Oldest] + 1]
    BY <1>3 DEF Isolate, ScanAgain
  <2>2. scan.zone \in Zones /\ activeList[scan.zone] \in Seq(Pages)
    BY <2>1, ScanParts
  <2>3. /\ Oldest \in Pages /\ Front(activeList[scan.zone]) \in Seq(Pages)
        /\ <<Oldest>> \o hold \in Seq(Pages) /\ Len(<<Oldest>> \o hold) = Len(hold) + 1
    BY <1>0, <2>1, <2>2, FrontParts, Pushed DEF Oldest
  <2>4. \/ /\ pc'[Scanner] = "give_back"
           /\ scan' = [scan EXCEPT !.seen = scan.seen + 1]
        \/ /\ pc' = pc
           /\ scan' = [scan EXCEPT !.seen = scan.seen + 1, !.taken = scan.taken + 1]
    BY <1>0, <1>3 DEF Isolate, Goto
  <2>5. /\ scan' \in [zone : Zones \cup {None}, seen : Nat, taken : Nat] /\ scan'.zone = scan.zone
        /\ pc'[Scanner] \in {"isolate", "give_back"}
        /\ Len(hold) + 1 = scan'.taken + (IF pc'[Scanner] = "give_back" THEN 1 ELSE 0)
    <3>1. Len(hold) = scan.taken /\ scan.seen \in Nat /\ scan.taken \in Nat
      BY <1>0, <1>1, <2>1
    <3>2. PICK k \in Nat : k = scan.seen + 1
      BY <3>1
    <3>3. PICK n \in Nat : n = scan.taken + 1
      BY <3>1
    <3>4. \/ /\ pc'[Scanner] = "give_back"
             /\ scan' = [zone |-> scan.zone, seen |-> k, taken |-> scan.taken]
          \/ /\ pc' = pc
             /\ scan' = [zone |-> scan.zone, seen |-> k, taken |-> n]
      BY <1>0, <2>4, <3>2, <3>3
    <3> QED
      BY <1>0, <2>1, <3>1, <3>3, <3>4
  <2>6. Fine
    <3>1. activeList' \in [Zones -> Seq(Pages)] /\ hold' \in Seq(Pages)
      BY <1>0, <2>1, <2>2, <2>3
    <3>2. lruFlag' \subseteq Pages
      BY <1>0, <2>1, <2>3
    <3>3. count' \in [Pages -> Int]
      <4>1. count \in [Pages -> Int]
        BY <1>0
      <4>2. PICK k \in Int : k = count[Oldest] + 1
        BY <4>1, <2>3
      <4>3. count' = [count EXCEPT ![Oldest] = k]
        BY <2>1, <4>2
      <4> QED
        BY <4>1, <4>3
    <3> QED
      BY <1>0, <2>1, <2>5, <3>1, <3>2, <3>3
  <2>7. Scanned'
    BY <1>1, <2>1, <2>3, <2>5 DEF Scanned
  <2> QED
    BY <2>1, <2>6, <2>7
<1>4. ASSUME GiveBack PROVE Fine /\ Locked
  <2>1. /\ pc[Scanner] = "give_back" /\ lock' = lock /\ lost' = lost /\ scan' = scan
        /\ nrActive' = nrActive /\ hold' = Tail(hold) /\ pc'[Scanner] = "isolate"
        /\ activeList' = [activeList EXCEPT ![scan.zone] = <<Head(hold)>> \o activeList[scan.zone]]
        /\ lruFlag' = lruFlag \cup {Head(hold)}
        /\ count' = [count EXCEPT ![Head(hold)] = count[Head(hold)] - 1]
    BY <1>0, <1>4 DEF GiveBack, Goto
  <2>2. scan.zone \in Zones /\ activeList[scan.zone] \in Seq(Pages)
    BY <2>1, ScanParts
  <2>3. hold # <<>>
    BY <1>0, <1>1, <2>1, EmptyParts
  <2>4. /\ Head(hold) \in Pages /\ Tail(hold) \in Seq(Pages) /\ Len(Tail(hold)) = Len(hold) - 1
        /\ <<Head(hold)>> \o activeList[scan.zone] \in Seq(Pages)
    BY <1>0, <2>2, <2>3, TailParts, Pushed
  <2>5. Fine
    <3>1. activeList' \in [Zones -> Seq(Pages)] /\ hold' \in Seq(Pages)
      BY <1>0, <2>1, <2>2, <2>4
    <3>2. count' \in [Pages -> Int] /\ lruFlag' \subseteq Pages
      BY <1>0, <2>1, <2>4
    <3> QED
      BY <1>0, <2>1, <3>1, <3>2
  <2>6. Scanned'
    BY <1>0, <1>1, <2>1, <2>4 DEF Scanned
  <2> QED
    BY <2>1, <2>5, <2>6
<1>5. ASSUME IsolateEnds PROVE Fine /\ Locked
  <2>1. /\ pc[Scanner] = "isolate" /\ lock' = [lock EXCEPT ![scan.zone] = None]
        /\ nrActive' = [nrActive EXCEPT ![scan.zone] = nrActive[scan.zone] - scan.taken]
        /\ lost' = lost \cup ToSet(hold) /\ hold' = <<>> /\ scan' = NoScan /\ pc'[Scanner] = "idle"
        /\ UNCHANGED <<count, lruFlag, activeList>>
    BY <1>0, <1>5 DEF IsolateEnds, Goto, pageVars
  <2>2. scan.zone \in Zones /\ lock[scan.zone] = Scanner /\ ToSet(hold) \subseteq Pages
    BY <1>0, <2>1, ScanParts, SeqParts
  <2>3. scan' = [zone |-> None, seen |-> 0, taken |-> 0]
    BY <2>1 DEF NoScan
  <2>4. Fine
    BY <1>0, <2>1, <2>2, <2>3, EmptyParts
  <2>5. Scanned'
    BY <1>0, <1>1, <2>1, <2>2, <2>3, Constants, EmptyParts DEF Scanned
  <2>6. \A t \in Tasks, y \in Zones : lock'[y] = t <=> lock[y] = t
    BY <1>0, <2>1, <2>2, Constants
  <2> QED
    BY <2>4, <2>5, <2>6
<1>6. Fine /\ Locked
  BY <1>2, <1>3, <1>4, <1>5 DEF ScanSteps, ScanGoesOn
<1>7. /\ UNCHANGED <<zoneOf, activeFlag, inactiveList, nrInactive, free, batchVars, userVars>>
      /\ \A t \in Tasks : pc'[t] = pc[t]
      /\ pc' = [pc EXCEPT ![Scanner] = pc'[Scanner]]
  BY ScanFrame
<1>8. TypedPages'
  BY <1>6, <1>7 DEF Base, Typed, TypedPages
<1>9. TypedTasks' /\ Vectors'
  BY <1>7 DEF Base, Typed, TypedTasks, Vectors, batchVars, userVars
<1>10. TypedScan'
  <2>1. /\ pc'[Scanner] \in {"idle", "isolate", "give_back"} /\ hold' \in Seq(Pages)
        /\ lost' \subseteq Pages
        /\ scan' \in [zone : Zones \cup {None}, seen : Nat, taken : Nat]
    BY <1>6
  <2>2. pc' \in [Contexts -> Turns \cup {"isolate", "give_back"}]
    <3>1. pc'[Scanner] \in Turns \cup {"isolate", "give_back"}
      BY <2>1 DEF Turns
    <3> QED
      BY <1>0, <1>7, <3>1
  <2> QED
    BY <2>1, <2>2 DEF TypedScan
<1>11. TypedLocks' /\ Held'
  BY <1>6, <1>7 DEF Base, Typed, TypedLocks, Held, batchVars
<1> QED
  BY <1>6, <1>8, <1>9, <1>10, <1>11 DEF Base, Typed

LEMMA BaseStep == Base /\ [Next]_vars => Base'
<1>1. Base /\ UNCHANGED vars => Base'
  <2> SUFFICES ASSUME Base, UNCHANGED vars PROVE Base'
    OBVIOUS
  <2>1. TypedPages' /\ TypedTasks'
    BY DEF vars, Base, Typed, TypedPages, TypedTasks
  <2>2. TypedScan' /\ TypedLocks'
    BY DEF vars, Base, Typed, TypedScan, TypedLocks
  <2>3. Vectors' /\ Held' /\ Scanned'
    BY DEF vars, Base, Vectors, Held, Scanned
  <2> QED
    BY <2>1, <2>2, <2>3 DEF Base, Typed
<1> QED
  BY <1>1, BaseTask, BaseScan DEF Next, ScanSteps

(****************************************************************************)
(* The lists.                                                               *)
(****************************************************************************)
\* The lists hold the flagged pages of their zone; a count is ahead of its list by what the
\* scan has in its hands.
ListedAt(z) ==
        /\ IsInjective(activeList[z]) /\ IsInjective(inactiveList[z])
        /\ nrActive[z] = Len(activeList[z]) + (IF scan.zone = z THEN Len(hold) ELSE 0)
        /\ nrInactive[z] = Len(inactiveList[z])
        /\ \A p \in Pages :
              /\ p \in ToSet(activeList[z]) <=> p \in lruFlag /\ p \in activeFlag /\ zoneOf[p] = z
              /\ p \in ToSet(inactiveList[z]) <=> p \in lruFlag /\ p \notin activeFlag /\ zoneOf[p] = z

Listed == \A z \in Zones : ListedAt(z)

\* The pages that are active and on no list are those that scans have taken.
Taken ==
    /\ IsInjective(hold)
    /\ \A p \in Pages :
          /\ (p \in lost \/ p \in ToSet(hold)) <=> (p \in activeFlag /\ p \notin lruFlag)
          /\ p \in ToSet(hold) => p \notin lost /\ zoneOf[p] = scan.zone

OnLists == Listed /\ Taken

LEMMA ListsInit == Init => OnLists
<1> SUFFICES ASSUME Init PROVE OnLists
  OBVIOUS
<1>1. /\ \A z \in Zones : /\ activeList[z] = <<>> /\ inactiveList[z] = <<>>
                         /\ nrActive[z] = 0 /\ nrInactive[z] = 0
      /\ hold = <<>> /\ lruFlag = {} /\ activeFlag = {} /\ lost = {}
  BY DEF Init
<1>2. Listed
  BY <1>1, EmptyParts DEF Listed, ListedAt
<1>3. Taken
  BY <1>1, EmptyParts DEF Taken
<1> QED
  BY <1>2, <1>3 DEF OnLists

\* Whatever does not touch the lists leaves them right.
LEMMA ListsSame ==
    ASSUME OnLists, UNCHANGED <<zoneOf, lruFlag, activeFlag, listVars, scanVars>>
    PROVE  OnLists'
<1>1. Listed'
  BY DEF OnLists, Listed, ListedAt, listVars, scanVars
<1>2. Taken'
  BY DEF OnLists, Taken, scanVars
<1> QED
  BY <1>1, <1>2 DEF OnLists

\* One zone's lists change: those of the others still hold their pages.
Elsewhere(z, p) ==
    /\ zoneOf' = zoneOf /\ zoneOf[p] = z
    /\ \A q \in Pages \ {p} : (q \in lruFlag' <=> q \in lruFlag) /\ (q \in activeFlag' <=> q \in activeFlag)
    /\ \A y \in Zones \ {z} : /\ activeList'[y] = activeList[y] /\ inactiveList'[y] = inactiveList[y]
                              /\ nrActive'[y] = nrActive[y] /\ nrInactive'[y] = nrInactive[y]
    /\ UNCHANGED <<scan, hold>> \/ (scan.zone = z /\ scan'.zone = z)

LEMMA ListsElsewhere ==
    ASSUME Listed, NEW z \in Zones, NEW p \in Pages, Elsewhere(z, p), ListedAt(z)'
    PROVE  Listed'
<1>1. ASSUME NEW y \in Zones \ {z} PROVE ListedAt(y)'
  <2>1. /\ IsInjective(activeList[y]) /\ IsInjective(inactiveList[y])
        /\ nrActive[y] = Len(activeList[y]) + (IF scan.zone = y THEN Len(hold) ELSE 0)
        /\ nrInactive[y] = Len(inactiveList[y])
    BY DEF Listed, ListedAt
  <2>2. \A q \in Pages :
           /\ q \in ToSet(activeList[y]) <=> q \in lruFlag /\ q \in activeFlag /\ zoneOf[q] = y
           /\ q \in ToSet(inactiveList[y]) <=> q \in lruFlag /\ q \notin activeFlag /\ zoneOf[q] = y
    BY DEF Listed, ListedAt
  <2>3. /\ activeList'[y] = activeList[y] /\ inactiveList'[y] = inactiveList[y]
        /\ nrActive'[y] = nrActive[y] /\ nrInactive'[y] = nrInactive[y]
    BY DEF Elsewhere
  <2>4. (IF scan'.zone = y THEN Len(hold') ELSE 0) = (IF scan.zone = y THEN Len(hold) ELSE 0)
    BY DEF Elsewhere
  <2>5. \A q \in Pages :
           /\ q \in ToSet(activeList[y]) <=> q \in lruFlag' /\ q \in activeFlag' /\ zoneOf'[q] = y
           /\ q \in ToSet(inactiveList[y]) <=> q \in lruFlag' /\ q \notin activeFlag' /\ zoneOf'[q] = y
    BY <2>2 DEF Elsewhere
  <2> QED
    BY <2>1, <2>3, <2>4, <2>5 DEF ListedAt
<1> QED
  BY <1>1 DEF Listed

\* An unflagged page is added: to the head of the list that its new flags tell.
LEMMA ListsAdd ==
    ASSUME Base, OnLists, NEW t \in Tasks, AddPage(t), Here(t) \notin lruFlag, Here(t) \notin activeFlag
    PROVE  OnLists'
<1>1. PICK p : p = Here(t)
  OBVIOUS
<1>2. PICK z : z = zoneOf[p]
  OBVIOUS
<1>3. /\ p \in Pages /\ z \in Zones /\ zoneOf[p] = z /\ p \notin lruFlag /\ p \notin activeFlag
      /\ zoneOf' = zoneOf /\ hold' = hold /\ scan' = scan /\ lost' = lost
  BY <1>1, <1>2, HereParts DEF AddPage, scanVars
<1>4. lock[z] = t /\ scan.zone # z
  BY <1>1, <1>2, <1>3, Constants DEF AddPage, HoldsZone, Base, Held, Scanned
<1>5. /\ activeList \in [Zones -> Seq(Pages)] /\ inactiveList \in [Zones -> Seq(Pages)]
      /\ nrActive \in [Zones -> Int] /\ nrInactive \in [Zones -> Int]
  BY DEF Base, Typed, TypedPages
<1>6. /\ IsInjective(activeList[z]) /\ IsInjective(inactiveList[z])
      /\ nrActive[z] = Len(activeList[z]) /\ nrInactive[z] = Len(inactiveList[z])
      /\ \A q \in Pages :
              /\ q \in ToSet(activeList[z]) <=> q \in lruFlag /\ q \in activeFlag /\ zoneOf[q] = z
              /\ q \in ToSet(inactiveList[z]) <=> q \in lruFlag /\ q \notin activeFlag /\ zoneOf[q] = z
  BY <1>3, <1>4, <1>5, SeqParts DEF OnLists, Listed, ListedAt
<1>7. Taken'
  <2>1. ASSUME NEW q \in Pages
        PROVE  (q \in activeFlag' /\ q \notin lruFlag') <=> (q \in activeFlag /\ q \notin lruFlag)
    BY <1>1, <1>3 DEF AddPage
  <2> QED
    BY <1>3, <2>1 DEF OnLists, Taken
<1>8. CASE kind[t] = "active"
  <2>1. PICK a : a = <<p>> \o activeList[z]
    OBVIOUS
  <2>2. /\ lruFlag' = lruFlag \cup {p} /\ activeFlag' = activeFlag \cup {p}
        /\ activeList' = [activeList EXCEPT ![z] = a] /\ inactiveList' = inactiveList
        /\ nrActive' = [nrActive EXCEPT ![z] = nrActive[z] + 1] /\ nrInactive' = nrInactive
    BY <1>1, <1>2, <1>8, <2>1 DEF AddPage
  <2>3. IsInjective(a) /\ ToSet(a) = ToSet(activeList[z]) \cup {p} /\ Len(a) = Len(activeList[z]) + 1
    BY <1>3, <1>5, <1>6, <2>1, Pushed
  <2>4. /\ activeList'[z] = a /\ inactiveList'[z] = inactiveList[z]
        /\ nrActive'[z] = nrActive[z] + 1 /\ nrInactive'[z] = nrInactive[z]
        /\ \A y \in Zones \ {z} : /\ activeList'[y] = activeList[y] /\ inactiveList'[y] = inactiveList[y]
                                  /\ nrActive'[y] = nrActive[y] /\ nrInactive'[y] = nrInactive[y]
    BY <1>3, <1>5, <2>2
  <2>5. Listed'
    <3>1. Elsewhere(z, p)
      BY <1>3, <1>4, <1>6, <2>2, <2>3, <2>4 DEF Elsewhere
    <3>2. ListedAt(z)'
      BY <1>3, <1>4, <1>6, <2>2, <2>3, <2>4 DEF ListedAt
    <3> QED
      BY <1>3, <3>1, <3>2, ListsElsewhere DEF OnLists
  <2> QED
    BY <1>7, <2>5 DEF OnLists
<1>9. CASE kind[t] # "active"
  <2>1. PICK a : a = <<p>> \o inactiveList[z]
    OBVIOUS
  <2>2. /\ lruFlag' = lruFlag \cup {p} /\ activeFlag' = activeFlag
        /\ inactiveList' = [inactiveList EXCEPT ![z] = a] /\ activeList' = activeList
        /\ nrInactive' = [nrInactive EXCEPT ![z] = nrInactive[z] + 1] /\ nrActive' = nrActive
    BY <1>1, <1>2, <1>9, <2>1 DEF AddPage
  <2>3. IsInjective(a) /\ ToSet(a) = ToSet(inactiveList[z]) \cup {p} /\ Len(a) = Len(inactiveList[z]) + 1
    BY <1>3, <1>5, <1>6, <2>1, Pushed
  <2>4. /\ inactiveList'[z] = a /\ activeList'[z] = activeList[z]
        /\ nrInactive'[z] = nrInactive[z] + 1 /\ nrActive'[z] = nrActive[z]
        /\ \A y \in Zones \ {z} : /\ activeList'[y] = activeList[y] /\ inactiveList'[y] = inactiveList[y]
                                  /\ nrActive'[y] = nrActive[y] /\ nrInactive'[y] = nrInactive[y]
    BY <1>3, <1>5, <2>2
  <2>5. Listed'
    <3>1. Elsewhere(z, p)
      BY <1>3, <1>4, <1>6, <2>2, <2>3, <2>4 DEF Elsewhere
    <3>2. ListedAt(z)'
      BY <1>3, <1>4, <1>6, <2>2, <2>3, <2>4 DEF ListedAt
    <3> QED
      BY <1>3, <3>1, <3>2, ListsElsewhere DEF OnLists
  <2> QED
    BY <1>7, <2>5 DEF OnLists
<1> QED
  BY <1>8, <1>9

\* A page is taken off: from the list that its flag tells, which is the one that it is on.
LEMMA ListsUnlist ==
    ASSUME Base, OnLists, NEW t \in Tasks, Unlist(t)
    PROVE  OnLists' /\ Here(t) \notin lruFlag'
<1>1. PICK p : p = Here(t)
  OBVIOUS
<1>2. PICK z : z = zoneOf[p]
  OBVIOUS
<1>3. /\ p \in Pages /\ z \in Zones /\ zoneOf[p] = z
      /\ zoneOf' = zoneOf /\ hold' = hold /\ scan' = scan /\ lost' = lost
  BY <1>1, <1>2, HereParts DEF Unlist, scanVars, Base, Vectors
<1>4. lock[z] = t /\ scan.zone # z
  BY <1>1, <1>2, <1>3, Constants DEF Unlist, HoldsZone, Base, Held, Scanned
<1>5. /\ activeList \in [Zones -> Seq(Pages)] /\ inactiveList \in [Zones -> Seq(Pages)]
      /\ nrActive \in [Zones -> Int] /\ nrInactive \in [Zones -> Int]
  BY DEF Base, Typed, TypedPages
<1>6. /\ IsInjective(activeList[z]) /\ IsInjective(inactiveList[z])
      /\ nrActive[z] = Len(activeList[z]) /\ nrInactive[z] = Len(inactiveList[z])
      /\ \A q \in Pages :
              /\ q \in ToSet(activeList[z]) <=> q \in lruFlag /\ q \in activeFlag /\ zoneOf[q] = z
              /\ q \in ToSet(inactiveList[z]) <=> q \in lruFlag /\ q \notin activeFlag /\ zoneOf[q] = z
  BY <1>3, <1>4, <1>5, SeqParts DEF OnLists, Listed, ListedAt
<1>7. CASE p \notin lruFlag
  <2>1. UNCHANGED <<zoneOf, lruFlag, activeFlag, listVars, scanVars>>
    BY <1>1, <1>7 DEF Unlist
  <2> QED
    BY <1>1, <1>7, <2>1, ListsSame
<1>8. CASE p \in lruFlag
  <2>1. PICK a : a = Without(activeList[z], p)
    OBVIOUS
  <2>2. PICK i : i = Without(inactiveList[z], p)
    OBVIOUS
  <2>3. /\ lruFlag' = lruFlag \ {p} /\ activeFlag' = activeFlag \ {p}
        /\ activeList' = [activeList EXCEPT ![z] = a] /\ inactiveList' = [inactiveList EXCEPT ![z] = i]
        /\ IF p \in activeFlag
           THEN nrActive' = [nrActive EXCEPT ![z] = nrActive[z] - 1] /\ nrInactive' = nrInactive
           ELSE nrInactive' = [nrInactive EXCEPT ![z] = nrInactive[z] - 1] /\ nrActive' = nrActive
    BY <1>1, <1>2, <1>8, <2>1, <2>2 DEF Unlist, TakenOff
  <2>0. activeList[z] \in Seq(Pages) /\ inactiveList[z] \in Seq(Pages)
    BY <1>3, <1>5
  <2>4. /\ IsInjective(a) /\ ToSet(a) = ToSet(activeList[z]) \ {p}
        /\ p \in ToSet(activeList[z]) => Len(a) = Len(activeList[z]) - 1
        /\ p \notin ToSet(activeList[z]) => a = activeList[z]
    BY <1>6, <2>0, <2>1, WithoutParts
  <2>5. /\ IsInjective(i) /\ ToSet(i) = ToSet(inactiveList[z]) \ {p}
        /\ p \in ToSet(inactiveList[z]) => Len(i) = Len(inactiveList[z]) - 1
        /\ p \notin ToSet(inactiveList[z]) => i = inactiveList[z]
    BY <1>6, <2>0, <2>2, WithoutParts
  <2>6. /\ activeList'[z] = a /\ inactiveList'[z] = i
        /\ nrActive'[z] = (IF p \in activeFlag THEN nrActive[z] - 1 ELSE nrActive[z])
        /\ nrInactive'[z] = (IF p \in activeFlag THEN nrInactive[z] ELSE nrInactive[z] - 1)
        /\ \A y \in Zones \ {z} : /\ activeList'[y] = activeList[y] /\ inactiveList'[y] = inactiveList[y]
                                  /\ nrActive'[y] = nrActive[y] /\ nrInactive'[y] = nrInactive[y]
    BY <1>3, <1>5, <2>3
  <2>7. nrActive'[z] = Len(a) /\ nrInactive'[z] = Len(i)
    BY <1>3, <1>6, <1>8, <2>4, <2>5, <2>6
  <2>8. Listed'
    <3>1. Elsewhere(z, p)
      BY <1>3, <1>4, <1>6, <2>3, <2>4, <2>5, <2>6, <2>7 DEF Elsewhere
    <3>2. ListedAt(z)'
      BY <1>3, <1>4, <1>6, <2>3, <2>4, <2>5, <2>6, <2>7 DEF ListedAt
    <3> QED
      BY <1>3, <3>1, <3>2, ListsElsewhere DEF OnLists
  <2>9. Taken'
    <3>1. ASSUME NEW q \in Pages
          PROVE  (q \in activeFlag' /\ q \notin lruFlag') <=> (q \in activeFlag /\ q \notin lruFlag)
      BY <1>8, <2>3
    <3> QED
      BY <1>3, <3>1 DEF OnLists, Taken
  <2> QED
    BY <1>1, <2>3, <2>8, <2>9 DEF OnLists
<1> QED
  BY <1>7, <1>8

\* The page that a scan takes is on its zone's list, and the page that it gives back is not.
LEMMA OldestParts ==
    ASSUME Base, OnLists, Isolate
    PROVE  /\ Oldest \in Pages /\ Oldest \in lruFlag /\ Oldest \in activeFlag
           /\ Oldest \notin lost /\ Oldest \notin ToSet(hold)
           /\ scan.zone \in Zones /\ zoneOf[Oldest] = scan.zone
           /\ activeList[scan.zone] \in Seq(Pages) /\ activeList[scan.zone] # <<>>
<1>1. pc[Scanner] = "isolate" /\ activeList[scan.zone] # <<>>
  BY DEF Isolate, ScanAgain
<1>2. scan.zone \in Zones /\ activeList[scan.zone] \in Seq(Pages)
  BY <1>1, ScanParts
<1>3. Oldest \in Pages /\ Oldest \in ToSet(activeList[scan.zone])
  BY <1>1, <1>2, FrontParts DEF Oldest
<1>4. Oldest \in lruFlag /\ Oldest \in activeFlag /\ zoneOf[Oldest] = scan.zone
  BY <1>2, <1>3 DEF OnLists, Listed, ListedAt
<1> QED
  BY <1>1, <1>2, <1>3, <1>4 DEF OnLists, Taken

LEMMA HeadParts ==
    ASSUME Base, OnLists, GiveBack
    PROVE  /\ hold \in Seq(Pages) /\ hold # <<>>
           /\ Head(hold) \in Pages /\ Head(hold) \in ToSet(hold)
           /\ Head(hold) \in activeFlag /\ Head(hold) \notin lruFlag /\ Head(hold) \notin lost
           /\ zoneOf[Head(hold)] = scan.zone /\ scan.zone \in Zones
           /\ activeList[scan.zone] \in Seq(Pages)
           /\ Tail(hold) \in Seq(Pages) /\ Len(Tail(hold)) = Len(hold) - 1
           /\ IsInjective(Tail(hold)) /\ ToSet(Tail(hold)) = ToSet(hold) \ {Head(hold)}
<1>1. pc[Scanner] = "give_back"
  BY DEF GiveBack
<1>2. hold \in Seq(Pages) /\ hold # <<>>
  BY <1>1, EmptyParts DEF Base, Typed, TypedScan, Scanned
<1>3. scan.zone \in Zones /\ activeList[scan.zone] \in Seq(Pages)
  BY <1>1, ScanParts
<1>4. IsInjective(hold)
  BY DEF OnLists, Taken
<1>5. /\ Head(hold) \in Pages /\ Head(hold) \in ToSet(hold)
      /\ Tail(hold) \in Seq(Pages) /\ Len(Tail(hold)) = Len(hold) - 1
      /\ IsInjective(Tail(hold)) /\ ToSet(Tail(hold)) = ToSet(hold) \ {Head(hold)}
  BY <1>2, <1>4, TailParts
<1> QED
  BY <1>2, <1>3, <1>5 DEF OnLists, Taken

\* A scan's steps move pages between the active list and l_hold, and the count follows at the end.
LEMMA ListsScan ==
    ASSUME Base, OnLists, ScanSteps
    PROVE  OnLists'
<1>0. /\ activeList \in [Zones -> Seq(Pages)] /\ nrActive \in [Zones -> Int]
      /\ scan \in [zone : Zones \cup {None}, seen : Nat, taken : Nat]
      /\ Listed /\ Taken /\ pc \in [Contexts -> Turns \cup {"isolate", "give_back"}] /\ Scanner \in Contexts
  BY Constants DEF Base, Typed, TypedPages, TypedScan, OnLists
<1>1. /\ zoneOf' = zoneOf /\ activeFlag' = activeFlag
      /\ inactiveList' = inactiveList /\ nrInactive' = nrInactive
  BY ScanFrame
<1>2. ASSUME NEW z \in Zones, ScanLock(z) PROVE OnLists'
  <2>1. /\ lruFlag' = lruFlag /\ activeList' = activeList /\ nrActive' = nrActive
        /\ hold' = hold /\ lost' = lost
    BY <1>2 DEF ScanLock, pageVars, listVars
  <2>2. hold = <<>> /\ Len(hold) = 0 /\ ToSet(hold) = {}
    BY <1>2, EmptyParts DEF ScanLock, Base, Scanned
  <2>3. Taken'
    BY <1>0, <1>1, <2>1, <2>2 DEF Taken
  <2>4. ASSUME NEW y \in Zones PROVE ListedAt(y)'
    BY <1>0, <1>1, <2>1, <2>2 DEF Listed, ListedAt
  <2> QED
    BY <2>3, <2>4 DEF OnLists, Listed
<1>3. ASSUME Isolate PROVE OnLists'
  <2>1. PICK z \in Zones : z = scan.zone
    BY <1>3, OldestParts
  <2>2. PICK p \in Pages : p = Oldest
    BY <1>3, OldestParts
  <2>3. PICK a : a = Front(activeList[z])
    OBVIOUS
  <2>4. PICK h : h = <<p>> \o hold
    OBVIOUS
  <2>5. /\ lruFlag' = lruFlag \ {p} /\ activeList' = [activeList EXCEPT ![z] = a]
        /\ hold' = h /\ lost' = lost /\ nrActive' = nrActive
    BY <1>3, <2>1, <2>2, <2>3, <2>4 DEF Isolate
  <2>6. scan'.zone = z
    BY <1>0, <1>3, <2>1 DEF Isolate
  <2>7. /\ p \in lruFlag /\ p \in activeFlag /\ p \notin lost /\ p \notin ToSet(hold) /\ zoneOf[p] = z
        /\ activeList[z] \in Seq(Pages) /\ activeList[z] # <<>> /\ p = Last(activeList[z])
    BY <1>3, <2>1, <2>2, OldestParts DEF Oldest
  <2>8. /\ IsInjective(activeList[z]) /\ IsInjective(inactiveList[z])
        /\ nrActive[z] = Len(activeList[z]) + Len(hold) /\ nrInactive[z] = Len(inactiveList[z])
        /\ \A q \in Pages :
              /\ q \in ToSet(activeList[z]) <=> q \in lruFlag /\ q \in activeFlag /\ zoneOf[q] = z
              /\ q \in ToSet(inactiveList[z]) <=> q \in lruFlag /\ q \notin activeFlag /\ zoneOf[q] = z
    BY <1>0, <2>1 DEF Listed, ListedAt
  <2>9. IsInjective(a) /\ ToSet(a) = ToSet(activeList[z]) \ {p} /\ Len(a) = Len(activeList[z]) - 1
    BY <2>3, <2>7, <2>8, FrontParts
  <2>10. hold \in Seq(Pages) /\ IsInjective(hold) /\ Len(hold) \in Nat /\ Len(activeList[z]) \in Nat
    BY <1>0, <2>7, SeqParts DEF Base, Typed, TypedScan, Taken
  <2>11. IsInjective(h) /\ ToSet(h) = ToSet(hold) \cup {p} /\ Len(h) = Len(hold) + 1
    BY <2>4, <2>7, <2>10, Pushed
  <2>12. activeList'[z] = a /\ \A y \in Zones \ {z} : activeList'[y] = activeList[y]
    BY <1>0, <2>5
  <2>13. Elsewhere(z, p)
    BY <1>1, <2>1, <2>5, <2>6, <2>7, <2>12 DEF Elsewhere
  <2>14. ListedAt(z)'
    <3>0. Len(a) + Len(h) = Len(activeList[z]) + Len(hold)
      <4>1. PICK m \in Nat : m = Len(activeList[z])
        BY <2>10
      <4>2. PICK n \in Nat : n = Len(hold)
        BY <2>10
      <4>3. Len(a) = m - 1 /\ Len(h) = n + 1
        BY <2>9, <2>11, <4>1, <4>2
      <4>4. (m - 1) + (n + 1) = m + n
        OBVIOUS
      <4> QED
        BY <4>1, <4>2, <4>3, <4>4
    <3>1. /\ nrActive'[z] = Len(activeList'[z]) + (IF scan'.zone = z THEN Len(hold') ELSE 0)
          /\ IsInjective(activeList'[z]) /\ IsInjective(inactiveList'[z])
          /\ nrInactive'[z] = Len(inactiveList'[z])
      <4>1. nrActive'[z] = Len(a) + Len(h)
        BY <3>0, <2>5, <2>6, <2>8, <2>9, <2>10, <2>11, <2>12
      <4>2. scan'.zone = z
        BY <2>5, <2>6, <2>8, <2>9, <2>10, <2>11, <2>12
      <4>3. activeList'[z] = a /\ hold' = h
        BY <2>5, <2>6, <2>8, <2>9, <2>10, <2>11, <2>12
      <4> QED
        BY <1>1, <4>1, <4>2, <4>3, <2>5, <2>6, <2>8, <2>9, <2>10, <2>11, <2>12
    <3>2. \A q \in Pages :
              /\ q \in ToSet(activeList'[z]) <=> q \in lruFlag' /\ q \in activeFlag' /\ zoneOf'[q] = z
              /\ q \in ToSet(inactiveList'[z]) <=> q \in lruFlag' /\ q \notin activeFlag' /\ zoneOf'[q] = z
      BY <1>1, <2>5, <2>6, <2>7, <2>8, <2>9, <2>11, <2>12
    <3> QED
      BY <3>1, <3>2 DEF ListedAt
  <2>15. Taken'
    BY <1>0, <1>1, <2>1, <2>5, <2>6, <2>7, <2>11 DEF Taken
  <2> QED
    BY <1>0, <2>13, <2>14, <2>15, ListsElsewhere DEF OnLists
<1>4. ASSUME GiveBack PROVE OnLists'
  <2>1. PICK z \in Zones : z = scan.zone
    BY <1>4, HeadParts
  <2>2. PICK p \in Pages : p = Head(hold)
    BY <1>4, HeadParts
  <2>3. PICK a : a = <<p>> \o activeList[z]
    OBVIOUS
  <2>4. PICK h : h = Tail(hold)
    OBVIOUS
  <2>5. /\ lruFlag' = lruFlag \cup {p} /\ activeList' = [activeList EXCEPT ![z] = a]
        /\ hold' = h /\ lost' = lost /\ nrActive' = nrActive /\ scan' = scan
    BY <1>4, <2>1, <2>2, <2>3, <2>4 DEF GiveBack
  <2>6. /\ p \notin lruFlag /\ p \in activeFlag /\ p \notin lost /\ p \in ToSet(hold) /\ zoneOf[p] = z
        /\ activeList[z] \in Seq(Pages) /\ IsInjective(h) /\ ToSet(h) = ToSet(hold) \ {p}
        /\ Len(h) = Len(hold) - 1 /\ hold \in Seq(Pages)
    BY <1>4, <2>1, <2>2, <2>4, HeadParts
  <2>7. /\ IsInjective(activeList[z]) /\ IsInjective(inactiveList[z])
        /\ nrActive[z] = Len(activeList[z]) + Len(hold) /\ nrInactive[z] = Len(inactiveList[z])
        /\ \A q \in Pages :
              /\ q \in ToSet(activeList[z]) <=> q \in lruFlag /\ q \in activeFlag /\ zoneOf[q] = z
              /\ q \in ToSet(inactiveList[z]) <=> q \in lruFlag /\ q \notin activeFlag /\ zoneOf[q] = z
    BY <1>0, <2>1 DEF Listed, ListedAt
  <2>8. /\ IsInjective(a) /\ ToSet(a) = ToSet(activeList[z]) \cup {p} /\ Len(a) = Len(activeList[z]) + 1
    <3>1. p \notin ToSet(activeList[z])
      BY <2>6, <2>7
    <3> QED
      BY <2>3, <2>6, <2>7, <3>1, Pushed
  <2>9. Len(hold) \in Nat /\ Len(activeList[z]) \in Nat
    BY <2>6, SeqParts
  <2>10. activeList'[z] = a /\ \A y \in Zones \ {z} : activeList'[y] = activeList[y]
    BY <1>0, <2>5
  <2>11. Elsewhere(z, p)
    BY <1>1, <2>1, <2>5, <2>6, <2>10 DEF Elsewhere
  <2>12. ListedAt(z)'
    <3>0. Len(a) + Len(h) = Len(activeList[z]) + Len(hold)
      BY <2>6, <2>8, <2>9
    <3>1. /\ nrActive'[z] = Len(activeList'[z]) + (IF scan'.zone = z THEN Len(hold') ELSE 0)
          /\ IsInjective(activeList'[z]) /\ IsInjective(inactiveList'[z])
          /\ nrInactive'[z] = Len(inactiveList'[z])
      <4>1. nrActive'[z] = Len(a) + Len(h)
        BY <3>0, <2>1, <2>5, <2>6, <2>7, <2>8, <2>9, <2>10
      <4>2. scan'.zone = z
        BY <2>1, <2>5, <2>6, <2>7, <2>8, <2>9, <2>10
      <4>3. activeList'[z] = a /\ hold' = h
        BY <2>1, <2>5, <2>6, <2>7, <2>8, <2>9, <2>10
      <4> QED
        BY <1>1, <4>1, <4>2, <4>3, <2>1, <2>5, <2>6, <2>7, <2>8, <2>9, <2>10
    <3>2. \A q \in Pages :
              /\ q \in ToSet(activeList'[z]) <=> q \in lruFlag' /\ q \in activeFlag' /\ zoneOf'[q] = z
              /\ q \in ToSet(inactiveList'[z]) <=> q \in lruFlag' /\ q \notin activeFlag' /\ zoneOf'[q] = z
      BY <1>1, <2>5, <2>6, <2>7, <2>8, <2>10
    <3> QED
      BY <3>1, <3>2 DEF ListedAt
  <2>13. Taken'
    BY <1>0, <1>1, <2>1, <2>5, <2>6 DEF Taken
  <2> QED
    BY <1>0, <2>11, <2>12, <2>13, ListsElsewhere DEF OnLists
<1>5. ASSUME IsolateEnds PROVE OnLists'
  <2>1. PICK z \in Zones : z = scan.zone
    BY <1>5, ScanParts DEF IsolateEnds
  <2>2. /\ nrActive' = [nrActive EXCEPT ![z] = nrActive[z] - scan.taken]
        /\ lost' = lost \cup ToSet(hold) /\ hold' = <<>> /\ scan'.zone = None
        /\ activeList' = activeList /\ lruFlag' = lruFlag
    BY <1>5, <2>1 DEF IsolateEnds, NoScan, pageVars
  <2>3. Len(hold) = scan.taken /\ activeList[z] \in Seq(Pages) /\ hold \in Seq(Pages)
    BY <1>0, <1>5 DEF IsolateEnds, Base, Scanned, Typed, TypedScan
  <2>4. Len(activeList[z]) \in Nat /\ Len(hold) \in Nat /\ None \notin Zones
    BY <2>3, SeqParts, Constants
  <2>5. ASSUME NEW y \in Zones PROVE ListedAt(y)'
    <3>1. /\ nrActive[y] = Len(activeList[y]) + (IF z = y THEN Len(hold) ELSE 0)
          /\ nrActive'[y] = (IF z = y THEN nrActive[y] - Len(hold) ELSE nrActive[y])
          /\ Len(activeList[y]) \in Nat
      BY <1>0, <2>1, <2>2, <2>3, SeqParts DEF Listed, ListedAt
    <3>2. nrActive'[y] = Len(activeList[y])
      BY <2>4, <3>1
    <3>3. scan'.zone # y
      BY <2>2, <2>4
    <3>4. /\ IsInjective(activeList[y]) /\ IsInjective(inactiveList[y])
          /\ nrInactive[y] = Len(inactiveList[y])
          /\ \A p \in Pages :
               /\ p \in ToSet(activeList[y]) <=> p \in lruFlag /\ p \in activeFlag /\ zoneOf[p] = y
               /\ p \in ToSet(inactiveList[y]) <=> p \in lruFlag /\ p \notin activeFlag /\ zoneOf[p] = y
      BY <1>0 DEF Listed, ListedAt
    <3> QED
      BY <1>1, <2>2, <3>1, <3>2, <3>3, <3>4 DEF ListedAt
  <2>6. Taken'
    BY <1>0, <1>1, <2>2, EmptyParts DEF Taken
  <2> QED
    BY <2>5, <2>6 DEF OnLists, Listed
<1> QED
  BY <1>2, <1>3, <1>4, <1>5 DEF ScanSteps, ScanGoesOn

(****************************************************************************)
(* References.                                                              *)
(****************************************************************************)
\* The claims of those who owe one reference, o, and of those who have r of them.
ClaimSet(o, r) == {c \in Tasks \X (0..MaxRefs) : IF c[2] = 0 THEN c[1] \in o ELSE c[2] <= r[c[1]]}
Owers(p) == {t \in Tasks : p \in Owing(t)}
RefsTo(p) == [t \in Tasks |-> refs[t][p]]

\* The claims by who owes and who has.
LEMMA ClaimsOf ==
    ASSUME NEW p
    PROVE  Claims(p) = ClaimSet(Owers(p), RefsTo(p))
<1>1. ASSUME NEW c \in Tasks \X (0..MaxRefs)
      PROVE  (IF c[2] = 0 THEN p \in Owing(c[1]) ELSE c[2] <= refs[c[1]][p])
                 <=> (IF c[2] = 0 THEN c[1] \in Owers(p) ELSE c[2] <= RefsTo(p)[c[1]])
  BY DEF Owers, RefsTo
<1> QED
  BY <1>1 DEF Claims, ClaimSet

\* There are finitely many claims: cardinality counts them.
LEMMA ClaimsFinite ==
    ASSUME NEW o, NEW r
    PROVE  IsFiniteSet(ClaimSet(o, r)) /\ Cardinality(ClaimSet(o, r)) \in Nat
<1>1. IsFiniteSet(Tasks) /\ IsFiniteSet(0..MaxRefs)
  BY LruAssumption, FS_Interval
<1>2. IsFiniteSet(Tasks \X (0..MaxRefs))
  BY <1>1, FS_Product
<1>3. IsFiniteSet(ClaimSet(o, r))
  BY <1>2, FS_Subset DEF ClaimSet
<1> QED
  BY <1>3, FS_CardinalityType

\* One reference more that is owed.
LEMMA OwedMore ==
    ASSUME NEW o, NEW r, NEW t \in Tasks, t \notin o
    PROVE  Cardinality(ClaimSet(o \cup {t}, r)) = Cardinality(ClaimSet(o, r)) + 1
<1>1. PICK e : e = <<t, 0>>
  OBVIOUS
<1>2. e \in Tasks \X (0..MaxRefs) /\ e[1] = t /\ e[2] = 0
  BY <1>1, Constants
<1>3. e \notin ClaimSet(o, r)
  BY <1>2 DEF ClaimSet
<1>4. ClaimSet(o \cup {t}, r) = ClaimSet(o, r) \cup {e}
  <2>1. ASSUME NEW c \in Tasks \X (0..MaxRefs)
        PROVE  c \in ClaimSet(o \cup {t}, r) <=> c \in ClaimSet(o, r) \cup {e}
    <3>1. c = e <=> c[1] = t /\ c[2] = 0
      BY <1>1
    <3> QED
      BY <3>1 DEF ClaimSet
  <2>2. ClaimSet(o \cup {t}, r) \subseteq Tasks \X (0..MaxRefs)
        /\ ClaimSet(o, r) \subseteq Tasks \X (0..MaxRefs)
    BY DEF ClaimSet
  <2> QED
    BY <1>2, <2>1, <2>2
<1> QED
  BY <1>3, <1>4, ClaimsFinite, FS_AddElement

\* One reference more that a task has.
LEMMA RefsMore ==
    ASSUME NEW o, NEW r \in [Tasks -> 0..MaxRefs], NEW t \in Tasks, r[t] < MaxRefs
    PROVE  Cardinality(ClaimSet(o, [r EXCEPT ![t] = r[t] + 1])) = Cardinality(ClaimSet(o, r)) + 1
<1>1. PICK s : s = [r EXCEPT ![t] = r[t] + 1]
  OBVIOUS
<1>2. PICK k \in 1..MaxRefs : k = r[t] + 1
  BY Constants
<1>3. PICK e : e = <<t, k>>
  OBVIOUS
<1>4. e \in Tasks \X (0..MaxRefs) /\ e[1] = t /\ e[2] = k
  BY <1>3, Constants
<1>5. e \notin ClaimSet(o, r)
  BY <1>2, <1>4, Constants DEF ClaimSet
<1>6. s[t] = k /\ \A u \in Tasks \ {t} : s[u] = r[u]
  BY <1>1, <1>2
<1>7. ASSUME NEW c \in Tasks \X (0..MaxRefs)
      PROVE  c \in ClaimSet(o, s) <=> c \in ClaimSet(o, r) \cup {e}
  <2>1. c = e <=> c[1] = t /\ c[2] = k
    BY <1>3
  <2>2. c[2] \in 0..MaxRefs /\ c[1] \in Tasks /\ r[t] \in 0..MaxRefs
    OBVIOUS
  <2>3. CASE c[1] # t
    BY <1>6, <2>1, <2>2, <2>3 DEF ClaimSet
  <2>4. CASE c[1] = t /\ c[2] = 0
    BY <1>2, <2>1, <2>4 DEF ClaimSet
  <2>5. CASE c[1] = t /\ c[2] # 0
    <3>1. c[2] <= s[t] <=> c[2] <= r[t] \/ c[2] = k
      BY <1>2, <1>6, <2>2, Constants
    <3> QED
      BY <2>1, <2>5, <3>1 DEF ClaimSet
  <2> QED
    BY <2>3, <2>4, <2>5
<1>8. ClaimSet(o, s) \subseteq Tasks \X (0..MaxRefs) /\ ClaimSet(o, r) \subseteq Tasks \X (0..MaxRefs)
  BY DEF ClaimSet
<1>9. ClaimSet(o, s) = ClaimSet(o, r) \cup {e}
  BY <1>4, <1>7, <1>8
<1> QED
  BY <1>1, <1>5, <1>9, ClaimsFinite, FS_AddElement

\* Nobody claims a page: nobody owes a reference or has one.
LEMMA NoClaims ==
    ASSUME Base, NEW p \in Pages
    PROVE  /\ Claims(p) = {} <=> \A t \in Tasks : p \notin Owing(t) /\ refs[t][p] = 0
           /\ IsFiniteSet(Claims(p)) /\ Cardinality(Claims(p)) \in Nat
           /\ Cardinality(Claims(p)) = 0 <=> Claims(p) = {}
<1>1. IsFiniteSet(Claims(p)) /\ Cardinality(Claims(p)) \in Nat
  BY ClaimsOf, ClaimsFinite
<1>2. \A t \in Tasks : refs[t][p] \in 0..MaxRefs
  BY DEF Base, Typed, TypedTasks
<1>3. ASSUME NEW t \in Tasks, p \in Owing(t) PROVE <<t, 0>> \in Claims(p)
  BY <1>3, Constants DEF Claims
<1>4. ASSUME NEW t \in Tasks, refs[t][p] # 0 PROVE <<t, 1>> \in Claims(p)
  BY <1>2, <1>4, Constants DEF Claims
<1>5. ASSUME NEW c \in Claims(p) PROVE \E t \in Tasks : p \in Owing(t) \/ refs[t][p] # 0
  <2>1. c[1] \in Tasks /\ c[2] \in 0..MaxRefs
        /\ IF c[2] = 0 THEN p \in Owing(c[1]) ELSE c[2] <= refs[c[1]][p]
    BY DEF Claims
  <2> QED
    BY <1>2, <2>1, Constants
<1> QED
  BY <1>1, <1>3, <1>4, <1>5, FS_EmptySet

\* The claims of a page are those before, its users' references and what they owe being the same.
LEMMA SameClaims ==
    ASSUME NEW p, \A t \in Tasks : /\ p \in Owing(t)' <=> p \in Owing(t)
                                   /\ refs'[t][p] = refs[t][p]
    PROVE  Claims(p)' = Claims(p)
<1>1. Owers(p)' = Owers(p) /\ RefsTo(p)' = RefsTo(p)
  BY DEF Owers, RefsTo
<1> QED
  BY <1>1, ClaimsOf DEF Claims, Owers, RefsTo, ClaimSet

\* What t owes: nothing before a batch, the batch when it begins, then all but what it has put.
LEMMA OwingCall ==
    ASSUME Base, NEW t \in Tasks, Call(t)
    PROVE  /\ \A u \in Tasks \ {t} : Owing(u)' = Owing(u)
           /\ Owing(t) = {}
           /\ pc'[t] = "idle" => Owing(t)' = {}
           /\ pc'[t] = "put" => Owing(t)' = ToSet(vec'[t])
           /\ pc'[t] = "add" => Owing(t)' = ToSet(todo'[t])
<1>1. \A u \in Tasks \ {t} : pc'[u] = pc[u] /\ vec'[u] = vec[u] /\ todo'[u] = todo[u]
  BY TaskFrame
<1>2. pc[t] = "idle"
  BY DEF Call, GetFree, GetRef, LruAdd, ReleasePages
<1>3. Base'
  BY BaseTask
<1>4. Owing(t) = {}
  BY <1>2, EmptyParts DEF Owing, Base, Vectors
<1>5. pc'[t] = "idle" => Owing(t)' = {}
  BY <1>3, EmptyParts DEF Owing, Base, Vectors
<1> QED
  BY <1>1, <1>4, <1>5 DEF Owing

LEMMA OwingContinue ==
    ASSUME Base, NEW t \in Tasks, Continue(t)
    PROVE  /\ \A u \in Tasks \ {t} : Owing(u)' = Owing(u)
           /\ Put(t) => /\ vec[t] # <<>> /\ Here(t) \in Pages /\ Here(t) \in Owing(t)
                        /\ Owing(t)' = Owing(t) \ {Here(t)}
           /\ ~Put(t) => Owing(t)' = Owing(t)
<1>1. \A u \in Tasks \ {t} : pc'[u] = pc[u] /\ vec'[u] = vec[u] /\ todo'[u] = todo[u]
  BY TaskFrame
<1>2. \A u \in Tasks \ {t} : Owing(u)' = Owing(u)
  BY <1>1 DEF Owing
<1>3. /\ pc \in [Contexts -> Turns \cup {"isolate", "give_back"}] /\ t \in Contexts
      /\ vec \in [Tasks -> Seq(Pages)] /\ todo \in [Tasks -> Seq(Pages)]
  BY Constants DEF Base, Typed, TypedScan, TypedTasks
<1>4. ASSUME Put(t)
      PROVE  /\ vec[t] # <<>> /\ Here(t) \in Pages /\ Here(t) \in Owing(t)
             /\ Owing(t)' = Owing(t) \ {Here(t)}
  <2>1. pc[t] = "put" /\ vec[t] # <<>>
    BY <1>4 DEF Put
  <2>2. Here(t) \in Pages /\ Here(t) \in ToSet(vec[t]) /\ ToSet(Tail(vec[t])) = ToSet(vec[t]) \ {Here(t)}
    BY <2>1, HereParts
  <2>3. Owing(t) = ToSet(vec[t])
    BY <2>1 DEF Owing
  <2>4. \/ pc'[t] = "unlist" /\ vec'[t] = vec[t]
        \/ pc'[t] = "put" /\ vec'[t] = Tail(vec[t])
    BY <1>3, <1>4, <2>1 DEF Put, Goto
  <2>5. Owing(t)' = ToSet(Tail(vec[t]))
    BY <2>4 DEF Owing
  <2> QED
    BY <2>1, <2>2, <2>3, <2>5
<1>5. ASSUME LeaveZone(t) \/ EnterZone(t) PROVE Owing(t)' = Owing(t)
  BY <1>5 DEF LeaveZone, EnterZone, Owing
<1>6. ASSUME AddPage(t) PROVE Owing(t)' = Owing(t)
  BY <1>6 DEF AddPage, Owing
<1>7. ASSUME AddEnds(t) PROVE Owing(t)' = Owing(t)
  <2>1. pc[t] = "add" /\ pc'[t] = "put" /\ vec'[t] = todo[t]
    BY <1>3, <1>7 DEF AddEnds, Goto
  <2> QED
    BY <2>1 DEF Owing
<1>8. ASSUME Unlist(t) PROVE Owing(t)' = Owing(t)
  <2>1. pc[t] = "unlist" /\ pc'[t] \in {"put", "free"} /\ vec'[t] = Tail(vec[t])
    BY <1>3, <1>8 DEF Unlist, Goto
  <2> QED
    BY <2>1 DEF Owing
<1>9. ASSUME FreeVec(t) \/ ReleaseEnds(t) PROVE Owing(t)' = Owing(t)
  <2>1. pc[t] \in {"put", "free"} /\ pc'[t] \in {"put", "free", "idle"} /\ vec'[t] = vec[t]
    BY <1>3, <1>9 DEF FreeVec, ReleaseEnds, Goto
  <2> QED
    BY <2>1 DEF Owing
<1> QED
  BY <1>2, <1>4, <1>5, <1>6, <1>7, <1>8, <1>9 DEF Continue

(****************************************************************************)
(* The counts are exact.                                                    *)
(****************************************************************************)
LEMMA RefsInit == Init => RefsExact
<1> SUFFICES ASSUME Init, NEW p \in Pages PROVE count[p] = ScanOwes(p) + Cardinality(Claims(p))
  BY DEF RefsExact
<1>1. Base
  BY BaseInit
<1>2. \A t \in Tasks : Owing(t) = {} /\ refs[t][p] = 0
  BY EmptyParts, Constants DEF Init, Owing
<1>3. Cardinality(Claims(p)) = 0
  BY <1>1, <1>2, NoClaims
<1>4. ScanOwes(p) = 0
  BY EmptyParts DEF Init, ScanOwes
<1> QED
  BY <1>3, <1>4 DEF Init

\* A page that a task gets, or gets once more.
LEMMA RefsGot ==
    ASSUME Base, RefsExact, NEW t \in Tasks, NEW p \in Pages,
           (GetFree(t, p) /\ count[p] = 0) \/ GetRef(t, p)
    PROVE  RefsExact'
<1>0. Call(t)
  BY DEF Call
<1>1. /\ \A u \in Tasks : Owing(u)' = Owing(u)
      /\ hold' = hold /\ lost' = lost /\ \A u \in Tasks \ {t} : refs'[u] = refs[u]
  <2>1. pc' = pc /\ vec' = vec /\ todo' = todo
    BY DEF GetFree, GetRef, batchVars
  <2> QED
    BY <1>0, <2>1, TaskFrame DEF Owing
<1>2. refs \in [Tasks -> [Pages -> 0..MaxRefs]] /\ count \in [Pages -> Int]
  BY DEF Base, Typed, TypedTasks, TypedPages
<1>3. count[p] = ScanOwes(p) + Cardinality(Claims(p)) /\ ScanOwes(p) \in 0..1
  BY DEF RefsExact, ScanOwes
<1>4. refs[t][p] < MaxRefs /\ refs'[t][p] = refs[t][p] + 1 /\ count'[p] = count[p] + 1
  <2>1. CASE GetFree(t, p) /\ count[p] = 0
    <3>1. Cardinality(Claims(p)) \in Nat
      BY NoClaims
    <3>2. Cardinality(Claims(p)) = 0
      BY <1>3, <2>1, <3>1
    <3>3. refs[t][p] = 0
      BY <3>2, NoClaims
    <3> QED
      BY <1>2, <2>1, <3>3, Constants DEF GetFree
  <2>2. CASE GetRef(t, p)
    BY <1>2, <2>2 DEF GetRef
  <2> QED
    BY <2>1, <2>2
<1>5. /\ \A q \in Pages \ {p} : refs'[t][q] = refs[t][q] /\ count'[q] = count[q]
  BY <1>2 DEF GetFree, GetRef
<1>6. Owers(p)' = Owers(p) /\ RefsTo(p)' = [RefsTo(p) EXCEPT ![t] = RefsTo(p)[t] + 1]
      /\ RefsTo(p) \in [Tasks -> 0..MaxRefs] /\ RefsTo(p)[t] < MaxRefs
  BY <1>1, <1>2, <1>4 DEF Owers, RefsTo
<1>7. Claims(p)' = ClaimSet(Owers(p)', RefsTo(p)')
  BY ClaimsOf DEF Claims, Owers, RefsTo, ClaimSet
<1>8. Cardinality(Claims(p)') = Cardinality(Claims(p)) + 1
  <2>1. PICK o : o = Owers(p)
    OBVIOUS
  <2>2. PICK r \in [Tasks -> 0..MaxRefs] : r = RefsTo(p)
    BY <1>6
  <2>3. Cardinality(ClaimSet(o, [r EXCEPT ![t] = r[t] + 1])) = Cardinality(ClaimSet(o, r)) + 1
    BY <1>6, <2>2, RefsMore
  <2>4. Claims(p)' = ClaimSet(o, [r EXCEPT ![t] = r[t] + 1])
    BY <1>6, <1>7, <2>1, <2>2
  <2>5. Claims(p) = ClaimSet(o, r)
    BY <2>1, <2>2, ClaimsOf
  <2> QED
    BY <2>3, <2>4, <2>5
<1>9. ASSUME NEW q \in Pages PROVE (count[q] = ScanOwes(q) + Cardinality(Claims(q)))'
  <2>1. ScanOwes(q)' = ScanOwes(q)
    BY <1>1 DEF ScanOwes
  <2>2. CASE q = p
    BY <1>3, <1>4, <1>8, <2>1, <2>2, NoClaims
  <2>3. CASE q # p
    <3>1. Claims(q)' = Claims(q)
      BY <1>1, <1>5, <2>3, SameClaims
    <3> QED
      BY <1>5, <2>1, <2>3, <3>1 DEF RefsExact
  <2> QED
    BY <2>2, <2>3
<1> QED
  BY <1>9 DEF RefsExact

\* A batch: one reference to each page of it is owed and no longer had.
LEMMA RefsBatch ==
    ASSUME Base, RefsExact, NEW t \in Tasks, NEW v \in Batches(t), refs' = Owed(t, v), count' = count,
           Call(t), Owing(t)' = ToSet(v)
    PROVE  /\ RefsExact'
           /\ \A p \in Pages : Claims(p) = {} => Claims(p)' = {}
<1>1. /\ \A u \in Tasks \ {t} : Owing(u)' = Owing(u)
      /\ Owing(t) = {} /\ hold' = hold /\ lost' = lost
  BY OwingCall, TaskFrame
<1>2. refs \in [Tasks -> [Pages -> 0..MaxRefs]]
  BY DEF Base, Typed, TypedTasks
<1>3. /\ \A u \in Tasks \ {t} : refs'[u] = refs[u]
      /\ refs'[t] = [p \in Pages |-> IF p \in ToSet(v) THEN refs[t][p] - 1 ELSE refs[t][p]]
  BY <1>2 DEF Owed
<1>4. /\ refs' \in [Tasks -> [Pages -> 0..MaxRefs]]
  BY BaseTask DEF Base, Typed, TypedTasks
<1>5. ASSUME NEW p \in Pages, p \in ToSet(v)
      PROVE  Cardinality(Claims(p)') = Cardinality(Claims(p)) /\ Claims(p) # {}
  <2>1. refs[t][p] > 0 /\ refs[t][p] \in 0..MaxRefs /\ refs'[t][p] = refs[t][p] - 1
    BY <1>2, <1>3, <1>5, BatchParts
  <2>2. PICK o : o = Owers(p)
    OBVIOUS
  <2>3. PICK r : r = RefsTo(p)'
    OBVIOUS
  <2>4. r \in [Tasks -> 0..MaxRefs] /\ r[t] = refs[t][p] - 1 /\ r[t] < MaxRefs
    BY <1>4, <2>1, <2>3, Constants DEF RefsTo
  <2>5. RefsTo(p) = [r EXCEPT ![t] = r[t] + 1]
    BY <1>2, <1>3, <2>1, <2>3, <2>4 DEF RefsTo
  <2>6. t \notin o /\ Owers(p)' = o \cup {t}
    BY <1>1, <1>5, <2>2 DEF Owers
  <2>7. Claims(p)' = ClaimSet(o \cup {t}, r)
    BY <2>3, <2>6, ClaimsOf DEF Claims, Owers, RefsTo, ClaimSet
  <2>8. Claims(p) = ClaimSet(o, [r EXCEPT ![t] = r[t] + 1])
    BY <2>2, <2>5, ClaimsOf
  <2>9. Cardinality(ClaimSet(o \cup {t}, r)) = Cardinality(ClaimSet(o, r)) + 1
    BY <2>6, OwedMore
  <2>10. Cardinality(ClaimSet(o, [r EXCEPT ![t] = r[t] + 1])) = Cardinality(ClaimSet(o, r)) + 1
    BY <2>4, RefsMore
  <2>11. Claims(p) # {}
    BY <2>1, NoClaims
  <2> QED
    BY <2>7, <2>8, <2>9, <2>10, <2>11
<1>6. ASSUME NEW p \in Pages, p \notin ToSet(v) PROVE Claims(p)' = Claims(p)
  <2>1. refs'[t][p] = refs[t][p]
    BY <1>2, <1>3, <1>6
  <2> QED
    BY <1>1, <1>3, <1>6, <2>1, SameClaims
<1>7. ASSUME NEW p \in Pages PROVE (count[p] = ScanOwes(p) + Cardinality(Claims(p)))'
  <2>1. ScanOwes(p)' = ScanOwes(p)
    BY <1>1 DEF ScanOwes
  <2> QED
    BY <1>5, <1>6, <2>1 DEF RefsExact
<1> QED
  BY <1>5, <1>6, <1>7 DEF RefsExact

\* A reference is put.
LEMMA RefsPut ==
    ASSUME Base, RefsExact, NEW t \in Tasks, Put(t)
    PROVE  /\ RefsExact'
           /\ \A p \in Pages : Claims(p) = {} => Claims(p)' = {}
           /\ \A p \in Pages : p = Here(t) =>
                 /\ Claims(p) # {} /\ count[p] > 0
                 /\ count[p] = 1 => Claims(p)' = {} /\ ScanOwes(p) = 0
<1>0. PICK p : p = Here(t)
  OBVIOUS
<1>1. /\ \A u \in Tasks \ {t} : Owing(u)' = Owing(u)
      /\ p \in Pages /\ p \in Owing(t) /\ Owing(t)' = Owing(t) \ {p}
      /\ hold' = hold /\ lost' = lost
  BY <1>0, OwingContinue, TaskFrame DEF Continue
<1>2. refs' = refs /\ count' = [count EXCEPT ![p] = count[p] - 1]
  BY <1>0 DEF Put, userVars
<1>3. PICK o : o = Owers(p) \ {t}
  OBVIOUS
<1>4. PICK r : r = RefsTo(p)
  OBVIOUS
<1>5. Owers(p) = o \cup {t} /\ t \notin o /\ Owers(p)' = o
  BY <1>1, <1>3 DEF Owers
<1>6. Claims(p) = ClaimSet(o \cup {t}, r) /\ Claims(p)' = ClaimSet(o, r)
  <2>1. RefsTo(p)' = r
    BY <1>2, <1>4 DEF RefsTo
  <2> QED
    BY <1>4, <1>5, <2>1, ClaimsOf DEF Claims, Owers, RefsTo, ClaimSet
<1>7. Cardinality(Claims(p)) = Cardinality(Claims(p)') + 1 /\ Cardinality(Claims(p)') \in Nat
  BY <1>5, <1>6, OwedMore, ClaimsFinite
<1>8. count[p] = ScanOwes(p) + Cardinality(Claims(p)) /\ ScanOwes(p) \in 0..1
  BY <1>1 DEF RefsExact, ScanOwes
<1>9. ASSUME NEW q \in Pages PROVE (count[q] = ScanOwes(q) + Cardinality(Claims(q)))'
  <2>1. ScanOwes(q)' = ScanOwes(q)
    BY <1>1 DEF ScanOwes
  <2>2. CASE q = p
    <3>1. count'[p] = count[p] - 1
      BY <1>1, <1>2 DEF Base, Typed, TypedPages
    <3> QED
      BY <1>7, <1>8, <2>1, <2>2, <3>1
  <2>3. CASE q # p
    <3>1. Claims(q)' = Claims(q)
      BY <1>1, <1>2, <2>3, SameClaims
    <3>2. count'[q] = count[q]
      BY <1>2, <2>3 DEF Base, Typed, TypedPages
    <3> QED
      BY <2>1, <3>1, <3>2 DEF RefsExact
  <2> QED
    BY <2>2, <2>3
<1>10. ASSUME NEW q \in Pages, Claims(q) = {} PROVE Claims(q)' = {}
  <2>1. q # p
    BY <1>1, <1>10, NoClaims
  <2> QED
    BY <1>1, <1>2, <1>10, <2>1, SameClaims
<1>11. Claims(p) # {} /\ count[p] > 0
  BY <1>1, <1>7, <1>8, NoClaims
<1>12. count[p] = 1 => Claims(p)' = {} /\ ScanOwes(p) = 0
  <2>1. count[p] = 1 => Cardinality(Claims(p)') = 0 /\ ScanOwes(p) = 0
    BY <1>7, <1>8
  <2>2. Cardinality(ClaimSet(o, r)) = 0 => ClaimSet(o, r) = {}
    BY ClaimsFinite, FS_EmptySet
  <2> QED
    BY <1>6, <2>1, <2>2
<1> QED
  BY <1>0, <1>9, <1>10, <1>11, <1>12 DEF RefsExact

\* The other steps of a task change no reference.
LEMMA RefsOther ==
    ASSUME Base, RefsExact, NEW t \in Tasks, Continue(t), ~Put(t)
    PROVE  RefsExact' /\ \A p \in Pages : Claims(p)' = Claims(p)
<1>1. /\ \A u \in Tasks : Owing(u)' = Owing(u)
      /\ hold' = hold /\ lost' = lost
  BY OwingContinue, TaskFrame
<1>2. count' = count /\ refs' = refs
  BY DEF Continue, LeaveZone, EnterZone, AddPage, AddEnds, Unlist, FreeVec, ReleaseEnds, pageVars, userVars
<1>3. \A p \in Pages : Claims(p)' = Claims(p)
  BY <1>1, <1>2, SameClaims
<1>4. \A p \in Pages : ScanOwes(p)' = ScanOwes(p)
  BY <1>1 DEF ScanOwes
<1> QED
  BY <1>2, <1>3, <1>4 DEF RefsExact

\* A scan's reference goes with the page in its hands, and stays with those that it loses.
LEMMA RefsScan ==
    ASSUME Base, OnLists, RefsExact, ScanSteps
    PROVE  RefsExact' /\ \A p \in Pages : Claims(p)' = Claims(p)
<1>0. count \in [Pages -> Int]
  BY DEF Base, Typed, TypedPages
<1>1. /\ vec' = vec /\ todo' = todo /\ refs' = refs /\ \A t \in Tasks : pc'[t] = pc[t]
  BY ScanFrame DEF batchVars, userVars
<1>2. \A t \in Tasks : Owing(t)' = Owing(t)
  BY <1>1 DEF Owing
<1>3. \A p \in Pages : Claims(p)' = Claims(p)
  BY <1>1, <1>2, SameClaims
<1>4. \A p \in Pages : Cardinality(Claims(p)) \in Nat /\ count[p] = ScanOwes(p) + Cardinality(Claims(p))
  BY NoClaims DEF RefsExact
<1>5. ASSUME NEW z \in Zones, ScanLock(z) PROVE RefsExact'
  BY <1>3, <1>5 DEF ScanLock, pageVars, RefsExact, ScanOwes
<1>6. ASSUME Isolate PROVE RefsExact'
  <2>1. PICK o \in Pages : o = Oldest
    BY <1>6, OldestParts
  <2>2. /\ count' = [count EXCEPT ![o] = count[o] + 1] /\ lost' = lost /\ hold' = <<o>> \o hold
    BY <1>6, <2>1 DEF Isolate
  <2>3. o \notin lost /\ o \notin ToSet(hold)
    BY <1>6, <2>1, OldestParts
  <2>4. ToSet(hold') = ToSet(hold) \cup {o}
    BY <2>2, Pushed DEF Base, Typed, TypedScan
  <2>5. ASSUME NEW p \in Pages PROVE count'[p] = ScanOwes(p)' + Cardinality(Claims(p))
    <3>1. CASE p = o
      <4>1. ScanOwes(p) = 0 /\ ScanOwes(p)' = 1
        BY <2>2, <2>3, <2>4, <3>1 DEF ScanOwes
      <4> QED
        BY <1>0, <1>4, <2>2, <3>1, <4>1
    <3>2. CASE p # o
      <4>1. ScanOwes(p)' = ScanOwes(p)
        BY <2>2, <2>4, <3>2 DEF ScanOwes
      <4> QED
        BY <1>0, <1>4, <2>2, <3>2, <4>1
    <3> QED
      BY <3>1, <3>2
  <2> QED
    BY <1>3, <2>5 DEF RefsExact
<1>7. ASSUME GiveBack PROVE RefsExact'
  <2>1. PICK o \in Pages : o = Head(hold)
    BY <1>7, HeadParts
  <2>2. /\ count' = [count EXCEPT ![o] = count[o] - 1] /\ lost' = lost
        /\ o \notin lost /\ o \in ToSet(hold) /\ ToSet(hold') = ToSet(hold) \ {o}
    BY <1>7, <2>1, HeadParts DEF GiveBack
  <2>3. ASSUME NEW p \in Pages PROVE count'[p] = ScanOwes(p)' + Cardinality(Claims(p))
    <3>1. CASE p = o
      <4>1. ScanOwes(p) = 1 /\ ScanOwes(p)' = 0
        BY <2>2, <3>1 DEF ScanOwes
      <4> QED
        BY <1>0, <1>4, <2>2, <3>1, <4>1
    <3>2. CASE p # o
      <4>1. ScanOwes(p)' = ScanOwes(p)
        BY <2>2, <3>2 DEF ScanOwes
      <4> QED
        BY <1>0, <1>4, <2>2, <3>2, <4>1
    <3> QED
      BY <3>1, <3>2
  <2> QED
    BY <1>3, <2>3 DEF RefsExact
<1>8. ASSUME IsolateEnds PROVE RefsExact'
  <2>1. count' = count /\ lost' = lost \cup ToSet(hold) /\ ToSet(hold') = {}
    BY <1>8, EmptyParts DEF IsolateEnds, pageVars
  <2>2. \A p \in Pages : ScanOwes(p)' = ScanOwes(p)
    BY <2>1 DEF ScanOwes
  <2> QED
    BY <1>3, <2>1, <2>2 DEF RefsExact
<1> QED
  BY <1>3, <1>5, <1>6, <1>7, <1>8 DEF ScanSteps, ScanGoesOn

(****************************************************************************)
(* The pages that are on no list yet and those that are on none any more.   *)
(****************************************************************************)
Adding(t) == IF pc[t] = "add" THEN ToSet(vec[t]) ELSE {}
New(t) == fresh[t] \cup Adding(t)

\* A page that a task got and has not added is the task's alone to add, and unflagged.
NewPages ==
    \A t \in Tasks :
        /\ fresh[t] \cap Adding(t) = {}
        /\ \A p \in New(t) : p \notin lruFlag /\ p \notin activeFlag
        /\ \A p \in fresh[t] : refs[t][p] > 0
        /\ \A u \in Tasks : u # t => New(t) \cap New(u) = {}

\* A page that is free, or that a task has in hand to free, has no reference and no flag.
Unused(p) == count[p] = 0 /\ p \notin lruFlag /\ p \notin activeFlag

FreePages ==
    /\ \A p \in free : Unused(p)
    /\ \A t \in Tasks :
          /\ IsInjective(toFree[t])
          /\ \A p \in ToSet(toFree[t]) : Unused(p) /\ p \notin free
          /\ \A u \in Tasks : u # t => ToSet(toFree[t]) \cap ToSet(toFree[u]) = {}

\* A page whose last reference a task has dropped, and that it is about to take off its list,
\* is nobody else's.
Unclaimed(p) == Claims(p) = {} /\ p \notin free /\ \A u \in Tasks : p \notin ToSet(toFree[u])

LastPuts ==
    \A t \in Tasks : pc[t] = "unlist" =>
        /\ Unclaimed(Here(t))
        /\ \A u \in Tasks : u # t /\ pc[u] = "unlist" => Here(u) # Here(t)

Inv == Base /\ OnLists /\ RefsExact /\ NewPages /\ FreePages /\ LastPuts

LEMMA InvInit == Init => Inv
<1> SUFFICES ASSUME Init PROVE Inv
  OBVIOUS
<1>1. NewPages
  BY Constants DEF Init, NewPages, New, Adding
<1>2. FreePages
  BY EmptyParts DEF Init, FreePages, Unused
<1>3. LastPuts
  BY Constants DEF Init, LastPuts
<1> QED
  BY <1>1, <1>2, <1>3, BaseInit, ListsInit, RefsInit DEF Inv

\* Who has a page that is new has a reference to it or owes one.
LEMMA NewClaimed ==
    ASSUME Inv, NEW t \in Tasks, NEW p \in New(t)
    PROVE  p \in Pages /\ Claims(p) # {} /\ count[p] > 0 /\ p \notin lruFlag /\ p \notin activeFlag
<1>1. p \in Pages
  <2>1. vec[t] \in Seq(Pages) /\ fresh[t] \subseteq Pages
    BY DEF Inv, Base, Typed, TypedTasks
  <2> QED
    BY <2>1, SeqParts DEF New, Adding
<1>2. Claims(p) # {}
  <2>1. CASE p \in fresh[t]
    BY <1>1, <2>1, NoClaims DEF Inv, NewPages
  <2>2. CASE p \in Adding(t)
    <3>1. pc[t] = "add" /\ p \in ToSet(todo[t])
      BY <2>2 DEF Adding, Inv, Base, Vectors
    <3>2. p \in Owing(t)
      BY <3>1 DEF Owing
    <3> QED
      BY <1>1, <3>2, NoClaims DEF Inv
  <2> QED
    BY <2>1, <2>2 DEF New
<1>3. count[p] > 0
  <2>1. count[p] = ScanOwes(p) + Cardinality(Claims(p)) /\ ScanOwes(p) \in 0..1
    BY <1>1 DEF Inv, RefsExact, ScanOwes
  <2>2. Cardinality(Claims(p)) \in Nat /\ Cardinality(Claims(p)) # 0
    BY <1>1, <1>2, NoClaims DEF Inv
  <2> QED
    BY <2>1, <2>2
<1> QED
  BY <1>1, <1>2, <1>3 DEF Inv, NewPages

\* A page with no reference is nobody's, and on a list if it is active.
LEMMA UnusedUnclaimed ==
    ASSUME Inv, NEW p \in Pages, count[p] = 0
    PROVE  Claims(p) = {} /\ p \notin lost /\ p \notin ToSet(hold) /\ (p \in activeFlag => p \in lruFlag)
<1>1. count[p] = ScanOwes(p) + Cardinality(Claims(p)) /\ ScanOwes(p) \in 0..1
  BY DEF Inv, RefsExact, ScanOwes
<1>2. Cardinality(Claims(p)) \in Nat
  BY NoClaims DEF Inv
<1>3. Cardinality(Claims(p)) = 0 /\ ScanOwes(p) = 0
  BY <1>1, <1>2
<1>4. Claims(p) = {}
  BY <1>3, NoClaims DEF Inv
<1>5. p \notin lost /\ p \notin ToSet(hold)
  BY <1>3 DEF ScanOwes
<1> QED
  BY <1>4, <1>5 DEF Inv, OnLists, Taken

(****************************************************************************)
(* New pages.                                                               *)
(****************************************************************************)
\* Fewer new pages, unflagged as before.
LEMMA NewFewer ==
    ASSUME NewPages,
           \A u \in Tasks :
              /\ fresh'[u] \subseteq fresh[u] /\ New(u)' \subseteq New(u)
              /\ fresh'[u] \cap Adding(u)' = {}
              /\ \A p \in fresh'[u] : refs'[u][p] = refs[u][p]
              /\ \A p \in New(u)' : p \notin lruFlag' /\ p \notin activeFlag'
    PROVE  NewPages'
BY DEF NewPages

LEMMA NewCall ==
    ASSUME Inv, NEW t \in Tasks, Call(t)
    PROVE  NewPages'
<1>0. /\ refs \in [Tasks -> [Pages -> 0..MaxRefs]] /\ fresh \in [Tasks -> SUBSET Pages]
      /\ pc \in [Contexts -> Turns \cup {"isolate", "give_back"}] /\ t \in Contexts
      /\ vec \in [Tasks -> Seq(Pages)]
      /\ \A u \in Tasks \ {t} : /\ pc'[u] = pc[u] /\ vec'[u] = vec[u]
                               /\ refs'[u] = refs[u] /\ fresh'[u] = fresh[u]
  BY TaskFrame, Constants DEF Inv, Base, Typed, TypedTasks, TypedScan
<1>1. \A u \in Tasks \ {t} : Adding(u)' = Adding(u) /\ New(u)' = New(u)
  BY <1>0 DEF Adding, New
<1>2. pc[t] = "idle" /\ Adding(t) = {}
  BY DEF Call, GetFree, GetRef, LruAdd, ReleasePages, Adding
<1>3. NewPages
  BY DEF Inv
<1>4. lruFlag' = lruFlag /\ activeFlag' = activeFlag
  BY DEF Call, GetFree, GetRef, LruAdd, ReleasePages, pageVars
<1>5. ASSUME NEW p \in Pages, GetFree(t, p) PROVE NewPages'
  <2>1. /\ p \in free /\ Unused(p) /\ fresh'[t] = fresh[t] \cup {p} /\ pc'[t] = "idle"
        /\ refs'[t][p] = 1 /\ \A q \in Pages \ {p} : refs'[t][q] = refs[t][q]
    BY <1>0, <1>2, <1>5 DEF GetFree, Inv, FreePages
  <2>2. \A u \in Tasks : p \notin New(u)
    BY <2>1, NewClaimed DEF Unused
  <2>3. Adding(t)' = {} /\ New(t)' = New(t) \cup {p}
    BY <1>2, <2>1 DEF Adding, New
  <2>4. \A q \in fresh'[t] : refs'[t][q] > 0
    BY <1>0, <1>3, <2>1 DEF NewPages
  <2>5. \A u \in Tasks : fresh'[u] \cap Adding(u)' = {} /\ \A q \in fresh'[u] : refs'[u][q] > 0
    BY <1>0, <1>1, <1>3, <2>3, <2>4 DEF NewPages
  <2>6. \A u \in Tasks : \A q \in New(u)' : q \notin lruFlag' /\ q \notin activeFlag'
    BY <1>1, <1>3, <1>4, <2>1, <2>3 DEF NewPages, Unused
  <2>7. ASSUME NEW u \in Tasks, NEW w \in Tasks, u # w PROVE New(u)' \cap New(w)' = {}
    <3>1. New(u) \cap New(w) = {}
      BY <1>3, <2>7 DEF NewPages
    <3>2. u # t \/ w # t
      BY <2>7
    <3> QED
      BY <1>1, <2>2, <2>3, <2>7, <3>1, <3>2
  <2> QED
    BY <2>5, <2>6, <2>7 DEF NewPages
<1>6. ASSUME NEW p \in Pages, GetRef(t, p) PROVE NewPages'
  <2>1. fresh' = fresh /\ pc' = pc /\ vec' = vec
    BY <1>6 DEF GetRef, batchVars
  <2>2. \A u \in Tasks : Adding(u)' = Adding(u) /\ New(u)' = New(u)
    BY <2>1 DEF Adding, New
  <2>3. \A q \in Pages : refs'[t][q] >= refs[t][q]
    BY <1>0, <1>6, Constants DEF GetRef
  <2>4. ASSUME NEW u \in Tasks, NEW q \in fresh'[u] PROVE refs'[u][q] > 0
    <3>1. refs[u][q] > 0 /\ q \in Pages
      BY <1>0, <1>3, <2>1 DEF NewPages
    <3>2. refs'[u][q] \in 0..MaxRefs /\ refs[u][q] \in 0..MaxRefs
      BY <3>1, BaseTask DEF Inv, Base, Typed, TypedTasks
    <3>3. CASE u = t
      BY <2>3, <3>1, <3>2, <3>3
    <3>4. CASE u # t
      BY <1>0, <3>1, <3>4
    <3> QED
      BY <3>3, <3>4
  <2> QED
    BY <1>3, <1>4, <2>1, <2>2, <2>4 DEF NewPages
<1>7. ASSUME NEW v \in Batches(t), refs' = Owed(t, v), fresh' = [fresh EXCEPT ![t] = fresh[t] \ ToSet(v)]
      PROVE  /\ fresh'[t] = fresh[t] \ ToSet(v)
             /\ \A u \in Tasks : fresh'[u] \subseteq fresh[u] /\ \A p \in fresh'[u] : refs'[u][p] = refs[u][p]
  <2>1. fresh'[t] = fresh[t] \ ToSet(v)
    BY <1>0, <1>7
  <2>2. ASSUME NEW p \in fresh'[t] PROVE refs'[t][p] = refs[t][p]
    <3>1. p \in Pages /\ p \notin ToSet(v)
      BY <1>0, <2>1
    <3>2. refs'[t] = [q \in Pages |-> IF q \in ToSet(v) THEN refs[t][q] - 1 ELSE refs[t][q]]
      BY <1>0, <1>7 DEF Owed
    <3> QED
      BY <3>1, <3>2
  <2> QED
    BY <1>0, <2>1, <2>2
<1>8. ASSUME NEW v \in Batches(t), NEW k \in {"active", "inactive"}, LruAdd(t, v, k) PROVE NewPages'
  <2>1. /\ fresh'[t] = fresh[t] \ ToSet(v) /\ ToSet(v) \subseteq fresh[t]
        /\ \A u \in Tasks : fresh'[u] \subseteq fresh[u] /\ \A p \in fresh'[u] : refs'[u][p] = refs[u][p]
    BY <1>7, <1>8 DEF LruAdd
  <2>2. pc'[t] = "add" /\ vec'[t] = v
    BY <1>0, <1>8 DEF LruAdd, Goto
  <2>3. Adding(t)' = ToSet(v) /\ New(t)' = New(t)
    BY <1>2, <2>1, <2>2 DEF Adding, New
  <2>4. \A u \in Tasks : New(u)' = New(u)
    BY <1>1, <2>3
  <2>5. \A u \in Tasks : fresh'[u] \cap Adding(u)' = {}
    BY <1>0, <1>1, <1>3, <2>1, <2>3 DEF NewPages
  <2> QED
    BY <1>3, <1>4, <2>1, <2>4, <2>5, NewFewer DEF NewPages
<1>9. ASSUME NEW v \in Batches(t), ReleasePages(t, v) PROVE NewPages'
  <2>1. /\ fresh'[t] = fresh[t] \ ToSet(v)
        /\ \A u \in Tasks : fresh'[u] \subseteq fresh[u] /\ \A p \in fresh'[u] : refs'[u][p] = refs[u][p]
    BY <1>7, <1>9 DEF ReleasePages
  <2>2. pc'[t] = "put"
    BY <1>0, <1>9 DEF ReleasePages, Goto
  <2>3. Adding(t)' = {} /\ New(t)' \subseteq New(t)
    BY <2>1, <2>2 DEF Adding, New
  <2>4. \A u \in Tasks : New(u)' \subseteq New(u)
    BY <1>1, <2>3
  <2>5. \A u \in Tasks : fresh'[u] \cap Adding(u)' = {}
    BY <1>0, <1>1, <1>3, <2>3 DEF NewPages
  <2> QED
    BY <1>3, <1>4, <2>1, <2>4, <2>5, NewFewer DEF NewPages
<1> QED
  BY <1>5, <1>6, <1>8, <1>9 DEF Call

LEMMA NewContinue ==
    ASSUME Inv, NEW t \in Tasks, Continue(t)
    PROVE  NewPages'
<1>0. /\ refs' = refs /\ fresh' = fresh /\ NewPages
      /\ pc \in [Contexts -> Turns \cup {"isolate", "give_back"}] /\ t \in Contexts
      /\ vec \in [Tasks -> Seq(Pages)] /\ vec[t] \in Seq(Pages)
      /\ \A u \in Tasks \ {t} : pc'[u] = pc[u] /\ vec'[u] = vec[u]
  BY TaskFrame, Constants DEF Continue, LeaveZone, EnterZone, AddPage, AddEnds, Put, Unlist, FreeVec,
     ReleaseEnds, userVars, Inv, Base, Typed, TypedTasks, TypedScan
<1>1. \A u \in Tasks \ {t} : Adding(u)' = Adding(u) /\ New(u)' = New(u)
  BY <1>0 DEF Adding, New
<1>2. ASSUME AddPage(t) PROVE NewPages'
  <2>1. /\ vec[t] # <<>> /\ pc[t] = "add" /\ pc'[t] = "add" /\ vec'[t] = Tail(vec[t])
        /\ lruFlag' = lruFlag \cup {Here(t)} /\ activeFlag' \subseteq activeFlag \cup {Here(t)}
    BY <1>0, <1>2 DEF AddPage
  <2>2. PICK p : p = Here(t)
    OBVIOUS
  <2>3. p \in Adding(t) /\ Adding(t)' = Adding(t) \ {p}
    BY <2>1, <2>2, HereParts DEF Adding, Inv
  <2>4. p \notin fresh[t] /\ \A u \in Tasks \ {t} : p \notin New(u)
    BY <1>0, <2>3 DEF NewPages, New
  <2>5. \A u \in Tasks : New(u)' \subseteq New(u) /\ p \notin New(u)' /\ Adding(u)' \subseteq Adding(u)
    BY <1>0, <1>1, <2>3, <2>4 DEF New
  <2>6. \A u \in Tasks : \A q \in New(u)' : q \notin lruFlag' /\ q \notin activeFlag'
    BY <1>0, <2>1, <2>2, <2>5 DEF NewPages
  <2>7. \A u \in Tasks : fresh'[u] \cap Adding(u)' = {}
    BY <1>0, <2>5 DEF NewPages
  <2> QED
    BY <1>0, <2>5, <2>6, <2>7, NewFewer
<1>3. ASSUME ~AddPage(t) PROVE NewPages'
  <2>1. lruFlag' \subseteq lruFlag /\ activeFlag' \subseteq activeFlag
    <3>1. ASSUME Unlist(t) PROVE lruFlag' \subseteq lruFlag /\ activeFlag' \subseteq activeFlag
      BY <3>1 DEF Unlist, TakenOff
    <3> QED
      BY <1>3, <3>1 DEF Continue, LeaveZone, EnterZone, AddEnds, Put, FreeVec, ReleaseEnds, pageVars
  <2>2. pc'[t] = "add" => pc[t] = "add" /\ vec'[t] = vec[t]
    <3>1. ASSUME LeaveZone(t) \/ EnterZone(t) PROVE pc' = pc /\ vec' = vec
      BY <3>1 DEF LeaveZone, EnterZone
    <3>2. ASSUME AddEnds(t) \/ Put(t) \/ Unlist(t) PROVE pc'[t] # "add"
      BY <1>0, <3>2 DEF AddEnds, Put, Unlist, Goto
    <3>3. ASSUME FreeVec(t) \/ ReleaseEnds(t) PROVE pc'[t] # "add"
      BY <1>0, <3>3 DEF FreeVec, ReleaseEnds, Goto
    <3> QED
      BY <1>3, <3>1, <3>2, <3>3 DEF Continue
  <2>3. Adding(t)' \subseteq Adding(t)
    BY <2>2 DEF Adding
  <2>4. \A u \in Tasks : Adding(u)' \subseteq Adding(u) /\ New(u)' \subseteq New(u)
    BY <1>0, <1>1, <2>3 DEF New
  <2>5. \A u \in Tasks : fresh'[u] \cap Adding(u)' = {}
    BY <1>0, <2>4 DEF NewPages
  <2>6. \A u \in Tasks : \A q \in New(u)' : q \notin lruFlag' /\ q \notin activeFlag'
    BY <1>0, <2>1, <2>4 DEF NewPages
  <2> QED
    BY <1>0, <2>4, <2>5, <2>6, NewFewer
<1> QED
  BY <1>2, <1>3

LEMMA NewScan ==
    ASSUME Inv, ScanSteps
    PROVE  NewPages'
<1>1. /\ vec' = vec /\ refs' = refs /\ fresh' = fresh /\ activeFlag' = activeFlag
      /\ \A t \in Tasks : pc'[t] = pc[t]
  BY ScanFrame DEF batchVars, userVars, Inv
<1>2. \A t \in Tasks : Adding(t)' = Adding(t) /\ New(t)' = New(t)
  BY <1>1 DEF Adding, New
<1>3. lruFlag' \subseteq lruFlag \cup activeFlag
  <2>1. ASSUME GiveBack PROVE lruFlag' \subseteq lruFlag \cup activeFlag
    <3>1. Head(hold) \in activeFlag
      BY <2>1, HeadParts DEF Inv
    <3> QED
      BY <2>1, <3>1 DEF GiveBack
  <2> QED
    BY <2>1 DEF ScanSteps, ScanGoesOn, ScanLock, Isolate, IsolateEnds, pageVars
<1> QED
  BY <1>1, <1>2, <1>3 DEF Inv, NewPages

(****************************************************************************)
(* Free pages and pages that are about to be freed.                         *)
(****************************************************************************)
\* Nothing is freed, and what changes is no page without references.
LEMMA FreeFewer ==
    ASSUME FreePages, free' \subseteq free, \A u \in Tasks : toFree'[u] = toFree[u],
           \A p \in free' : Unused(p)',
           \A u \in Tasks : \A p \in ToSet(toFree[u]) : Unused(p)'
    PROVE  FreePages'
BY DEF FreePages

LEMMA FreeCall ==
    ASSUME Inv, NEW t \in Tasks, Call(t)
    PROVE  FreePages'
<1>0. FreePages /\ toFree' = toFree /\ lruFlag' = lruFlag /\ activeFlag' = activeFlag
      /\ free \subseteq Pages /\ count \in [Pages -> Int] /\ toFree \in [Tasks -> Seq(Pages)]
  BY DEF Call, GetFree, GetRef, LruAdd, ReleasePages, pageVars, batchVars, Inv, Base, Typed, TypedPages,
         TypedTasks
<1>1. \A u \in Tasks : ToSet(toFree[u]) \subseteq Pages
  BY <1>0, SeqParts
<1>2. ASSUME NEW p \in Pages, GetFree(t, p) PROVE FreePages'
  <2>1. p \in free /\ free' = free \ {p} /\ \A q \in Pages \ {p} : count'[q] = count[q]
    BY <1>0, <1>2 DEF GetFree
  <2>2. \A u \in Tasks : p \notin ToSet(toFree[u])
    BY <1>0, <2>1 DEF FreePages
  <2>3. \A q \in free' : Unused(q)'
    BY <1>0, <2>1 DEF FreePages, Unused
  <2>4. \A u \in Tasks : \A q \in ToSet(toFree[u]) : Unused(q)'
    BY <1>0, <1>1, <2>1, <2>2 DEF FreePages, Unused
  <2> QED
    BY <1>0, <2>1, <2>3, <2>4, FreeFewer
<1>3. ASSUME NEW p \in Pages, GetRef(t, p) PROVE FreePages'
  <2>1. free' = free /\ \A q \in Pages \ {p} : count'[q] = count[q]
    BY <1>0, <1>3 DEF GetRef
  <2>2. PICK u \in Tasks : refs[u][p] > 0
    BY <1>3 DEF GetRef
  <2>3. count[p] # 0
    BY <2>2, UnusedUnclaimed, NoClaims DEF Inv
  <2>4. \A q \in free' : Unused(q)'
    BY <1>0, <2>1, <2>3 DEF FreePages, Unused
  <2>5. \A w \in Tasks : \A q \in ToSet(toFree[w]) : Unused(q)'
    BY <1>0, <1>1, <2>1, <2>3 DEF FreePages, Unused
  <2> QED
    BY <1>0, <2>1, <2>4, <2>5, FreeFewer
<1>4. ASSUME NEW v \in Batches(t),
             ReleasePages(t, v) \/ \E k \in {"active", "inactive"} : LruAdd(t, v, k)
      PROVE  FreePages'
  <2>1. free' = free /\ count' = count
    BY <1>4 DEF ReleasePages, LruAdd, pageVars
  <2> QED
    BY <1>0, <2>1 DEF FreePages, Unused
<1> QED
  BY <1>2, <1>3, <1>4 DEF Call

LEMMA FreeContinue ==
    ASSUME Inv, NEW t \in Tasks, Continue(t), OnLists'
    PROVE  FreePages'
<1>0. FreePages /\ free \subseteq Pages /\ count \in [Pages -> Int] /\ toFree \in [Tasks -> Seq(Pages)]
      /\ toFree[t] \in Seq(Pages) /\ \A u \in Tasks \ {t} : toFree'[u] = toFree[u]
  BY TaskFrame DEF Inv, Base, Typed, TypedPages, TypedTasks
<1>1. \A u \in Tasks : ToSet(toFree[u]) \subseteq Pages
  BY <1>0, SeqParts
<1>2. ASSUME LeaveZone(t) \/ EnterZone(t) \/ AddEnds(t) \/ ReleaseEnds(t) PROVE FreePages'
  <2>1. UNCHANGED <<count, lruFlag, activeFlag, free, toFree>>
    BY <1>2 DEF LeaveZone, EnterZone, AddEnds, ReleaseEnds, pageVars
  <2> QED
    BY <1>0, <2>1 DEF FreePages, Unused
<1>3. ASSUME AddPage(t) PROVE FreePages'
  <2>1. PICK p : p = Here(t)
    OBVIOUS
  <2>2. /\ lruFlag' = lruFlag \cup {p} /\ activeFlag' \subseteq activeFlag \cup {p}
        /\ count' = count /\ free' = free /\ toFree' = toFree
    BY <1>3, <2>1 DEF AddPage
  <2>3. p \in New(t)
    BY <1>3, <2>1, HereParts DEF AddPage, New, Adding, Inv
  <2>4. count[p] # 0
    BY <2>3, NewClaimed
  <2>5. \A q \in free' : Unused(q)'
    BY <1>0, <2>2, <2>4 DEF FreePages, Unused
  <2>6. \A w \in Tasks : \A q \in ToSet(toFree[w]) : Unused(q)'
    BY <1>0, <1>1, <2>2, <2>4 DEF FreePages, Unused
  <2> QED
    BY <1>0, <2>2, <2>5, <2>6, FreeFewer
<1>4. ASSUME Put(t) PROVE FreePages'
  <2>1. PICK p : p = Here(t)
    OBVIOUS
  <2>2. /\ lruFlag' = lruFlag /\ activeFlag' = activeFlag /\ free' = free /\ toFree' = toFree
        /\ \A q \in Pages \ {p} : count'[q] = count[q]
    BY <1>0, <1>4, <2>1 DEF Put
  <2>3. count[p] # 0
    <3>1. p \in Pages
      BY <1>4, <2>1, HereParts DEF Put, Inv
    <3>2. count[p] > 0 /\ count[p] \in Int
      BY <1>0, <1>4, <2>1, <3>1, RefsPut DEF Inv
    <3> QED
      BY <3>2
  <2>4. \A q \in free' : Unused(q)'
    BY <1>0, <2>2, <2>3 DEF FreePages, Unused
  <2>5. \A w \in Tasks : \A q \in ToSet(toFree[w]) : Unused(q)'
    BY <1>0, <1>1, <2>2, <2>3 DEF FreePages, Unused
  <2> QED
    BY <1>0, <2>2, <2>4, <2>5, FreeFewer
<1>5. ASSUME Unlist(t) PROVE FreePages'
  <2>1. PICK p : p = Here(t)
    OBVIOUS
  <2>2. pc[t] = "unlist" /\ p \in Pages
    BY <1>5, <2>1, HereParts DEF Unlist, Inv, Base, Vectors
  <2>3. Unclaimed(p)
    BY <2>1, <2>2 DEF Inv, LastPuts
  <2>4. /\ lruFlag' \subseteq lruFlag /\ activeFlag' \subseteq activeFlag
        /\ count' = count /\ free' = free /\ lost' = lost /\ hold' = hold
    BY <1>5 DEF Unlist, TakenOff, scanVars
  <2>5. /\ \A q \in free' : Unused(q)'
        /\ \A u \in Tasks : \A q \in ToSet(toFree[u]) : Unused(q)' /\ q \notin free'
    BY <1>0, <2>4 DEF FreePages, Unused
  <2>6. CASE count[p] # 0
    <3>1. toFree' = toFree
      BY <1>5, <2>1, <2>6 DEF Unlist
    <3> QED
      BY <1>0, <2>4, <2>5, <3>1, FreeFewer
  <2>7. CASE count[p] = 0
    <3>1. toFree'[t] = Append(toFree[t], p)
      BY <1>0, <1>5, <2>1, <2>7 DEF Unlist
    <3>2. p \notin ToSet(toFree[t]) /\ IsInjective(toFree[t])
      BY <1>0, <2>3 DEF Unclaimed, FreePages
    <3>3. IsInjective(toFree'[t]) /\ ToSet(toFree'[t]) = ToSet(toFree[t]) \cup {p}
      BY <1>0, <2>2, <3>1, <3>2, Appended
    <3>4. Unused(p)' /\ p \notin free'
      <4>1. p \notin lost' /\ p \notin ToSet(hold')
        BY <2>2, <2>4, <2>7, UnusedUnclaimed
      <4>2. p \notin lruFlag'
        <5>1. \A q \in Pages : q = Here(t) => q \notin lruFlag'
          BY <1>5 DEF Unlist, TakenOff
        <5> QED
          BY <2>1, <2>2, <5>1
      <4>3. p \notin activeFlag'
        BY <2>2, <4>1, <4>2 DEF OnLists, Taken
      <4> QED
        BY <2>3, <2>4, <2>7, <4>2, <4>3 DEF Unused, Unclaimed
    <3>5. ASSUME NEW u \in Tasks
          PROVE  IsInjective(toFree'[u]) /\ \A q \in ToSet(toFree'[u]) : Unused(q)' /\ q \notin free'
      <4>1. CASE u = t
        BY <2>5, <3>3, <3>4, <4>1
      <4>2. CASE u # t
        BY <1>0, <2>5, <4>2 DEF FreePages
      <4> QED
        BY <4>1, <4>2
    <3>6. ASSUME NEW u \in Tasks, NEW w \in Tasks, u # w
          PROVE  ToSet(toFree'[u]) \cap ToSet(toFree'[w]) = {}
      <4>1. /\ ToSet(toFree[u]) \cap ToSet(toFree[w]) = {}
            /\ p \notin ToSet(toFree[u]) /\ p \notin ToSet(toFree[w])
        BY <1>0, <2>3, <3>6 DEF FreePages, Unclaimed
      <4>2. u # t => toFree'[u] = toFree[u]
        BY <1>0
      <4>3. w # t => toFree'[w] = toFree[w]
        BY <1>0
      <4> QED
        BY <3>3, <3>6, <4>1, <4>2, <4>3
    <3> QED
      BY <2>5, <3>5, <3>6 DEF FreePages
  <2> QED
    BY <2>6, <2>7
<1>6. ASSUME FreeVec(t) PROVE FreePages'
  <2>1. PICK p : p = Last(toFree[t])
    OBVIOUS
  <2>2. toFree[t] # <<>> /\ IsInjective(toFree[t])
    BY <1>6 DEF FreeVec, Inv, Base, Vectors, FreePages
  <2>3. /\ free' = free \cup {p} /\ toFree'[t] = Front(toFree[t])
        /\ UNCHANGED <<count, lruFlag, activeFlag>>
    BY <1>0, <1>6, <2>1 DEF FreeVec, pageVars
  <2>4. p \in ToSet(toFree[t]) /\ IsInjective(toFree'[t]) /\ ToSet(toFree'[t]) = ToSet(toFree[t]) \ {p}
    <3>1. toFree[t] \in Seq(Pages)
      BY <1>0
    <3> QED
      BY <2>1, <2>2, <2>3, <3>1, FrontParts
  <2>5. \A u \in Tasks : p \notin ToSet(toFree'[u]) /\ ToSet(toFree'[u]) \subseteq ToSet(toFree[u])
    BY <1>0, <2>4 DEF FreePages
  <2>6. \A q \in free' : Unused(q)'
    BY <1>0, <2>3, <2>4 DEF FreePages, Unused
  <2>7. ASSUME NEW u \in Tasks
        PROVE  IsInjective(toFree'[u]) /\ \A q \in ToSet(toFree'[u]) : Unused(q)' /\ q \notin free'
    <3>1. IsInjective(toFree'[u])
      BY <1>0, <2>4 DEF FreePages
    <3>2. \A q \in ToSet(toFree'[u]) : Unused(q) /\ q \notin free /\ q # p
      BY <1>0, <2>5 DEF FreePages
    <3> QED
      BY <2>3, <3>1, <3>2 DEF Unused
  <2>8. \A u, w \in Tasks : u # w => ToSet(toFree'[u]) \cap ToSet(toFree'[w]) = {}
    BY <1>0, <2>5 DEF FreePages
  <2> QED
    BY <2>6, <2>7, <2>8 DEF FreePages
<1> QED
  BY <1>2, <1>3, <1>4, <1>5, <1>6 DEF Continue

LEMMA FreeScan ==
    ASSUME Inv, ScanSteps
    PROVE  FreePages'
<1>0. FreePages /\ toFree' = toFree /\ free' = free /\ activeFlag' = activeFlag
      /\ free \subseteq Pages /\ count \in [Pages -> Int] /\ toFree \in [Tasks -> Seq(Pages)]
  BY ScanFrame DEF Inv, Base, Typed, TypedPages, TypedTasks, batchVars
<1>1. \A u \in Tasks : ToSet(toFree[u]) \subseteq Pages
  BY <1>0, SeqParts
<1>2. ASSUME NEW p \in Pages, Unused(p) PROVE Unused(p)'
  <2>1. ASSUME NEW z \in Zones, ScanLock(z) PROVE Unused(p)'
    BY <1>2, <2>1 DEF ScanLock, pageVars, Unused
  <2>2. ASSUME Isolate PROVE Unused(p)'
    <3>1. PICK o \in Pages : o = Oldest
      BY <2>2, OldestParts DEF Inv
    <3>2. o # p
      BY <1>2, <2>2, <3>1, OldestParts DEF Inv, Unused
    <3>3. lruFlag' = lruFlag \ {o} /\ count' = [count EXCEPT ![o] = count[o] + 1]
      BY <2>2, <3>1 DEF Isolate
    <3> QED
      BY <1>0, <1>2, <3>2, <3>3 DEF Unused
  <2>3. ASSUME GiveBack PROVE Unused(p)'
    <3>1. PICK o \in Pages : o = Head(hold)
      BY <2>3, HeadParts DEF Inv
    <3>2. o # p
      BY <1>2, <2>3, <3>1, HeadParts DEF Inv, Unused
    <3>3. lruFlag' = lruFlag \cup {o} /\ count' = [count EXCEPT ![o] = count[o] - 1]
      BY <2>3, <3>1 DEF GiveBack
    <3> QED
      BY <1>0, <1>2, <3>2, <3>3 DEF Unused
  <2>4. ASSUME IsolateEnds PROVE Unused(p)'
    BY <1>2, <2>4 DEF IsolateEnds, pageVars, Unused
  <2> QED
    BY <2>1, <2>2, <2>3, <2>4 DEF ScanSteps, ScanGoesOn
<1>3. \A p \in free' : Unused(p)'
  BY <1>0, <1>2 DEF FreePages
<1>4. \A u \in Tasks : \A p \in ToSet(toFree[u]) : Unused(p)'
  BY <1>0, <1>1, <1>2 DEF FreePages
<1> QED
  BY <1>0, <1>3, <1>4, FreeFewer

(****************************************************************************)
(* Pages whose last reference is gone.                                      *)
(****************************************************************************)
LEMMA LastCall ==
    ASSUME Inv, NEW t \in Tasks, Call(t)
    PROVE  LastPuts'
<1>0. /\ pc \in [Contexts -> Turns \cup {"isolate", "give_back"}] /\ t \in Contexts
      /\ \A u \in Tasks \ {t} : pc'[u] = pc[u] /\ vec'[u] = vec[u]
  BY TaskFrame, Constants DEF Inv, Base, Typed, TypedScan
<1>1. pc'[t] # "unlist" /\ free' \subseteq free /\ toFree' = toFree
  BY <1>0 DEF Call, GetFree, GetRef, LruAdd, ReleasePages, Goto, batchVars
<1>2. ASSUME NEW p \in Pages, Claims(p) = {}, p \notin free PROVE Claims(p)' = {}
  <2>1. /\ \A u \in Tasks \ {t} : Owing(u)' = Owing(u)
        /\ \A u \in Tasks \ {t} : refs'[u] = refs[u]
    BY OwingCall, TaskFrame DEF Inv
  <2>2. ASSUME NEW q \in Pages, GetFree(t, q) \/ GetRef(t, q) PROVE Claims(p)' = {}
    <3>1. q # p
      <4>1. GetFree(t, q) => q \in free
        BY DEF GetFree
      <4>2. GetRef(t, q) => Claims(q) # {}
        BY NoClaims DEF GetRef, Inv
      <4> QED
        BY <1>2, <2>2, <4>1, <4>2
    <3>2. refs'[t][p] = refs[t][p]
      BY <2>2, <3>1 DEF GetFree, GetRef, Inv, Base, Typed, TypedTasks
    <3>3. Owing(t)' = Owing(t)
      BY <2>2 DEF GetFree, GetRef, batchVars, Owing
    <3> QED
      BY <1>2, <2>1, <3>2, <3>3, SameClaims
  <2>3. ASSUME NEW v \in Batches(t),
               ReleasePages(t, v) \/ \E k \in {"active", "inactive"} : LruAdd(t, v, k)
        PROVE  Claims(p)' = {}
    <3>1. refs' = Owed(t, v) /\ count' = count
      BY <2>3 DEF ReleasePages, LruAdd, pageVars
    <3>2. \/ pc'[t] = "put" /\ vec'[t] = v
          \/ pc'[t] = "add" /\ todo'[t] = v
      BY <1>0, <2>3 DEF ReleasePages, LruAdd, Goto, Inv, Base, Typed, TypedTasks
    <3>3. Owing(t)' = ToSet(v)
      BY <3>2, OwingCall DEF Inv
    <3> QED
      BY <1>2, <3>1, <3>3, RefsBatch DEF Inv
  <2> QED
    BY <2>2, <2>3 DEF Call
<1>3. ASSUME NEW u \in Tasks, pc'[u] = "unlist"
      PROVE  u # t /\ pc[u] = "unlist" /\ Here(u)' = Here(u) /\ \A p \in Pages : p = Here(u) => Unclaimed(p)'
  <2>1. u # t /\ pc[u] = "unlist" /\ Here(u)' = Here(u)
    BY <1>0, <1>1, <1>3 DEF Here
  <2>2. ASSUME NEW p \in Pages, p = Here(u) PROVE Unclaimed(p)'
    <3>1. Unclaimed(p)
      BY <2>1, <2>2 DEF Inv, LastPuts
    <3> QED
      BY <1>1, <1>2, <3>1 DEF Unclaimed
  <2> QED
    BY <2>1, <2>2
<1>4. ASSUME NEW u \in Tasks, pc'[u] = "unlist" PROVE Unclaimed(Here(u))'
  <2>1. PICK p \in Pages : p = Here(u)
    BY <1>3, <1>4, HereParts DEF Inv, Base, Vectors
  <2>2. Unclaimed(p)' /\ p = Here(u)'
    BY <1>3, <1>4, <2>1
  <2> QED
    BY <2>2 DEF Unclaimed, Claims
<1>5. ASSUME NEW u \in Tasks, NEW w \in Tasks, pc'[u] = "unlist", pc'[w] = "unlist", u # w
      PROVE  Here(u)' # Here(w)'
  BY <1>3, <1>5 DEF Inv, LastPuts
<1> QED
  BY <1>4, <1>5 DEF LastPuts

LEMMA LastContinue ==
    ASSUME Inv, NEW t \in Tasks, Continue(t)
    PROVE  LastPuts'
<1>0. /\ pc \in [Contexts -> Turns \cup {"isolate", "give_back"}] /\ t \in Contexts
      /\ toFree \in [Tasks -> Seq(Pages)] /\ toFree[t] \in Seq(Pages) /\ vec \in [Tasks -> Seq(Pages)]
      /\ \A u \in Tasks \ {t} : pc'[u] = pc[u] /\ vec'[u] = vec[u] /\ toFree'[u] = toFree[u]
  BY TaskFrame, Constants DEF Inv, Base, Typed, TypedScan, TypedTasks
<1>1. \A p \in Pages : Claims(p) = {} => Claims(p)' = {}
  BY RefsPut, RefsOther DEF Inv
<1>2. ASSUME NEW u \in Tasks \ {t}, pc'[u] = "unlist"
      PROVE  pc[u] = "unlist" /\ Here(u)' = Here(u)
  BY <1>0, <1>2 DEF Here
\* A page that t frees, or is to free, was its own.
<1>3. ASSUME NEW p \in Pages, Unclaimed(p), ~(Unlist(t) /\ p = Here(t)) PROVE Unclaimed(p)'
  <2>1. ASSUME LeaveZone(t) \/ EnterZone(t) \/ AddPage(t) \/ AddEnds(t) \/ Put(t) \/ ReleaseEnds(t)
        PROVE  free' = free /\ toFree' = toFree
    BY <2>1 DEF LeaveZone, EnterZone, AddPage, AddEnds, Put, ReleaseEnds
  <2>2. ASSUME Unlist(t)
        PROVE  free' = free /\ \A u \in Tasks : ToSet(toFree'[u]) \subseteq ToSet(toFree[u]) \cup {Here(t)}
    <3>1. Here(t) \in Pages /\ free' = free
      BY <2>2, HereParts DEF Unlist, Inv, Base, Vectors
    <3>2. ToSet(Append(toFree[t], Here(t))) = ToSet(toFree[t]) \cup {Here(t)}
      BY <1>0, <3>1, Appended
    <3>3. toFree'[t] = toFree[t] \/ toFree'[t] = Append(toFree[t], Here(t))
      BY <1>0, <2>2 DEF Unlist
    <3> QED
      BY <1>0, <3>1, <3>2, <3>3
  <2>3. ASSUME FreeVec(t)
        PROVE  /\ free' = free \cup {Last(toFree[t])} /\ Last(toFree[t]) \in ToSet(toFree[t])
               /\ \A u \in Tasks : ToSet(toFree'[u]) \subseteq ToSet(toFree[u])
    <3>1. toFree[t] # <<>> /\ IsInjective(toFree[t]) /\ toFree[t] \in Seq(Pages)
      BY <1>0, <2>3 DEF FreeVec, Inv, Base, Vectors, FreePages
    <3>2. Last(toFree[t]) \in ToSet(toFree[t]) /\ ToSet(Front(toFree[t])) \subseteq ToSet(toFree[t])
      BY <3>1, FrontParts
    <3>3. toFree'[t] = Front(toFree[t]) /\ free' = free \cup {Last(toFree[t])}
      BY <1>0, <2>3 DEF FreeVec
    <3> QED
      BY <1>0, <3>2, <3>3
  <2>4. p \notin free'
    BY <1>3, <2>1, <2>2, <2>3 DEF Unclaimed, Continue
  <2>5. \A u \in Tasks : p \notin ToSet(toFree'[u])
    BY <1>3, <2>1, <2>2, <2>3 DEF Unclaimed, Continue
  <2> QED
    BY <1>1, <1>3, <2>4, <2>5 DEF Unclaimed
\* What t comes to take off its list.
<1>4. ASSUME pc'[t] = "unlist"
      PROVE  /\ Here(t)' = Here(t) /\ ~Unlist(t)
             /\ \A p \in Pages : p = Here(t) => Unclaimed(p)'
             /\ \A u \in Tasks \ {t} : pc'[u] = "unlist" => Here(u)' # Here(t)
  <2>1. ASSUME LeaveZone(t) \/ EnterZone(t) PROVE pc[t] = "unlist" /\ vec'[t] = vec[t] /\ ~Unlist(t)
    <3>1. pc' = pc /\ vec' = vec
      BY <2>1 DEF LeaveZone, EnterZone
    <3>2. ~Unlist(t)
      BY <1>0, <1>4 DEF Unlist, Goto
    <3> QED
      BY <1>4, <3>1, <3>2
  <2>2. ASSUME AddPage(t) \/ AddEnds(t) PROVE FALSE
    BY <1>0, <1>4, <2>2 DEF AddPage, AddEnds, Goto
  <2>3. ASSUME Unlist(t) PROVE FALSE
    BY <1>0, <1>4, <2>3 DEF Unlist, Goto
  <2>4. ASSUME FreeVec(t) \/ ReleaseEnds(t) PROVE FALSE
    BY <1>0, <1>4, <2>4 DEF FreeVec, ReleaseEnds, Goto
  <2>5. CASE LeaveZone(t) \/ EnterZone(t)
    <3>1. pc[t] = "unlist" /\ Here(t)' = Here(t) /\ ~Unlist(t)
      BY <2>1, <2>5 DEF Here
    <3>2. \A p \in Pages : p = Here(t) => Unclaimed(p)'
      BY <1>3, <3>1 DEF Inv, LastPuts
    <3>3. \A u \in Tasks \ {t} : pc'[u] = "unlist" => Here(u)' # Here(t)
      BY <1>2, <3>1 DEF Inv, LastPuts
    <3> QED
      BY <3>1, <3>2, <3>3
  <2>6. CASE Put(t)
    <3>1. PICK p \in Pages : p = Here(t)
      BY <2>6, HereParts DEF Put, Inv
    <3>2. count[p] = 1 /\ vec' = vec /\ Here(t)' = Here(t) /\ free' = free /\ toFree' = toFree
      BY <1>0, <1>4, <2>6, <3>1 DEF Put, Here
    <3>3. Claims(p)' = {} /\ Claims(p) # {}
      BY <2>6, <3>1, <3>2, RefsPut DEF Inv
    <3>4. p \notin free /\ \A u \in Tasks : p \notin ToSet(toFree[u])
      BY <3>2 DEF Inv, FreePages, Unused
    <3>5. Unclaimed(p)'
      BY <3>2, <3>3, <3>4 DEF Unclaimed
    <3>6. ASSUME NEW u \in Tasks \ {t}, pc'[u] = "unlist" PROVE Here(u)' # Here(t)
      <4>1. Here(u)' = Here(u) /\ Claims(Here(u)) = {}
        BY <1>2, <3>6 DEF Inv, LastPuts, Unclaimed
      <4> QED
        BY <3>1, <3>3, <4>1
    <3> QED
      BY <2>3, <3>1, <3>2, <3>5, <3>6
  <2> QED
    BY <2>2, <2>3, <2>4, <2>5, <2>6 DEF Continue
<1>5. ASSUME NEW u \in Tasks \ {t}, pc'[u] = "unlist"
      PROVE  \A p \in Pages : p = Here(u) => Unclaimed(p)'
  <2>1. ASSUME Unlist(t) PROVE Here(u) # Here(t)
    BY <1>2, <1>5, <2>1 DEF Unlist, Inv, LastPuts
  <2>2. Unclaimed(Here(u))
    BY <1>2, <1>5 DEF Inv, LastPuts
  <2> QED
    BY <1>3, <2>1, <2>2
<1>6. ASSUME NEW u \in Tasks, pc'[u] = "unlist" PROVE Unclaimed(Here(u))'
  <2>1. Here(u)' = Here(u)
    BY <1>2, <1>4, <1>6
  <2>2. vec'[u] # <<>> /\ Base'
    BY <1>6, BaseTask DEF Inv, Base, Vectors
  <2>3. Here(u)' \in Pages
    BY <2>2, TailParts DEF Here, Base, Typed, TypedTasks
  <2>4. PICK p \in Pages : p = Here(u)
    BY <2>1, <2>3
  <2>5. Unclaimed(p)' /\ p = Here(u)'
    BY <1>4, <1>5, <1>6, <2>1, <2>4
  <2> QED
    BY <2>5 DEF Unclaimed, Claims
<1>7. ASSUME NEW u \in Tasks, NEW w \in Tasks, pc'[u] = "unlist", pc'[w] = "unlist", u # w
      PROVE  Here(u)' # Here(w)'
  <2>1. CASE u # t /\ w # t
    <3>1. pc[u] = "unlist" /\ pc[w] = "unlist" /\ Here(u)' = Here(u) /\ Here(w)' = Here(w)
      BY <1>2, <1>7, <2>1
    <3> QED
      BY <1>7, <3>1 DEF Inv, LastPuts
  <2>2. CASE u = t
    BY <1>4, <1>7, <2>2
  <2>3. CASE w = t
    BY <1>4, <1>7, <2>3
  <2> QED
    BY <2>1, <2>2, <2>3
<1> QED
  BY <1>6, <1>7 DEF LastPuts

LEMMA LastScan ==
    ASSUME Inv, ScanSteps
    PROVE  LastPuts'
<1>1. /\ vec' = vec /\ toFree' = toFree /\ free' = free /\ \A t \in Tasks : pc'[t] = pc[t]
  BY ScanFrame DEF batchVars, Inv
<1>2. \A p \in Pages : Claims(p)' = Claims(p)
  BY RefsScan DEF Inv
<1>3. \A t \in Tasks : Here(t)' = Here(t)
  BY <1>1 DEF Here
<1>4. ASSUME NEW t \in Tasks, pc'[t] = "unlist" PROVE Unclaimed(Here(t))'
  <2>1. PICK p \in Pages : p = Here(t)
    BY <1>1, <1>4, HereParts DEF Inv, Base, Vectors
  <2>2. Unclaimed(p)
    BY <1>1, <1>4, <2>1 DEF Inv, LastPuts
  <2>3. Unclaimed(p)' /\ p = Here(t)'
    BY <1>1, <1>2, <1>3, <2>1, <2>2 DEF Unclaimed
  <2> QED
    BY <2>3 DEF Unclaimed, Claims
<1>5. \A t, u \in Tasks : (u # t /\ pc'[t] = "unlist" /\ pc'[u] = "unlist") => Here(u)' # Here(t)'
  BY <1>1, <1>3 DEF Inv, LastPuts
<1> QED
  BY <1>4, <1>5 DEF LastPuts

(****************************************************************************)
(* The invariant, and what it says.                                         *)
(****************************************************************************)
\* Every step keeps the invariant: one lemma for each part and each actor.
LEMMA InvStep == Inv /\ [Next]_vars => Inv'
<1> SUFFICES ASSUME Inv, [Next]_vars PROVE Inv'
  OBVIOUS
<1>1. ASSUME NEW t \in Tasks, Call(t) PROVE Inv'
  <2>1. Base' /\ NewPages' /\ FreePages' /\ LastPuts'
    BY <1>1, BaseTask, NewCall, FreeCall, LastCall DEF Inv
  <2>2. OnLists'
    <3>1. UNCHANGED <<zoneOf, lruFlag, activeFlag, listVars, scanVars>>
      BY <1>1 DEF Call, GetFree, GetRef, LruAdd, ReleasePages, pageVars
    <3> QED
      BY <3>1, ListsSame DEF Inv
  <2>3. RefsExact'
    <3>1. ASSUME NEW p \in Pages, GetFree(t, p) \/ GetRef(t, p) PROVE RefsExact'
      <4>1. GetFree(t, p) => count[p] = 0
        BY DEF GetFree, Inv, FreePages, Unused
      <4> QED
        BY <3>1, <4>1, RefsGot DEF Inv
    <3>2. ASSUME NEW v \in Batches(t),
                 ReleasePages(t, v) \/ \E k \in {"active", "inactive"} : LruAdd(t, v, k)
          PROVE  RefsExact'
      <4>1. refs' = Owed(t, v) /\ count' = count
        BY <3>2 DEF ReleasePages, LruAdd, pageVars
      <4>2. pc \in [Contexts -> Turns \cup {"isolate", "give_back"}] /\ t \in Contexts
        BY Constants DEF Inv, Base, Typed, TypedScan
      <4>3. \/ pc'[t] = "put" /\ vec'[t] = v
            \/ pc'[t] = "add" /\ todo'[t] = v
        BY <3>2, <4>2 DEF ReleasePages, LruAdd, Goto, Inv, Base, Typed, TypedTasks
      <4>4. Owing(t)' = ToSet(v)
        BY <1>1, <4>3, OwingCall DEF Inv
      <4> QED
        BY <1>1, <4>1, <4>4, RefsBatch DEF Inv
    <3> QED
      BY <1>1, <3>1, <3>2 DEF Call
  <2> QED
    BY <2>1, <2>2, <2>3 DEF Inv
<1>2. ASSUME NEW t \in Tasks, Continue(t) PROVE Inv'
  <2>1. OnLists'
    <3>1. ASSUME AddPage(t) PROVE OnLists'
      <4>1. Here(t) \in New(t)
        BY <3>1, HereParts DEF AddPage, New, Adding, Inv
      <4> QED
        BY <3>1, <4>1, NewClaimed, ListsAdd DEF Inv
    <3>2. ASSUME Unlist(t) PROVE OnLists'
      BY <3>2, ListsUnlist DEF Inv
    <3>3. ASSUME ~AddPage(t), ~Unlist(t)
          PROVE  UNCHANGED <<zoneOf, lruFlag, activeFlag, listVars, scanVars>>
      BY <1>2, <3>3 DEF Continue, LeaveZone, EnterZone, AddEnds, Put, FreeVec, ReleaseEnds, pageVars
    <3> QED
      BY <3>1, <3>2, <3>3, ListsSame DEF Inv
  <2>2. RefsExact'
    BY <1>2, RefsPut, RefsOther DEF Inv
  <2> QED
    BY <1>2, <2>1, <2>2, BaseTask, NewContinue, FreeContinue, LastContinue DEF Inv
<1>3. ASSUME ScanSteps PROVE Inv'
  BY <1>3, BaseScan, ListsScan, RefsScan, NewScan, FreeScan, LastScan DEF Inv
<1>4. ASSUME UNCHANGED vars PROVE Inv'
  <2>1. Base'
    BY <1>4, BaseStep DEF Inv
  <2>2. OnLists'
    BY <1>4, ListsSame DEF Inv, vars, listVars, scanVars
  <2>3. \A p \in Pages : Claims(p)' = Claims(p) /\ ScanOwes(p)' = ScanOwes(p)
    <3>1. \A t \in Tasks : Owing(t)' = Owing(t)
      BY <1>4 DEF vars, Owing
    <3> QED
      BY <1>4, <3>1, SameClaims DEF vars, ScanOwes
  <2>4. RefsExact'
    BY <1>4, <2>3 DEF vars, Inv, RefsExact
  <2>5. NewPages' /\ FreePages'
    BY <1>4 DEF vars, Inv, NewPages, New, Adding, FreePages, Unused
  <2>6. LastPuts'
    <3>1. ASSUME NEW t \in Tasks PROVE Unclaimed(Here(t))' <=> Unclaimed(Here(t))
      BY <1>4 DEF vars, Unclaimed, Claims, Owing, Here
    <3>2. \A t \in Tasks : Here(t)' = Here(t) /\ pc'[t] = pc[t]
      BY <1>4 DEF vars, Here
    <3> QED
      BY <3>1, <3>2 DEF Inv, LastPuts
  <2> QED
    BY <2>1, <2>2, <2>4, <2>5, <2>6 DEF Inv
<1> QED
  BY <1>1, <1>2, <1>3, <1>4 DEF Next, ScanSteps

LEMMA InvAlways == Spec => []Inv
BY InvInit, InvStep, PTL DEF Spec

\* References are exact: the count of every page is what its users have of it, what batches
\* have still to put and what a scan has taken, whatever the scan meets between a batch's
\* last put and the lock of the zone.
THEOREM RefsAreExact == Spec => []RefsExact
<1>1. Inv => RefsExact
  BY DEF Inv
<1> QED
  BY <1>1, InvAlways, PTL

\* No count goes below zero: not a page's references, and not a zone's nr_active, from which
\* a scan takes at its end all that it has taken, nor its nr_inactive.
THEOREM TypeCorrect == Spec => []TypeOK
<1>1. ASSUME Inv PROVE TypeOK
  <2>1. /\ TypedPages /\ TypedTasks /\ TypedScan /\ TypedLocks
    BY <1>1 DEF Inv, Base, Typed
  <2>2. count \in [Pages -> Nat]
    <3>1. \A p \in Pages : count[p] \in Nat
      <4>1. ASSUME NEW p \in Pages PROVE count[p] \in Nat
        <5>1. count[p] = ScanOwes(p) + Cardinality(Claims(p)) /\ ScanOwes(p) \in 0..1
          BY <1>1 DEF Inv, RefsExact, ScanOwes
        <5>2. Cardinality(Claims(p)) \in Nat
          BY <1>1, NoClaims DEF Inv
        <5> QED
          BY <5>1, <5>2
      <4> QED
        BY <4>1
    <3> QED
      BY <2>1, <3>1 DEF TypedPages
  <2>3. nrActive \in [Zones -> Nat] /\ nrInactive \in [Zones -> Nat]
    <3>1. ASSUME NEW z \in Zones PROVE nrActive[z] \in Nat /\ nrInactive[z] \in Nat
      <4>1. /\ nrActive[z] = Len(activeList[z]) + (IF scan.zone = z THEN Len(hold) ELSE 0)
            /\ nrInactive[z] = Len(inactiveList[z])
        BY <1>1 DEF Inv, OnLists, Listed, ListedAt
      <4>2. activeList[z] \in Seq(Pages) /\ inactiveList[z] \in Seq(Pages) /\ hold \in Seq(Pages)
        BY <2>1 DEF TypedPages, TypedScan
      <4>3. Len(activeList[z]) \in Nat /\ Len(inactiveList[z]) \in Nat /\ Len(hold) \in Nat
        BY <4>2, SeqParts
      <4>4. (IF scan.zone = z THEN Len(hold) ELSE 0) \in Nat
        BY <4>3
      <4>5. \A m, n \in Nat : m + n \in Nat
        OBVIOUS
      <4> QED
        BY <4>1, <4>3, <4>4, <4>5
    <3> QED
      BY <2>1, <3>1 DEF TypedPages
  <2>4. pc \in [Contexts -> {"idle", "add", "put", "unlist", "free", "isolate", "give_back"}]
    BY <2>1 DEF TypedScan, Turns
  <2> QED
    BY <2>1, <2>2, <2>3, <2>4 DEF TypedPages, TypedTasks, TypedScan, TypedLocks, TypeOK
<1> QED
  BY <1>1, InvAlways, PTL

\* Whenever a zone's lru_lock is free its lists, their counts and the page flags agree,
\* however long a scan has had it and however many batches have come before.
THEOREM ListsAgreeAlways == Spec => []ListsAgree
<1>1. ASSUME Inv, NEW z \in Zones, lock[z] = None
      PROVE  /\ IsInjective(activeList[z]) /\ IsInjective(inactiveList[z])
             /\ ToSet(activeList[z]) = {p \in Pages : p \in lruFlag /\ p \in activeFlag /\ zoneOf[p] = z}
             /\ ToSet(inactiveList[z]) = {p \in Pages : p \in lruFlag /\ p \notin activeFlag /\ zoneOf[p] = z}
             /\ \A p \in activeFlag \ lruFlag : p \in lost \cup ToSet(hold)
             /\ nrActive[z] = Len(activeList[z]) /\ nrInactive[z] = Len(inactiveList[z])
  <2>1. ListedAt(z) /\ Taken /\ TypedPages
    BY <1>1 DEF Inv, OnLists, Listed, Base, Typed
  <2>2. activeList[z] \in Seq(Pages) /\ inactiveList[z] \in Seq(Pages)
    BY <2>1 DEF TypedPages
  <2>3. /\ ToSet(activeList[z]) \subseteq Pages /\ ToSet(inactiveList[z]) \subseteq Pages
        /\ Len(activeList[z]) \in Nat
    BY <2>2, SeqParts
  <2>4. scan.zone # z
    BY <1>1, Constants DEF Inv, Base, Scanned
  <2>5. nrActive[z] = Len(activeList[z]) /\ nrInactive[z] = Len(inactiveList[z])
    BY <2>1, <2>3, <2>4 DEF ListedAt
  <2>6. \A p \in activeFlag \ lruFlag : p \in lost \cup ToSet(hold)
    BY <2>1 DEF Taken, TypedPages
  <2>7. /\ ToSet(activeList[z]) = {p \in Pages : p \in lruFlag /\ p \in activeFlag /\ zoneOf[p] = z}
        /\ ToSet(inactiveList[z]) = {p \in Pages : p \in lruFlag /\ p \notin activeFlag /\ zoneOf[p] = z}
    BY <2>1, <2>3 DEF ListedAt
  <2> QED
    BY <2>1, <2>5, <2>6, <2>7 DEF ListedAt
<1>2. ASSUME Inv PROVE ListsAgree
  <2>1. lruFlag \subseteq Pages /\ activeFlag \subseteq Pages
    BY <1>2 DEF Inv, Base, Typed, TypedPages
  <2> QED
    BY <1>1, <1>2, <2>1 DEF ListsAgree
<1> QED
  BY <1>2, InvAlways, PTL

\* A page that is freed has no reference and is on no list, one vector alone frees it, and
\* no BUG() is reached on the way, for any number of contexts, pages and zones.
THEOREM FreedIsClean == Spec => []FreedClean
<1>1. ASSUME Inv PROVE NoBug
  <2>1. ASSUME NEW t \in Tasks, vec[t] # <<>>, pc[t] = "add"
        PROVE  Here(t) \notin lruFlag /\ Here(t) \notin activeFlag
    <3>1. Here(t) \in New(t)
      BY <1>1, <2>1, HereParts DEF New, Adding, Inv
    <3> QED
      BY <1>1, <3>1, NewClaimed
  <2>2. ASSUME NEW t \in Tasks, vec[t] # <<>>, pc[t] = "put" PROVE count[Here(t)] > 0
    <3>1. PICK p \in Pages : p = Here(t) /\ p \in ToSet(vec[t])
      BY <1>1, <2>2, HereParts DEF Inv
    <3>2. p \in Owing(t)
      BY <2>2, <3>1 DEF Owing
    <3>3. Cardinality(Claims(p)) \in Nat /\ Cardinality(Claims(p)) # 0
      BY <1>1, <3>2, NoClaims DEF Inv
    <3>4. count[p] = ScanOwes(p) + Cardinality(Claims(p)) /\ ScanOwes(p) \in 0..1
      BY <1>1 DEF Inv, RefsExact, ScanOwes
    <3> QED
      BY <3>1, <3>3, <3>4
  <2>3. ASSUME pc[Scanner] = "isolate", ScanAgain PROVE Oldest \in lruFlag
    <3>1. scan.zone \in Zones /\ activeList[scan.zone] \in Seq(Pages) /\ activeList[scan.zone] # <<>>
      BY <1>1, <2>3, ScanParts DEF Inv, ScanAgain
    <3>2. Oldest \in Pages /\ Oldest \in ToSet(activeList[scan.zone])
      BY <3>1, FrontParts DEF Oldest
    <3> QED
      BY <1>1, <3>1, <3>2 DEF Inv, OnLists, Listed, ListedAt
  <2> QED
    BY <2>1, <2>2, <2>3 DEF NoBug
<1>2. ASSUME Inv PROVE FreedClean
  <2>1. FreePages
    BY <1>2 DEF Inv
  <2>2. \A p \in free \cup UNION {ToSet(toFree[t]) : t \in Tasks} : Unused(p)
    BY <2>1 DEF FreePages
  <2>3. free \cap UNION {ToSet(toFree[t]) : t \in Tasks} = {}
    BY <2>1 DEF FreePages
  <2> QED
    BY <1>1, <1>2, <2>1, <2>2, <2>3 DEF FreedClean, FreePages, Unused
<1> QED
  BY <1>2, InvAlways, PTL
=============================================================================
