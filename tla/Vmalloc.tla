------------------------------ MODULE Vmalloc ------------------------------
(****************************************************************************)
(* The areas of kernel virtual memory (mm/vmalloc.c) and the page tables    *)
(* behind them (mm/memory.c): contexts allocate, map, read and free areas.  *)
(*                                                                          *)
(* Addresses and sizes are in pages. A section under vmlist_lock is one     *)
(* step. The page tables are seen as one function from addresses to frames  *)
(* and the set of second-level tables that exist.                           *)
(****************************************************************************)
EXTENDS Integers, FiniteSets, Sequences, SequencesExt, FiniteSetsExt

CONSTANTS
    Tasks,
    Frames,       \* the page frames that alloc_page can give
    VmStart,      \* VMALLOC_START and VMALLOC_END
    VmEnd,
    Top,          \* bound: no area goes beyond this address
    PerTable,     \* pages that one second-level table maps
    Ptrs,         \* pointers in a page
    Aligns,       \* the powers of two up to 1 << IOREMAP_MAX_ORDER, in pages
    NumPhysPages, \* num_physpages
    VmallocSizes, \* bound: what vmalloc is asked for
    VmapSizes,    \* bound: what vmap is asked for
    MaxAreas,     \* bound: with as many areas nobody asks for more
    Space,        \* pages in the address space: the numbers of pages wrap at it
    Counts,       \* bound: how many pages vread and vwrite are asked for
    Lent,         \* the page that a caller of vmap has and alloc_page never gives
    Slab,         \* kmalloc's memory
    None

Addresses == VmStart..Top
Tables == {a \div PerTable : a \in Addresses}

ASSUME VmallocAssumption ==
    /\ VmStart \in Nat \ {0} /\ VmEnd \in Nat /\ Top \in Nat /\ VmStart < VmEnd /\ VmEnd <= Top
    /\ PerTable \in Nat \ {0} /\ Ptrs \in Nat \ {0, 1}
    /\ Aligns \subseteq Nat \ {0} /\ 1 \in Aligns
    /\ \E m \in Aligns : \A a \in Aligns : a <= m /\ (a = m \/ 2 * a \in Aligns)
    /\ NumPhysPages \in Nat \ {0} /\ MaxAreas \in Nat /\ VmallocSizes \cup VmapSizes \subseteq Nat \ {0}
    /\ None \notin Frames \cup Tasks \cup Addresses \cup {Slab, Lent}
    /\ Lent \notin Frames /\ Slab \notin Addresses
    /\ Space \in Nat /\ Top < Space /\ Counts \subseteq 0..(Space - 1)

VARIABLES
    vmlist,   \* the areas in the order of the list
    pte,      \* what each address is mapped to
    present,  \* the second-level tables that exist
    free,     \* the frames that the page allocator has
    ptLock,   \* the holder of init_mm.page_table_lock
    stack,    \* what each task is in: the innermost call last
    live,     \* the addresses that vmalloc and vmap have returned
    strained, \* history: an area was asked for that is aligned or larger than the range
    replaced, \* history: a table that was in use has been replaced
    fault     \* the wild access that has ended the run, or "none"

vars == <<vmlist, pte, present, free, ptLock, stack, live, strained, replaced, fault>>

(****************************************************************************)
(* Areas. `frames' is what pages[] holds, nr is nr_pages, and array says    *)
(* where pages[] is: in slab memory, in an area of its own, or nowhere.     *)
(****************************************************************************)
Area(addr, n, io) == [addr |-> addr, n |-> n, io |-> io, nr |-> 0, frames |-> <<>>, array |-> None]

\* tmp->addr + tmp->size, with the guard page.
Limit(a) == a.addr + a.n + 1
Span(a) == a.addr..(a.addr + a.n - 1)
Listed == ToSet(vmlist)
Place(addr) == CHOOSE i \in DOMAIN vmlist : vmlist[i].addr = addr
AreaAt(addr) == vmlist[Place(addr)]
Update(a) == [vmlist EXCEPT ![Place(a.addr)] = a]

\* 1 << fls(size), but no more than the largest.
AlignOf(n, io) == IF io THEN Min({a \in Aligns : a > n \/ \A b \in Aligns : b <= a}) ELSE 1
Align(x, a) == ((x + a - 1) \div a) * a

\* (Slip: the end of the range is not looked at.)
LookOn(s, a, n, al) ==
    IF s.done # "no" THEN s
    ELSE IF a.addr < s.addr
         THEN [s EXCEPT !.addr = IF Limit(a) >= @ THEN Align(Limit(a), al) ELSE @, !.before = @ + 1]
    ELSE IF s.addr + n + 1 <= a.addr
         THEN [s EXCEPT !.done = "found"]
    ELSE [addr |-> Align(Limit(a), al), before |-> s.before + 1, done |-> "no"]

\* (Slip: the areas are searched without the guard page.)
LookTight(s, a, n, al) ==
    IF s.done # "no" THEN s
    ELSE IF a.addr < s.addr
         THEN [s EXCEPT !.addr = IF Limit(a) >= @ THEN Align(Limit(a), al) ELSE @, !.before = @ + 1]
    ELSE IF s.addr + n <= a.addr
         THEN [s EXCEPT !.done = "found"]
    ELSE LET next == Align(Limit(a), al)
         IN [addr |-> next, before |-> s.before + 1,
             done |-> IF next > VmEnd - (n + 1) THEN "out" ELSE "no"]

\* __get_vm_area looks at area a, having come as far as s.
Look(s, a, n, al) ==
    IF s.done # "no" THEN s
    ELSE IF a.addr < s.addr
         THEN [s EXCEPT !.addr = IF Limit(a) >= @ THEN Align(Limit(a), al) ELSE @, !.before = @ + 1]
    ELSE IF s.addr + n + 1 <= a.addr
         THEN [s EXCEPT !.done = "found"]
    ELSE LET next == Align(Limit(a), al)
         IN [addr |-> next, before |-> s.before + 1,
             done |-> IF next > VmEnd - (n + 1) THEN "out" ELSE "no"]

Search(n, io) ==
    LET al == AlignOf(n, io)
        come[i \in 0..Len(vmlist)] ==
            IF i = 0 THEN [addr |-> Align(VmStart, al), before |-> 0, done |-> "no"]
            ELSE Look(come[i - 1], vmlist[i], n, al)
    IN come[Len(vmlist)]

\* There is a place, and it is not beyond the bound.
Found(s, n) == s.done # "out" /\ s.addr + n <= Top

TooLarge(n) == n + 1 > VmEnd - VmStart

\* get_vm_area finds a place: the list with the new area.
Inserted(s, n, io) == InsertAt(vmlist, s.before + 1, Area(s.addr, n, io))

Removed(a) == RemoveAt(vmlist, Place(a.addr))

TableOf(p) == p \div PerTable

\* unmap_vm_area, the guard page included.
Unmapped(a) ==
    [p \in Addresses |-> IF p \in a.addr..(a.addr + a.n) THEN None ELSE pte[p]]

\* There is a table for each address that unmapping area a clears. The code does not ask: for
\* an entry without a table it takes the one at physical address 0.
HasTables(a) == \A p \in a.addr..(a.addr + a.n) : TableOf(p) \in present

\* remove_vm_area, where it does what it should.
Unlink(a) == HasTables(a) /\ vmlist' = Removed(a) /\ pte' = Unmapped(a)

Init ==
    /\ vmlist = <<>>
    /\ pte = [p \in Addresses |-> None] /\ present = {}
    /\ free = Frames
    /\ ptLock = None
    /\ stack = [t \in Tasks |-> <<>>]
    /\ live = {} /\ strained = FALSE /\ replaced = FALSE /\ fault = "none"

(****************************************************************************)
(* A task's calls.                                                          *)
(****************************************************************************)
NoArea == Area(0, 0, FALSE)
Call(step, addr) == [step |-> step, addr |-> addr, cur |-> addr, area |-> NoArea]
Depth(t) == Len(stack[t])
Inner(t) == stack[t][Depth(t)]
At(t, step) == stack[t] # <<>> /\ Inner(t).step = step
Mine(t) == AreaAt(Inner(t).addr)
Cur(t) == Inner(t).cur

Becomes(t, call) == stack' = [stack EXCEPT ![t][Depth(t)] = call]
Goto(t, step) == Becomes(t, [Inner(t) EXCEPT !.step = step])

\* The innermost call returns the address v, or None: to the user or to the vmalloc that
\* wanted it for its array of pages.
Answer(t, v) ==
    IF Depth(t) = 1
    THEN /\ stack' = [stack EXCEPT ![t] = <<>>]
         /\ live' = IF v = None THEN live ELSE live \cup {v}
    ELSE LET d == Depth(t) - 1 IN
         /\ stack' = [stack EXCEPT ![t] =
                        [Front(stack[t]) EXCEPT ![d] = [stack[t][d] EXCEPT !.step = "given", !.cur = v]]]
         /\ UNCHANGED live

(****************************************************************************)
(* __vmalloc.                                                               *)
(****************************************************************************)
\* The area is found, or there is none and __vmalloc_area dereferences NULL.
Begin(t, n, outer) ==
    LET s == Search(n, FALSE) IN
    \/ /\ Found(s, n)
       /\ vmlist' = Inserted(s, n, FALSE)
       /\ stack' = [stack EXCEPT ![t] = Append(outer, Call("array", s.addr))]
    \/ /\ stack' = [stack EXCEPT ![t] = Append(outer, Call("oops", VmStart))]
       /\ UNCHANGED vmlist

Vmalloc(t, n) ==
    /\ stack[t] = <<>> /\ n <= NumPhysPages /\ Len(vmlist) < MaxAreas
    /\ Begin(t, n, <<>>)
    /\ strained' = (strained \/ TooLarge(n))
    /\ UNCHANGED <<pte, present, free, ptLock, live, replaced, fault>>

\* pages[] of a large area is allocated by __vmalloc, others are from the slab.
NestArray(t) ==
    /\ At(t, "array") /\ Mine(t).n > Ptrs
    /\ Begin(t, (Mine(t).n + Ptrs - 1) \div Ptrs, [stack[t] EXCEPT ![Depth(t)].step = "wait"])
    /\ UNCHANGED <<pte, present, free, ptLock, live, strained, replaced, fault>>

SlabArray(t) ==
    /\ At(t, "array") /\ Mine(t).n <= Ptrs
    /\ \E v \in {Slab, None} : Becomes(t, [Inner(t) EXCEPT !.step = "given", !.cur = v])
    /\ UNCHANGED <<vmlist, pte, present, free, ptLock, live, strained, replaced, fault>>

\* No array: the area goes again.
NoArray(t) ==
    /\ At(t, "given") /\ Cur(t) = None
    /\ Unlink(Mine(t))
    /\ Answer(t, None)
    /\ UNCHANGED <<present, free, ptLock, strained, replaced, fault>>

ArrayGiven(t) ==
    /\ At(t, "given") /\ Cur(t) # None
    /\ vmlist' = Update([Mine(t) EXCEPT !.nr = Mine(t).n, !.array = Cur(t)])
    /\ Becomes(t, Call("fill", Mine(t).addr))
    /\ UNCHANGED <<pte, present, free, ptLock, live, strained, replaced, fault>>

\* Which page alloc_page gives makes no difference: they are alike.
AllocPage(t) ==
    LET page == CHOOSE f \in free : TRUE IN
    /\ At(t, "fill") /\ free # {}
    /\ free' = free \ {page}
    /\ vmlist' = Update([Mine(t) EXCEPT !.frames = Append(Mine(t).frames, page)])
    /\ IF Len(Mine(t).frames) + 1 = Mine(t).n THEN Goto(t, "lock") ELSE UNCHANGED stack
    /\ UNCHANGED <<pte, present, ptLock, live, strained, replaced, fault>>

\* (Slip: the page that was not given is counted with the others, and freed.)
AllocPageCounted(t) ==
    /\ At(t, "fill")
    /\ LET a == [Mine(t) EXCEPT !.nr = Len(Mine(t).frames) + 1, !.frames = Append(Mine(t).frames, None)]
       IN /\ Unlink(Mine(t))
          /\ Becomes(t, [Call("undo", a.addr) EXCEPT !.area = a])
    /\ UNCHANGED <<present, free, ptLock, live, strained, replaced, fault>>

\* vfree from within vmalloc: NULL is returned once everything is released.
AllocPageFails(t) ==
    /\ At(t, "fill")
    /\ LET a == [Mine(t) EXCEPT !.nr = Len(Mine(t).frames)]
       IN /\ Unlink(Mine(t))
          /\ Becomes(t, [Call("undo", a.addr) EXCEPT !.area = a])
    /\ UNCHANGED <<present, free, ptLock, live, strained, replaced, fault>>

------------------------------------------------------------------------------
(****************************************************************************)
(* map_vm_area: under page_table_lock, table by table.                      *)
(****************************************************************************)
\* The addresses of area a from p on, on p's table and beyond it.
Chunk(a, p) == {q \in Span(a) : q >= p /\ TableOf(q) = TableOf(p)}
Rest(a, p) == {q \in Span(a) : q >= p} \ Chunk(a, p)

LockTables(t) ==
    /\ At(t, "lock") /\ ptLock = None
    /\ ptLock' = t
    /\ Goto(t, "map")
    /\ UNCHANGED <<vmlist, pte, present, free, live, strained, replaced, fault>>

\* A page that is NULL ends the mapping where it is met.
MapChunk(t, a, tables) ==
    LET chunk == Chunk(a, Cur(t))
        bad == {q \in chunk : a.frames[q - a.addr + 1] = None}
        done == {q \in chunk : \A b \in bad : q < b}
    IN /\ pte' = [p \in Addresses |-> IF p \in done THEN a.frames[p - a.addr + 1] ELSE tables[p]]
       /\ IF bad # {}
          THEN ptLock' = None /\ Goto(t, "fail") /\ UNCHANGED live
          ELSE IF Rest(a, Cur(t)) = {}
          THEN ptLock' = None /\ Answer(t, a.addr)
          ELSE /\ ptLock' = t /\ UNCHANGED live
               /\ Becomes(t, [Inner(t) EXCEPT !.step = "map", !.cur = Min(Rest(a, Cur(t)))])

MapPages(t) ==
    /\ At(t, "map") /\ TableOf(Cur(t)) \in present
    /\ MapChunk(t, Mine(t), pte)
    /\ UNCHANGED <<vmlist, present, free, strained, replaced, fault>>

\* pte_alloc_kernel drops the lock to allocate a table ...
DropLock(t) ==
    /\ At(t, "map") /\ TableOf(Cur(t)) \notin present
    /\ ptLock' = None
    /\ Goto(t, "table")
    /\ UNCHANGED <<vmlist, pte, present, free, live, strained, replaced, fault>>

\* The table of number k is a new one, which maps nothing.
Populated(k) == [p \in Addresses |-> IF TableOf(p) = k THEN None ELSE pte[p]]

\* ... and sets it, whether or not somebody else has done so meanwhile (the new one is then
\* freed as well).
NewTable(t) ==
    LET k == TableOf(Cur(t)) IN
    /\ At(t, "table") /\ ptLock = None
    /\ present' = present \cup {k}
    /\ replaced' = (replaced \/ k \in present)
    /\ MapChunk(t, Mine(t), Populated(k))
    /\ UNCHANGED <<vmlist, free, strained, fault>>

\* Without memory for a table -ENOMEM.
NoTable(t) ==
    /\ At(t, "table") /\ ptLock = None
    /\ Goto(t, "fail")
    /\ UNCHANGED <<vmlist, pte, present, free, ptLock, live, strained, replaced, fault>>

\* vfree or vunmap of what was mapped in part.
MapFails(t) ==
    /\ At(t, "fail")
    /\ Unlink(Mine(t))
    /\ IF Mine(t).array = None
       THEN Answer(t, None)
       ELSE Becomes(t, [Call("undo", Mine(t).addr) EXCEPT !.area = Mine(t)]) /\ UNCHANGED live
    /\ UNCHANGED <<present, free, ptLock, strained, replaced, fault>>

------------------------------------------------------------------------------
(****************************************************************************)
(* vmap, vfree, vunmap.                                                     *)
(****************************************************************************)
\* The pages are the caller's; one of them may be missing.
Vmap(t, n, io, pages) ==
    LET s == Search(n, io) IN
    /\ stack[t] = <<>> /\ n <= NumPhysPages /\ Len(vmlist) < MaxAreas /\ Found(s, n)
    /\ vmlist' = InsertAt(vmlist, s.before + 1, [Area(s.addr, n, io) EXCEPT !.frames = pages])
    /\ stack' = [stack EXCEPT ![t] = <<Call("lock", s.addr)>>]
    /\ strained' = (strained \/ io \/ TooLarge(n))
    /\ UNCHANGED <<pte, present, free, ptLock, live, replaced, fault>>

\* vunmap of a mapping, vfree of an allocation; the area is off the list first.
Vunmap(t, addr) ==
    /\ stack[t] = <<>> /\ addr \in live
    /\ Unlink(AreaAt(addr))
    /\ live' = live \ {addr}
    /\ stack' = [stack EXCEPT ![t] = IF AreaAt(addr).array = None THEN <<>>
                                     ELSE <<[Call("undo", addr) EXCEPT !.area = AreaAt(addr)]>>]
    /\ UNCHANGED <<present, free, ptLock, strained, replaced, fault>>

Gone(t) == Inner(t).area

\* (Slip: the array of a large area is not freed.)
ReleaseLeaky(t) ==
    /\ At(t, "undo")
    /\ free' = free \cup {Gone(t).frames[i] : i \in 1..Gone(t).nr}
    /\ Answer(t, None)
    /\ UNCHANGED <<vmlist, pte, present, ptLock, strained, replaced, fault>>

\* Its nr_pages pages are freed, and then its array: by vfree if nr_pages says that it is
\* large, or else by kfree.
Release(t) ==
    /\ At(t, "undo")
    /\ free' = free \cup {Gone(t).frames[i] : i \in 1..Gone(t).nr}
    /\ IF Gone(t).nr > Ptrs
       THEN LET b == AreaAt(Gone(t).array) IN
            /\ Unlink(b)
            /\ Becomes(t, [Call("undo", b.addr) EXCEPT !.area = b])
            /\ UNCHANGED live
       ELSE /\ Gone(t).array = Slab
            /\ Answer(t, None)
            /\ UNCHANGED <<vmlist, pte>>
    /\ UNCHANGED <<present, ptLock, strained, replaced, fault>>

------------------------------------------------------------------------------
(****************************************************************************)
(* What ends the run: an access to memory that is not the one meant.        *)
(****************************************************************************)
\* The areas that the next step of t may unmap.
Unmaps(t) ==
    IF stack[t] = <<>> THEN {AreaAt(addr) : addr \in live}
    ELSE IF At(t, "fill") \/ At(t, "fail") \/ (At(t, "given") /\ Cur(t) = None) THEN {Mine(t)}
    ELSE IF At(t, "undo") /\ Gone(t).nr > Ptrs THEN {AreaAt(Gone(t).array)}
    ELSE {}

\* unmap_area_pte clears entries where there is no table.
ClearsWildly(t) ==
    /\ \E a \in Unmaps(t) : ~HasTables(a)
    /\ fault' = "clear"
    /\ UNCHANGED <<vmlist, pte, present, free, ptLock, stack, live, strained, replaced>>

\* A vmalloc that failed has set nr_pages to what it got: its array is an area all the same,
\* and goes to kfree.
KfreesArea(t) ==
    /\ At(t, "undo") /\ Gone(t).nr <= Ptrs /\ Gone(t).array # Slab
    /\ fault' = "kfree"
    /\ UNCHANGED <<vmlist, pte, present, free, ptLock, stack, live, strained, replaced>>

------------------------------------------------------------------------------
(****************************************************************************)
(* vread: what it copies from address p on, page by page: Zero for a page   *)
(* between areas, and None where the access faults. vwrite: the addresses   *)
(* that it writes to.                                                       *)
(****************************************************************************)
Zero == 0

\* p + count overflows: vread ends with the address space, vwrite with what is left when the
\* address is taken from the count.
Overflows(p, count) == p + count >= Space
ReadCount(p, count) == IF Overflows(p, count) THEN Space - p ELSE count
WriteCount(p, count) ==
    IF ~Overflows(p, count) THEN count ELSE IF count >= p THEN count - p ELSE count - p + Space

\* (Slip: the guard page is copied as well.)
ReadGuard(s, a) ==
    IF s.addr >= Limit(a) THEN s
    ELSE LET hole == IF s.addr < a.addr THEN Min({a.addr - s.addr, s.count}) ELSE 0
             n == Min({s.count - hole, Limit(a) - (s.addr + hole)})
         IN [addr |-> s.addr + hole + n, count |-> s.count - hole - n,
             buf |-> s.buf \o [i \in 1..hole |-> Zero] \o [i \in 1..n |-> pte[s.addr + hole + i - 1]]]

\* vread passes area a, having come as far as s.
ReadArea(s, a) ==
    IF s.addr >= Limit(a) - 1 THEN s
    ELSE LET hole == IF s.addr < a.addr THEN Min({a.addr - s.addr, s.count}) ELSE 0
             n == Min({s.count - hole, Limit(a) - 1 - (s.addr + hole)})
         IN [addr |-> s.addr + hole + n, count |-> s.count - hole - n,
             buf |-> s.buf \o [i \in 1..hole |-> Zero] \o [i \in 1..n |-> pte[s.addr + hole + i - 1]]]

Vread(p, count) ==
    LET read[i \in 0..Len(vmlist)] ==
            IF i = 0 THEN [addr |-> p, count |-> ReadCount(p, count), buf |-> <<>>]
            ELSE ReadArea(read[i - 1], vmlist[i])
    IN read[Len(vmlist)].buf

WriteArea(s, a) ==
    IF s.addr >= Limit(a) - 1 THEN s
    ELSE LET hole == IF s.addr < a.addr THEN Min({a.addr - s.addr, s.count}) ELSE 0
             n == Min({s.count - hole, Limit(a) - 1 - (s.addr + hole)})
         IN [addr |-> s.addr + hole + n, count |-> s.count - hole - n,
             to |-> s.to \cup ((s.addr + hole)..(s.addr + hole + n - 1))]

Vwrite(p, count) ==
    LET write[i \in 0..Len(vmlist)] ==
            IF i = 0 THEN [addr |-> p, count |-> WriteCount(p, count), to |-> {}]
            ELSE WriteArea(write[i - 1], vmlist[i])
    IN write[Len(vmlist)].to

\* A task reads or writes where an area is on the list and nothing is mapped (one page at a
\* time, which meets all of them).
Touches(t) ==
    /\ stack[t] = <<>>
    /\ \E p \in Addresses : \/ None \in ToSet(Vread(p, 1))
                            \/ \E q \in Vwrite(p, 1) : pte[q] = None
    /\ fault' = "access"
    /\ UNCHANGED <<vmlist, pte, present, free, ptLock, stack, live, strained, replaced>>

------------------------------------------------------------------------------
Continue(t) ==
    \/ NestArray(t) \/ SlabArray(t) \/ NoArray(t) \/ ArrayGiven(t)
    \/ AllocPage(t) \/ AllocPageFails(t)
    \/ LockTables(t) \/ MapPages(t) \/ DropLock(t) \/ NewTable(t) \/ NoTable(t) \/ MapFails(t)
    \/ Release(t)

\* The pages of a vmap: all there, or the last one missing.
PageLists(n) == {[i \in 1..n |-> Lent], [i \in 1..n |-> IF i = n THEN None ELSE Lent]}

Next ==
    /\ fault = "none"
    /\ \E t \in Tasks :
       \/ \E n \in VmallocSizes : Vmalloc(t, n)
       \/ \E n \in VmapSizes, io \in BOOLEAN : \E pages \in PageLists(n) : Vmap(t, n, io, pages)
       \/ \E addr \in live : Vunmap(t, addr)
       \/ Continue(t)
       \/ ClearsWildly(t) \/ KfreesArea(t) \/ Touches(t)

Spec == Init /\ [][Next]_vars

------------------------------------------------------------------------------
(****************************************************************************)
(* Properties.                                                              *)
(****************************************************************************)
AreaType ==
    [addr : Addresses \cup {0}, n : Nat, io : BOOLEAN, nr : Nat,
     frames : Seq(Frames \cup {Lent, None}), array : Addresses \cup {Slab, None}]
CallType ==
    [step : {"array", "wait", "given", "fill", "lock", "map", "table", "fail", "undo", "oops"},
     addr : Addresses, cur : Addresses \cup {Slab, None}, area : AreaType]

\* Every variable has its type.
TypeOK ==
    /\ vmlist \in Seq(AreaType)
    /\ pte \in [Addresses -> Frames \cup {Lent, None}]
    /\ present \subseteq Tables /\ free \subseteq Frames
    /\ ptLock \in Tasks \cup {None}
    /\ live \subseteq Addresses
    /\ strained \in BOOLEAN /\ replaced \in BOOLEAN /\ fault \in {"none", "clear", "kfree", "access"}
    /\ stack \in [Tasks -> Seq(CallType)]

\* The list is in the order of addresses, and the page after each area is no other's: an
\* access beyond the end of an area faults.
AreasApart == \A i \in 1..(Len(vmlist) - 1) : Limit(vmlist[i]) <= vmlist[i + 1].addr

\* The areas are within VMALLOC_START and VMALLOC_END as long as nobody asks for an
\* alignment or for more than the range.
WithinRange == \A a \in Listed : a.addr >= VmStart /\ (~strained => Limit(a) <= VmEnd)

\* Where the areas are: __get_vm_area has put each into a gap.
AreasPlaced == AreasApart /\ WithinRange

Calls == UNION {ToSet(stack[t]) : t \in Tasks}
Undoing == {t \in Tasks : At(t, "undo")}

\* Whose an area is: a user's, a call's that builds it, or that of the area whose pages[]
\* it holds.
Building == {c.addr : c \in {d \in Calls : d.step \notin {"undo", "oops"}}}
Arrays == ({a.array : a \in Listed \cup {Gone(t) : t \in Undoing}}
               \cup {c.cur : c \in {d \in Calls : d.step = "given"}}) \ {Slab, None}

\* Every area on the list is exactly one's.
AreasOwned ==
    /\ {a.addr : a \in Listed} = live \cup Building \cup Arrays
    /\ live \cap (Building \cup Arrays) = {} /\ Building \cap Arrays = {}

\* Every frame is free or in one area, once, be it on the list or being taken down by a task:
\* none is lost when a call fails half-way.
FramesOnce ==
    LET keepers == {<<a, None>> : a \in Listed} \cup {<<Gone(t), t>> : t \in Undoing}
        held == UNION {{<<k, i>> : i \in {j \in DOMAIN k[1].frames : k[1].frames[j] \in Frames}} : k \in keepers}
        frame(h) == h[1][1].frames[h[2]]
    IN /\ \A g, h \in held : g # h => frame(g) # frame(h)
       /\ {frame(h) : h \in held} = Frames \ free

\* An address is mapped to the page that its area has there, once the area is complete,
\* and no mapping is left behind by an area that is gone, or overwritten by another's.
Mapped ==
    /\ \A a \in Listed : \A p \in Span(a) :
          \/ p - a.addr < Len(a.frames) /\ pte[p] = a.frames[p - a.addr + 1]
          \/ a.addr \in Building /\ pte[p] = None
    /\ \A p \in Addresses : (\A a \in Listed : p \notin Span(a)) => pte[p] = None

InArea(p) == \E a \in Listed : p \in Span(a)
End == IF vmlist = <<>> THEN 0 ELSE Limit(Last(vmlist)) - 1

\* v is what a read at address p is to get: the page that the area has there, zeros between
\* the areas. Only an area that is being built may fault, or one whose table was replaced.
ReadRight(v, p) ==
    \/ ~InArea(p) /\ v = Zero
    \/ \E a \in Listed : /\ p \in Span(a)
                         /\ \/ replaced
                            \/ a.addr \in Building /\ v = None
                            \/ p - a.addr < Len(a.frames) /\ v = a.frames[p - a.addr + 1]

\* vread copies the pages of the areas, zeros for the holes and the guard pages, and ends with
\* the last area; vwrite reaches the same addresses, if the count does not overflow.
ReadsExact ==
    \A p \in VmStart..(VmEnd + 1), count \in Counts :
        /\ LET buf == Vread(p, count) IN
           /\ Len(buf) = Max({0, Min({ReadCount(p, count), End - p})})
           /\ \A i \in 1..Len(buf) : ReadRight(buf[i], p + i - 1)
        /\ Overflows(p, count) \/ Vwrite(p, count) = {q \in p..(p + count - 1) : InArea(q)}

\* What calls take they give back, and the page tables follow the list (as long as no page
\* table was replaced under its user), up to the step that kfrees an area or clears entries
\* of no table.
PagesExact == AreasOwned /\ FramesOnce /\ (~replaced => Mapped)

\* __vmalloc: "Map them into contiguous kernel virtual space": what it has returned stays
\* mapped until it is freed.
MappingsKept ==
    \A a \in Listed : a.addr \in live => \A p \in Span(a) : pte[p] = a.frames[p - a.addr + 1]
=============================================================================
