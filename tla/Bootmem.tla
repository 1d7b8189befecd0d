------------------------------- MODULE Bootmem -------------------------------
(****************************************************************************)
(* The boot memory allocator, mm/bootmem.c: a bitmap over the frames of the *)
(* node, and the end of the last allocation, in whose page the next one may *)
(* continue.  Addresses count bytes; a frame is named by its number.        *)
(*                                                                          *)
(* No caller gives a goal inside the node (it is 0 or MAX_DMA_ADDRESS) or   *)
(* aligns to more than a page, so the search starts at the first frame and  *)
(* takes frames one by one; last_success never matters.                     *)
(****************************************************************************)
EXTENDS Integers, FiniteSets

CONSTANTS PageSize,    \* PAGE_SIZE, in bytes
          ByteBits,    \* bits of a byte of the bitmap
          LongBits     \* BITS_PER_LONG

ASSUME WidthAssumption == {PageSize, ByteBits, LongBits} \subseteq Nat \ {0}

RoundUp(x, n) == (x + n - 1) \div n          \* in units of n
Align(x, n)   == RoundUp(x, n) * n
PagesUp(x)    == RoundUp(x, PageSize)
Frame(x)      == x \div PageSize

\* The frames that [addr, addr + size) lies wholly in, or touches.
Within(addr, size)  == PagesUp(addr)..(Frame(addr + size) - 1)
Touched(addr, size) == Frame(addr)..(PagesUp(addr + size) - 1)

BootmapPages(pages) == PagesUp(RoundUp(pages, ByteBits))

\* bootmem_data, after init_bootmem_core: every frame is reserved.
Node(start, end, map) ==
    [start |-> start, end |-> end, node_bootmem_map |-> map,
     reserved |-> start..(end - 1), last_pos |-> start, last_offset |-> 0, bug |-> FALSE]

\* free_bootmem_core: what its BUG_ONs and the test of each bit refuse.  BUG panics.
FreeBug(bd, addr, size) ==
    \/ size = 0
    \/ Frame(addr + size) > bd.end
    \/ ~ Within(addr, size) \subseteq bd.reserved

FreeBootmem(bd, addr, size) ==
    [bd EXCEPT !.reserved = @ \ Within(addr, size), !.bug = @ \/ FreeBug(bd, addr, size)]

\* reserve_bootmem_core: a page reserved twice is only reported.
ReserveBug(bd, addr, size) == size = 0 \/ Frame(addr) >= bd.end \/ PagesUp(addr + size) > bd.end

ReserveBootmem(bd, addr, size) ==
    [bd EXCEPT !.reserved = @ \cup Touched(addr, size), !.bug = @ \/ ReserveBug(bd, addr, size)]

\* __alloc_bootmem_core: where a run of n clear bits starts.
Runs(bd, n) ==
    {i \in bd.start..(bd.end - 1) : i + n <= bd.end /\ i..(i + n - 1) \cap bd.reserved = {}}

\* (Slip: the search does not stop at the first run.)
FindLast(bd, size) == CHOOSE i \in Runs(bd, PagesUp(size)) : \A j \in Runs(bd, PagesUp(size)) : j <= i

Find(bd, size) == CHOOSE i \in Runs(bd, PagesUp(size)) : \A j \in Runs(bd, PagesUp(size)) : i <= j

\* The run starts in the page after the last allocation, which ended inside its page.
Merges(bd, i, align) == align < PageSize /\ bd.last_offset # 0 /\ bd.last_pos + 1 = i

Granted(bd, addr, pages, pos, offset) ==
    [addr |-> addr,
     bd |-> [bd EXCEPT !.reserved = @ \cup pages, !.last_pos = pos, !.last_offset = offset % PageSize]]

\* (Slip: what is left of the page is counted from last_offset, before it is aligned.)
ContinueUnaligned(bd, i, size, align) ==
    LET offset == Align(bd.last_offset, align)
        left   == size - (PageSize - bd.last_offset)
    IN  IF left < 0
        THEN Granted(bd, bd.last_pos * PageSize + offset, {}, bd.last_pos, offset + size)
        ELSE Granted(bd, bd.last_pos * PageSize + offset, i..(i + PagesUp(left) - 1),
                     i + PagesUp(left) - 1, left)

\* It continues in that page, and takes of the run what does not fit there.
Continue(bd, i, size, align) ==
    LET offset == Align(bd.last_offset, align)
        left   == size - (PageSize - offset)
    IN  IF left < 0
        THEN Granted(bd, bd.last_pos * PageSize + offset, {}, bd.last_pos, offset + size)
        ELSE Granted(bd, bd.last_pos * PageSize + offset, i..(i + PagesUp(left) - 1),
                     i + PagesUp(left) - 1, left)

Fresh(bd, i, size) ==
    Granted(bd, i * PageSize, i..(i + PagesUp(size) - 1), i + PagesUp(size) - 1, size)

AllocBootmem(bd, size, align) ==
    LET i == Find(bd, size)
    IN  IF Merges(bd, i, align) THEN Continue(bd, i, size, align) ELSE Fresh(bd, i, size)

(****************************************************************************)
(* free_all_bootmem_core: a word of the bitmap that is all clear goes as    *)
(* one block, if words are blocks of the buddy allocator; other clear bits  *)
(* go one by one; then the bitmap's own pages.                              *)
(****************************************************************************)
Word(bd, i) == (i - bd.start) \div LongBits
GoFast(bd) == bd.start % (2 * LongBits) = 0

WholeWords(bd) ==
    IF ~ GoFast(bd) THEN {}
    ELSE {i \in bd.start..(bd.end - LongBits) :
             (i - bd.start) % LongBits = 0 /\ i..(i + LongBits - 1) \cap bd.reserved = {}}

\* The number of bytes is rounded down.
MapPages(bd) ==
    bd.node_bootmem_map..(bd.node_bootmem_map + PagesUp((bd.end - bd.start) \div ByteBits) - 1)

Blocks(bd) ==
    {[page |-> i, pages |-> LongBits] : i \in WholeWords(bd)}
      \cup {[page |-> i, pages |-> 1] :
               i \in {k \in bd.start..(bd.end - 1) :
                         k \notin bd.reserved /\ bd.start + Word(bd, k) * LongBits \notin WholeWords(bd)}}

\* Its result, which becomes totalram_pages.
FreeAll(bd) ==
    [blocks |-> Blocks(bd) \cup {[page |-> i, pages |-> 1] : i \in MapPages(bd)},
     total  |-> Cardinality(WholeWords(bd)) * LongBits
                  + Cardinality({b \in Blocks(bd) : b.pages = 1}) + Cardinality(MapPages(bd))]
=============================================================================
