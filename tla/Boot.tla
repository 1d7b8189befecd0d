--------------------------------- MODULE Boot ---------------------------------
(****************************************************************************)
(* From the command line to the zones and the free lists: setup_arch_bs,    *)
(* arch/arm/init.c, arch/arm/mm-armv.c, init/main.c and the boot part of    *)
(* mm/page_alloc.c, over the boot memory allocator.  One processor runs it, *)
(* in one order; what varies is the layout (the user's part of the command  *)
(* line, the device tree) and the calls of the boot-time test modules.      *)
(*                                                                          *)
(* The device tree's probe appends to the user's arguments a bank of DMA    *)
(* and Normal memory and one of high memory behind it, so that the user's   *)
(* come first and these are always there.                                   *)
(****************************************************************************)
EXTENDS Bootmem, Sequences

CONSTANTS Base,           \* PHYS_OFFSET, as a frame
          DmaFrames,      \* BiscuitOS_dma_size
          NormalFrames,   \* BiscuitOS_normal_size
          HighSizes,      \* the values of BiscuitOS_high_size, in bytes
          UserArgs,       \* the user's part of the command line: sequences of arguments
          Pgdir,          \* the bytes of swapper_pg_dir, which precedes the kernel
          Kernel,         \* the bytes of the kernel: [start, size]
          Initrds,        \* the values of phys_initrd_start and _size
          StructPage,     \* sizeof(struct page_bs)
          CacheBytes,     \* SMP_CACHE_BYTES
          WaitHead,       \* sizeof(wait_queue_head_t)
          WaitPages,      \* PAGES_PER_WAITQUEUE
          WaitMin, WaitMax,         \* the limits of wait_table_size, powers of two
          BatchPages,     \* pages of a zone for a page of a batch, times four
          BatchMax,       \* a batch's limit, times four: a quarter of a megabyte
          PerCpuBytes,    \* size * NR_CPUS of setup_per_cpu_areas
          Bucket,         \* sizeof(struct hlist_head)
          Megabyte,       \* frames of a megabyte, to which a hash table's memory is rounded
          SectionFrames,  \* frames of a section mapping
          PgdFrames,      \* frames of a page directory entry
          TestSizes,      \* the sizes that the test modules ask for
          TestReserves,   \* the frames that they reserve
          TestCalls,      \* bound on their calls
          Ratio,          \* sysctl_lowmem_reserve_ratio
          HighScale,      \* pages of high memory for a page of its pages_min
          HighMin, HighMax,         \* SWAP_CLUSTER_MAX and 128
          MinFreeMin, MinFreeMax    \* the limits of min_free_kbytes

ASSUME BootAssumption ==
    /\ PageSize > 1 /\ CacheBytes \in Nat \ {0} /\ PageSize % CacheBytes = 0
    /\ {Base, DmaFrames, NormalFrames} \subseteq Nat /\ DmaFrames + NormalFrames > 0
    /\ HighSizes \subseteq Nat
    /\ \A user \in UserArgs :
          user \in Seq([kind : {"mem", "high"}, bank : [start : Nat, size : Nat]])
    /\ Initrds \subseteq [start : Nat, size : Nat]
    /\ {Kernel, Pgdir} \subseteq [start : Nat, size : Nat \ {0}]
    /\ Pgdir.start + Pgdir.size <= Kernel.start
    /\ {StructPage, WaitHead, WaitPages, WaitMin, BatchPages, PerCpuBytes, Bucket} \subseteq Nat \ {0}
    /\ {WaitMax, BatchMax} \subseteq Nat /\ WaitMin <= WaitMax
    /\ TestSizes \subseteq Nat \ {0} /\ TestReserves \subseteq Nat
    \* A hash table has an entry at least.
    /\ Megabyte \in Nat /\ Megabyte >= 4
    /\ (DmaFrames + NormalFrames) * PageSize >= 16 * Bucket
    /\ LongBits > 1
    /\ {PgdFrames, SectionFrames, HighScale} \subseteq Nat \ {0} /\ PgdFrames % SectionFrames = 0
    /\ \A z \in 1..2 : Ratio[z] \in Nat \ {0}
    /\ {HighMin, HighMax, MinFreeMin, MinFreeMax} \subseteq Nat
    /\ HighMin <= HighMax /\ MinFreeMin <= MinFreeMax

VARIABLES
    stage,       \* what runs next
    args,        \* the arguments not parsed yet
    seen,        \* the kinds of argument of which `usermem' is set
    mem,         \* meminfo
    high,        \* highmeminfo
    initrd,      \* phys_initrd_start, phys_initrd_size
    bd,          \* the node's bootmem_data
    live,        \* what __alloc_bootmem returned and nobody freed
    calls,       \* calls of the test modules so far
    kept,        \* (history) frames that a free or a reservation left reserved
    mapped,      \* the frames with a section mapping in lowmem
    zones,       \* node_zones, DMA first
    zonelists,   \* node_zonelists, as zone numbers
    freed,       \* the blocks given to the buddy allocator
    total,       \* totalram_pages
    physpages,   \* num_physpages
    reserve      \* lowmem_reserve of each zone

layout == <<args, seen, mem, high, initrd>>
bootVars == <<layout, stage, bd, live, calls, kept, mapped, zones, zonelists, freed, total, physpages, reserve>>

Bank(start, size) == [start |-> start, size |-> size]
Arg(kind, start, size) == [kind |-> kind, bank |-> Bank(start, size)]

\* BiscuitOS_memory_probe
Probed(highSize) ==
    LET low == (DmaFrames + NormalFrames) * PageSize
    IN  <<Arg("mem", Base * PageSize, low), Arg("high", Base * PageSize + low, highSize)>>

BootInit ==
    /\ stage = "cmdline"
    /\ \E user \in UserArgs, size \in HighSizes : args = user \o Probed(size)
    /\ seen = {} /\ mem = <<>> /\ high = <<>>
    /\ initrd \in Initrds
    /\ bd = Node(0, 0, 0)
    /\ live = {} /\ calls = 0 /\ kept = {} /\ mapped = {}
    /\ zones = <<>> /\ zonelists = <<>>
    /\ freed = {} /\ total = 0 /\ physpages = 0 /\ reserve = <<>>

\* early_mem and early_highmem: the first argument of a kind forgets what was there.
Parsed(kind, banks) == Append(IF kind \in seen THEN banks ELSE <<>>, Head(args).bank)

ParseArg ==
    /\ stage = "cmdline" /\ args # <<>>
    /\ LET kind == Head(args).kind
       IN  /\ seen' = seen \cup {kind}
           /\ mem'  = IF kind = "mem" THEN Parsed(kind, mem) ELSE mem
           /\ high' = IF kind = "high" THEN Parsed(kind, high) ELSE high
    /\ args' = Tail(args)
    /\ UNCHANGED <<initrd, stage, bd, live, calls, kept, mapped, zones, zonelists, freed, total, physpages, reserve>>

(****************************************************************************)
(* bootmem_init                                                             *)
(****************************************************************************)
Banks == {i \in DOMAIN mem : mem[i].size > 0}      \* the others get node -1
StartPfn(b) == PagesUp(b.start)
EndPfn(b)  == Frame(b.start + b.size)                 \* the frame after it
Memend == LET ends == {EndPfn(mem[i]) : i \in Banks} IN CHOOSE e \in ends : \A x \in ends : x <= e
NodeStart == LET starts == {StartPfn(mem[i]) : i \in Banks} IN CHOOSE s \in starts : \A x \in starts : s <= x
NodeEnd == Memend + Frame(high[1].size)

\* find_bootmap_pfn: in the first bank with room for it after the kernel.
BootmapAt(b) == LET end == PagesUp(Kernel.start + Kernel.size) IN IF StartPfn(b) < end THEN end ELSE StartPfn(b)
Roomy == {i \in Banks : /\ EndPfn(mem[i]) > BootmapAt(mem[i])
                        /\ EndPfn(mem[i]) - BootmapAt(mem[i]) >= BootmapPages(NodeEnd - NodeStart)}
FirstRoomy == CHOOSE i \in Roomy : \A j \in Roomy : i <= j

\* check_initrd
InitrdFits ==
    \E i \in Banks : mem[i].start <= initrd.start /\ initrd.start + initrd.size <= mem[i].start + mem[i].size

Freeing(d, b)   == FreeBootmem(d, b.start, b.size)
Reserving(d, b) == ReserveBootmem(d, b.start, b.size)
MapBank(map) == Bank(map * PageSize, BootmapPages(NodeEnd - NodeStart) * PageSize)

\* free_bootmem_node_bank: the banks in their order, then high memory.
Registered(map) ==
    LET node[n \in 0..Len(mem)] ==
            IF n = 0 THEN Node(NodeStart, NodeEnd, map)
            ELSE IF n \in Banks THEN Freeing(node[n - 1], mem[n]) ELSE node[n - 1]
    IN  Freeing(node[Len(mem)], high[1])

\* reserve_node_zero
NodeZero(map) == Reserving(Reserving(Reserving(Registered(map), Kernel), Pgdir), MapBank(map))

BootmemInit ==
    /\ stage = "cmdline" /\ args = <<>>
    /\ IF Roomy = {}
       THEN /\ stage' = "panic"
            /\ UNCHANGED <<bd, initrd>>
       ELSE LET d == NodeZero(BootmapAt(mem[FirstRoomy]))
            IN  /\ initrd' = IF initrd.size > 0 /\ ~ InitrdFits THEN Bank(0, 0) ELSE initrd
                /\ bd' = IF initrd'.size > 0 THEN Reserving(d, initrd) ELSE d
                /\ stage' = IF bd'.bug THEN "panic" ELSE "tests"
    /\ UNCHANGED <<args, seen, mem, high, live, calls, kept, mapped, zones, zonelists, freed, total, physpages, reserve>>

(****************************************************************************)
(* Allocations.  __alloc_bootmem panics when there is no run.               *)
(****************************************************************************)
Claim(size, align, next) ==
    IF Runs(bd, PagesUp(size)) = {}
    THEN stage' = "panic" /\ UNCHANGED <<bd, live>>
    ELSE LET got == AllocBootmem(bd, size, align)
         IN  /\ bd' = got.bd
             /\ live' = live \cup {[by |-> stage, start |-> got.addr, size |-> size, align |-> align]}
             /\ stage' = next

later == <<calls, kept, mapped, zones, zonelists, freed, total, physpages, reserve>>

\* The callers of modules/bootmem, in any order.
TestAlloc ==
    /\ stage = "tests" /\ calls < TestCalls
    /\ \E size \in TestSizes, align \in {CacheBytes, PageSize} : Claim(size, align, stage)
    /\ calls' = calls + 1
    /\ UNCHANGED <<layout, kept, mapped, zones, zonelists, freed, total, physpages, reserve>>

TestFree ==
    /\ stage = "tests"
    /\ \E a \in live :
        /\ bd' = Freeing(bd, a)
        /\ live' = live \ {a}
        /\ kept' = kept \cup (Touched(a.start, a.size) \ Within(a.start, a.size))
    /\ stage' = IF bd'.bug THEN "panic" ELSE stage
    /\ UNCHANGED <<layout, calls, mapped, zones, zonelists, freed, total, physpages, reserve>>

\* TestCase_bootmem_reserve: some bytes of a page, which freeing them does not give back.
TestReserve ==
    /\ stage = "tests" /\ calls < TestCalls
    /\ \E f \in TestReserves :
        LET b == Bank(f * PageSize, 1)
        IN  bd' = Freeing(Reserving(bd, b), b) /\ kept' = kept \cup {f}
    /\ calls' = calls + 1
    /\ stage' = IF bd'.bug THEN "panic" ELSE stage
    /\ UNCHANGED <<layout, live, mapped, zones, zonelists, freed, total, physpages, reserve>>

\* paging_init: the zero page.
ZeroPage ==
    /\ stage = "tests"
    /\ Claim(PageSize, PageSize, "memtable")
    /\ UNCHANGED <<layout, later>>

(****************************************************************************)
(* memtable_init, create_mapping: a bank in pieces, one for each entry of   *)
(* the page directory; a piece is mapped by sections if its ends are the    *)
(* ends of sections, and otherwise not at all.                              *)
(****************************************************************************)
Pieces(b) ==
    LET end == PagesUp(b.start + b.size)
        cut == {Frame(b.start), end} \cup {f \in Frame(b.start)..end : f % PgdFrames = 0}
    IN  {p \in cut \X cut : p[1] < p[2] /\ \A f \in cut : f <= p[1] \/ p[2] <= f}

SectionMapped(b) ==
    UNION {p[1]..(p[2] - 1) :
              p \in {q \in Pieces(b) : {q[1] % SectionFrames, q[2] % SectionFrames, b.start % PageSize} = {0}}}

MemtableInit ==
    /\ stage = "memtable"
    /\ mapped' = UNION {SectionMapped(mem[i]) : i \in Banks}
    /\ stage' = "mem_map"
    /\ UNCHANGED <<layout, bd, live, calls, kept, zones, zonelists, freed, total, physpages, reserve>>

(****************************************************************************)
(* free_area_init_node                                                      *)
(****************************************************************************)
NodeMemMap ==
    /\ stage = "mem_map"
    /\ Claim((bd.end - bd.start + 1) * StructPage, CacheBytes, "zone")
    /\ UNCHANGED <<layout, later>>

Spanned == bd.end - bd.start
FramesIn(banks) ==
    LET sum[n \in 0..Len(banks)] == IF n = 0 THEN 0 ELSE sum[n - 1] + Frame(banks[n].size)
    IN  sum[Len(banks)]

\* (Slip: high memory is not taken off the Normal zone.)
ZoneSizesHighTwice == <<DmaFrames, Spanned - DmaFrames, Frame(high[1].size)>>

\* paging_init and __arch_adjust_zones: spanned pages; with high memory configured,
\* holes count only in a node smaller than its DMA zone.
ZoneSizes ==
    IF Spanned < DmaFrames THEN <<Spanned, 0, 0>>
    ELSE <<DmaFrames, Spanned - DmaFrames - Frame(high[1].size), Frame(high[1].size)>>

Holes(j) == IF Spanned < DmaFrames /\ j = 1 THEN Spanned - FramesIn(mem) ELSE 0

Clamp(x, lo, hi) == IF x < lo THEN lo ELSE IF x > hi THEN hi ELSE x
Pow2[n \in Nat] == IF n = 0 THEN 1 ELSE 2 * Pow2[n - 1]
Log2(n) == CHOOSE k \in 0..n : Pow2[k] <= n /\ n < Pow2[k + 1]

\* wait_table_size: the first power of two that is enough.
WaitTableSize(pages) ==
    LET wanted == pages \div WaitPages
        log == CHOOSE k \in 0..pages : Pow2[k] >= wanted /\ (k > 0 => Pow2[k - 1] < wanted)
    IN  Clamp(Pow2[log], WaitMin, WaitMax)

\* free_area_init_core: (1 << fls(batch + batch / 2)) - 1.
PcpBatch(pages) ==
    LET quarter == Clamp(pages \div BatchPages, 0, BatchMax) \div 4
        batch   == IF quarter < 1 THEN 1 ELSE quarter
    IN  Pow2[Log2(batch + batch \div 2) + 1] - 1

\* pcp->low, high and batch of the hot and the cold list of each CPU.
Pageset(batch) ==
    [hot  |-> [low |-> 2 * batch, high |-> 6 * batch, batch |-> batch],
     cold |-> [low |-> 0, high |-> 2 * batch, batch |-> batch]]

\* free_area_init_core, one zone: an empty one gets no wait_table.
InitZone ==
    /\ stage = "zone" /\ Len(zones) < 3
    /\ LET j    == Len(zones) + 1
           size == ZoneSizes[j]
           from == IF j = 1 THEN bd.start ELSE zones[j - 1].zone_start_pfn + zones[j - 1].spanned_pages
       IN  /\ zones' = Append(zones, [zone_start_pfn |-> from, spanned_pages |-> size,
                                      present_pages |-> size - Holes(j),
                                      pageset |-> Pageset(PcpBatch(size - Holes(j))),
                                      pages_min |-> 0, pages_low |-> 0, pages_high |-> 0])
           /\ IF size = 0
              THEN UNCHANGED <<bd, live, stage>>
              ELSE Claim(WaitTableSize(size) * WaitHead, CacheBytes, stage)
    /\ UNCHANGED <<layout, calls, kept, mapped, zonelists, freed, total, physpages, reserve>>

\* kmap_init: a page table for the kmaps, and one for the fixmaps if theirs is another.
KmapInit ==
    /\ stage = "zone" /\ Len(zones) = 3
    /\ \E next \in {"kmap", "percpu"} : Claim(PageSize, CacheBytes, next)
    /\ UNCHANGED <<layout, later>>

KmapInitFixmap ==
    /\ stage = "kmap"
    /\ Claim(PageSize, CacheBytes, "percpu")
    /\ UNCHANGED <<layout, later>>

SetupPerCpuAreas ==
    /\ stage = "percpu"
    /\ Claim(PerCpuBytes, CacheBytes, "zonelists")
    /\ UNCHANGED <<layout, later>>

\* build_zonelists: list 0 from Normal down, list 1 (__GFP_DMA) DMA, list 2 from HighMem down.
Highest(i) == CASE i = 0 -> 2 [] i = 1 -> 1 [] i = 2 -> 3

\* build_zonelists_node: zone z, if the list has it.
Populated(z, i) == IF z <= Highest(i) /\ zones[z].present_pages > 0 THEN <<z>> ELSE <<>>

BuildZonelists ==
    /\ stage = "zonelists"
    /\ zonelists' = [i \in 0..2 |->
          Populated(3, i) \o Populated(2, i) \o Populated(1, i)]
    /\ stage' = "dcache"
    /\ UNCHANGED <<layout, bd, live, calls, kept, mapped, zones, freed, total, physpages, reserve>>

(****************************************************************************)
(* alloc_large_system_hash with HASH_EARLY, for the dentry and inode caches *)
(****************************************************************************)
HashEntries(scale) ==
    LET kernel == zones[1].present_pages + zones[2].present_pages
        all    == kernel + zones[3].present_pages
        wanted == Align(kernel, Megabyte) \div scale
        limit  == ((all * PageSize) \div 16) \div Bucket
    IN  Pow2[Log2(IF wanted > limit THEN limit ELSE wanted)]

DcacheInit ==
    /\ stage = "dcache"
    /\ Claim(Bucket * HashEntries(2), CacheBytes, "icache")
    /\ UNCHANGED <<layout, later>>

InodeInit ==
    /\ stage = "icache"
    /\ Claim(Bucket * HashEntries(4), CacheBytes, "mem_init")
    /\ UNCHANGED <<layout, later>>

(****************************************************************************)
(* mem_init: mem_map's unused parts, then everything, to the free lists     *)
(****************************************************************************)
MemMap == CHOOSE a \in live : a.by = "mem_map"
StructOf(f) == MemMap.start + (f - bd.start) * StructPage      \* pfn_to_page

\* (Slip: rounded to whole pages outwards.)
FreeMemmapOutwards(d, from, to) ==
    FreeBootmem(d, Frame(StructOf(from)) * PageSize,
                (PagesUp(StructOf(to)) - Frame(StructOf(from))) * PageSize)

\* free_memmap
FreeMemmap(d, from, to) ==
    LET pg    == Align(StructOf(from), PageSize)
        pgend == Frame(StructOf(to)) * PageSize
    IN  IF pg < pgend THEN FreeBootmem(d, pg, pgend - pg) ELSE d

\* free_unused_memmap_node: it stops at a bank below the one before.
AfterBank(s, b) ==
    IF s.unordered \/ Frame(b.start) < s.prev THEN [s EXCEPT !.unordered = TRUE]
    ELSE [bd        |-> IF s.prev \notin {0, Frame(b.start)} THEN FreeMemmap(s.bd, s.prev, Frame(b.start))
                        ELSE s.bd,
          prev      |-> PagesUp(b.start + b.size),
          unordered |-> FALSE]

WithoutHoles ==
    LET after[n \in 0..Len(mem)] ==
            IF n = 0 THEN [bd |-> bd, prev |-> 0, unordered |-> FALSE]
            ELSE IF n \in Banks THEN AfterBank(after[n - 1], mem[n]) ELSE after[n - 1]
    IN  IF Len(mem) = 1 THEN bd ELSE after[Len(mem)].bd

MemInit ==
    /\ stage = "mem_init"
    /\ bd' = WithoutHoles
    /\ freed' = IF bd'.bug THEN {} ELSE FreeAll(bd').blocks
    /\ total' = IF bd'.bug THEN 0 ELSE FreeAll(bd').total
    /\ physpages' = FramesIn(mem) + FramesIn(high)
    /\ stage' = IF bd'.bug THEN "panic" ELSE "marks"
    /\ UNCHANGED <<layout, live, calls, kept, mapped, zones, zonelists, reserve>>

(****************************************************************************)
(* init_per_zone_pages_min                                                  *)
(****************************************************************************)
Sqrt(n) == CHOOSE k \in 0..n : k * k <= n /\ n < (k + 1) * (k + 1)
Lowmem == zones[1].present_pages + zones[2].present_pages

\* nr_free_buffer_pages, when no zone has its marks yet, times 16.
MinFree == Clamp(Sqrt(Lowmem * PageSize * 16), MinFreeMin, MinFreeMax)

PagesMin(z) ==
    IF z = 3 THEN Clamp(zones[z].present_pages \div HighScale, HighMin, HighMax)
    ELSE ((MinFree \div PageSize) * zones[z].present_pages) \div Lowmem

\* setup_per_zone_lowmem_reserve: of zone z, against allocations that could use zone j.
LowmemReserve(z, j) ==
    IF z >= j THEN 0
    ELSE LET above(k) == IF z < k /\ k <= j THEN zones[k].present_pages ELSE 0
         IN  (above(2) + above(3)) \div Ratio[z]

InitPerZonePagesMin ==
    /\ stage = "marks"
    /\ zones' = [z \in 1..3 |-> [zones[z] EXCEPT !.pages_min = PagesMin(z),
                                                 !.pages_low = (PagesMin(z) * 5) \div 4,
                                                 !.pages_high = (PagesMin(z) * 6) \div 4]]
    /\ reserve' = [z \in 1..3 |-> [j \in 1..3 |-> LowmemReserve(z, j)]]
    /\ stage' = "up"
    /\ UNCHANGED <<layout, bd, live, calls, kept, mapped, zonelists, freed, total, physpages>>

BootNext ==
    \/ ParseArg \/ BootmemInit
    \/ TestAlloc \/ TestFree \/ TestReserve
    \/ ZeroPage \/ MemtableInit \/ NodeMemMap \/ InitZone
    \/ KmapInit \/ KmapInitFixmap \/ SetupPerCpuAreas \/ BuildZonelists
    \/ DcacheInit \/ InodeInit \/ MemInit \/ InitPerZonePagesMin

BootSpec == BootInit /\ [][BootNext]_bootVars

(****************************************************************************)
(* Properties                                                               *)
(****************************************************************************)
FramesOf(b) == StartPfn(b)..(EndPfn(b) - 1)
LowRam == UNION {FramesOf(mem[i]) : i \in Banks}
Ram == LowRam \cup FramesOf(high[1])
Apart(a, b) == a.start + a.size <= b.start \/ b.start + b.size <= a.start
Bitmap == Bank(bd.node_bootmem_map * PageSize, BootmapPages(Spanned) * PageSize)
Fixed == {Kernel, Pgdir} \cup {b \in {initrd} : b.size > 0}
TouchedBy(b) == Touched(b.start, b.size)

\* The layouts that the code is written for: banks apart, the lowest at PHYS_OFFSET, none
\* between two that come before it, high memory right behind the highest, the initrd
\* clear of what the kernel takes.
WellFormed ==
    /\ \A i, j \in Banks : i < j => Apart(mem[i], mem[j])
    /\ \A i, j, k \in Banks : i < k /\ j < k => ~ (mem[i].start < mem[k].start /\ mem[k].start < mem[j].start)
    /\ NodeStart = Base
    /\ high[1].size > 0 /\ high[1].start = Memend * PageSize
    /\ initrd.size > 0 => \A b \in {Kernel, Pgdir} : Apart(b, initrd)

\* What boot-time callers hold is aligned as they asked, apart from all else that is
\* in use (the kernel, its page directory, the bitmap, the initrd), in pages of memory
\* that the bitmap has as reserved (__alloc_bootmem_core, free_bootmem_core).
AllocSound ==
    stage # "panic" =>
        \A a \in live :
            /\ a.start % a.align = 0
            /\ \A b \in (live \ {a}) \cup Fixed \cup {Bitmap} : Apart(a, b)
            /\ TouchedBy(a) \subseteq Ram
            /\ stage \notin {"marks", "up"} => TouchedBy(a) \subseteq bd.reserved

\* The boot of a well-formed layout neither panics nor allocates from high memory, which
\* has no direct mapping (free_bootmem_core, __alloc_bootmem).
LayoutBoots ==
    stage # "cmdline" /\ WellFormed => stage # "panic" /\ \A a \in live : TouchedBy(a) \subseteq LowRam

Handed == UNION {b.page..(b.page + b.pages - 1) : b \in freed}
Zone(z) == zones[z].zone_start_pfn..(zones[z].zone_start_pfn + zones[z].spanned_pages - 1)

\* mem_init gives the buddy allocator every frame of memory that is not in use, once,
\* with a count that is right, in blocks that lie in a zone if high memory starts with a
\* word of the bitmap; not a frame that holds the kernel, the initrd, a boot allocation or
\* the struct page of memory.  Only the bitmap's last page is lost, where the count of
\* bitmap pages rounds down (mem_init, free_all_bootmem_core, free_memmap).
HandedOver ==
    stage \in {"marks", "up"} /\ WellFormed /\ (initrd.size > 0 => Apart(initrd, Bitmap)) =>
        LET inUse == (UNION {TouchedBy(b) : b \in Fixed \cup (live \ {MemMap})})
                       \cup (UNION {Touched(StructOf(f), StructPage) : f \in Ram})
            last  == bd.node_bootmem_map + BootmapPages(Spanned) - 1
        IN  /\ Handed \cap inUse = {}
            /\ Handed \subseteq Ram
            /\ total = Cardinality(Handed) /\ total <= physpages
            /\ {DmaFrames % LongBits, (Memend - Base) % LongBits} = {0} =>
                  \A b \in freed : \E z \in 1..3 : b.page..(b.page + b.pages - 1) \subseteq Zone(z)
            /\ Ram \ (Handed \cup inUse \cup kept \cup TouchedBy(MemMap)) =
                  IF Spanned % (PageSize * ByteBits) \in 1..(ByteBits - 1) THEN {last} \ kept ELSE {}

\* Banks of whole sections.
Sectioned == \A i \in Banks : {mem[i].start % (SectionFrames * PageSize), mem[i].size % (SectionFrames * PageSize)} = {0}

\* The zones divide the node among them, HighMem being the high bank and the others
\* memory with a direct mapping, if banks are made of sections; a fallback list goes down
\* from its highest zone; a per-cpu list refills and drains by a batch without passing its
\* marks; the marks rise, ask of lowmem no more than min_free_kbytes, and the higher the
\* zone an allocation could use, the more of this one is kept from it (free_area_init_core,
\* __map_init_section, build_zonelists, setup_per_zone_pages_min, setup_per_zone_lowmem_reserve).
ZonesSound ==
    Len(zones) = 3 /\ stage # "panic" /\ WellFormed =>
        /\ UNION {Zone(z) : z \in 1..3} = NodeStart..(NodeEnd - 1)
        /\ Zone(1) \cap Zone(2) = {}
        /\ Zone(3) = FramesOf(high[1])
        /\ Sectioned => (Zone(1) \cup Zone(2)) \cap LowRam \subseteq mapped /\ mapped \cap Zone(3) = {}
        /\ \A z \in 1..3 : LET p == zones[z].pageset
                          IN  /\ Pow2[Log2(p.hot.batch + 1)] = p.hot.batch + 1
                              /\ p.hot.low >= p.hot.batch /\ p.cold.high >= p.cold.batch
        /\ \A i \in DOMAIN zonelists, k \in 1..3 :
              k + 1 \in DOMAIN zonelists[i] => zonelists[i][k] > zonelists[i][k + 1]
        /\ stage = "up" =>
              /\ \A z \in 1..3 : /\ 0 <= zones[z].pages_min /\ zones[z].pages_min <= zones[z].pages_low
                                 /\ zones[z].pages_low <= zones[z].pages_high
                                 /\ \A j \in 1..2 : reserve[z][j] <= reserve[z][j + 1]
              /\ zones[1].pages_min + zones[2].pages_min <= MinFree \div PageSize
=============================================================================
