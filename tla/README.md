# A verification project for BiscuitOS_Memory

BiscuitOS_Memory is a memory manager in the form of a kernel module: the memory
management of Linux 2.6.10 and its neighbours, ported to run beside the host
kernel's own on a range of physical memory that the device tree sets aside. Every
function has the suffix `_bs`, which this text and the modules drop. This directory holds TLA+
models of its parts, the configurations with which TLC checks them on small
instances, and proofs for TLAPS that carry the most important results to every
instance.

    tlc -config MCPageAlloc.cfg MCPageAlloc.tla     (any MC module with one of its cfgs)
    tlapm PageAlloc_proofs.tla                      (any *_proofs module)

## 1. The system

| component | state it keeps | operations | correct when |
|---|---|---|---|
| buddy allocator and per-CPU lists (`mm/page_alloc.c`) | `free_area[order]`, `PG_private`/`private`/`_count` of each page, `free_pages`, the hot and cold list of each CPU, `zone->lock` | `buffered_rmqueue`, `__rmqueue`, `expand`, `rmqueue_bulk`, `__free_pages`, `free_hot_cold_page`, `free_pages_bulk`, `__free_pages_bulk` | no frame has two owners, none is lost, free blocks are always merged |
| watermarks, retries, kswapd (`mm/page_alloc.c`, `mm/vmscan.c`) | `nr_free`, `pages_min/low/high`, `lowmem_reserve`, `kswapd_max_order`, `kswapd_wait`, the scan counters | `__alloc_pages`, `wakeup_kswapd`, `kswapd`, `balance_pgdat`, `try_to_free_pages`, `shrink_zone` | reserves are kept, wakeups arrive, scans end |
| LRU lists and pagevecs (`mm/swap.c`, `mm/vmscan.c`) | active and inactive list, `PG_lru`, per-CPU pagevecs, `lru_lock` | `lru_cache_add`, `__pagevec_lru_add`, `release_pages`, `isolate_lru_pages`, `refill_inactive_zone` | a page is freed once, and is on a list exactly if it says so |
| memory pools (`mm/mempool.c`) | `curr_nr`, `min_nr`, `elements`, `wait` | create, alloc, free, resize, destroy | the reserve is kept, sleepers are woken |
| permanent kmaps (`mm/highmem.c`) | `pkmap_count`, the page table, the hash of page addresses, the TLBs, `pkmap_map_wait` | `kmap_high`, `kunmap_high`, `flush_all_zero_pkmaps`, `map_new_virtual` | a mapping is stable while it is used; sleepers are woken |
| atomic kmaps, emergency pool (`mm/highmem.c`) | one fixmap slot per type and CPU; a mempool | `kmap_atomic`, `kunmap_atomic` | slots nest |
| slab allocator (`mm/slab.c`) | per-CPU array caches, three lists of slabs per cache, the cache chain | cache create, destroy, shrink and tune, alloc, free | an object has one owner; a slab is destroyed when nobody uses it |
| vmalloc (`mm/vmalloc.c`) | the sorted list of areas, kernel page tables | `__get_vm_area`, `map_vm_area`, `vmalloc`, `vmap`, `vfree`, `vunmap` | areas are disjoint and in range; errors undo what was done |
| boot memory (`mm/bootmem.c`, `arch/arm/init.c`) | one bitmap per node, `last_pos`, `last_offset`, `last_success` | reserve, free, `__alloc_bootmem_core`, `free_all_bootmem_core` | allocations are disjoint; what is free reaches the buddy allocator |
| zones and zonelists (`mm/page_alloc.c`) | the zones' sizes and marks, the fallback lists | `build_zonelists`, `setup_per_zone_*` | fallbacks go down; marks are ordered |
| tmpfs (`mm/shmem.c`) | superblock limits and free counts, inodes | mount, remount, link, unlink, rename | blocks and inodes balance |
| reverse mapping (`mm/rmap.c`) | none of its own | `page_referenced` | - |
| page tables (`mm/memory.c`, `arch/arm/mm-armv.c`) | kernel page tables | `create_mapping`, `memtable_init` | - |
| boot and command line (`init/main.c`, `fs/params.c`, `arch/arm/setup.c`) | `meminfo`, the parsed options | `start_kernel`, `parse_args`, `parse_early_options` | - |
| page cache, swap and file stubs | none | - | - |
| test modules (`modules/`) | none | one caller at a time | - |
| ARM caches and TLB (`arch/arm/*.S`) | the processor's | flushes | - |

How they meet. Boot memory hands its free frames to the buddy allocator and is
not used after that. `__alloc_pages` tests watermarks, takes pages from the buddy
allocator through the per-CPU lists, and wakes or calls reclaim; reclaim works on the LRU
lists and gives pages back through pagevecs. The slab allocator, vmalloc and memory
pools are clients of `__alloc_pages`; kmap gives its high pages addresses. All share
memory and locks: callers are tasks and interrupt handlers on several CPUs, and one
daemon, kswapd, runs by itself. (`cache_reap`, which would be a timer, is started by nothing:
`__initcall_bs` is empty, and so is `register_cpu_notifier`.)

What is hard:

* **Races between lists that look alike.** A page on a per-CPU list, a page in the
  hand of a context and a free buddy all have a count of zero; only `PG_private`
  tells them apart (`page_alloc.c:838`).
* **Reads outside of locks.** Watermarks (`page_alloc.c:1207`), `pool->curr_nr`
  (`mempool.c:255`), `kswapd_max_order` (`vmscan.c:550`).
* **Locks dropped in the middle.** `mempool_resize`, `kmap_high`, `cache_grow`.
* **Lost wakeups.** `pool->wait`, `pkmap_map_wait`, `kswapd_wait`.
* **Boundaries.** Zones that do not start on a large block, bitmaps that end within a
  byte, address ranges at the end of a region.
* **Half-done work.** Resizes and `vmalloc`s that run out of memory on the way.

`PROJECT.json` lists each at its line, with the properties that would catch it.
Where none does yet, a note says why.

## 2. The plan

In the order of how much of the system rests on them:

1. `Zone`, `PageOwner`, `PageAlloc` - the page allocator (done, all but liveness proved)
2. `Mempool` (done, all but liveness proved)
3. `Kmap` (done, safety proved), and `KmapTlb`, what the CPUs make of it (done)
4. `Reclaim` - watermarks, retries and kswapd (done, safety proved)
5. `Objects`, `ObjectOwner`, `Slab` - one slab cache (done, safety proved). Left for it: where the
   descriptor of a slab lies and the layout of objects (`cache_estimate`), as functions.
6. `Lru` - batches of pages and the scan of the active list (done, safety proved)
7. `Vmalloc` - the areas and the page tables behind them (done, safety proved)
8. `Bootmem` and `Boot` - the bitmap, the order of the boot, the zones and their marks (done, safety
   proved but for `LayoutBoots`, which depends on how much memory there is).
9. `Shmem` - directories and counts of a tmpfs (done, safety proved).
10. Atomic kmaps and the emergency pool, beside `Kmap` and `Mempool`; rename flags in `Shmem`.

Boot hands its free blocks to what `PageAlloc` starts from; what `Lru` frees is freed by `PageAlloc`'s
actions; `Reclaim` takes its marks, which `Boot` computes, as constants. They are separate
specifications, since their states side by side are out of TLC's reach; the parameters of each
are chosen among what the other produces.

Parameters are constants with named assumptions; invariants are conjunctions of named
parts; no module that is proved about uses a RECURSIVE operator.

## 3. The modules

In every module a *context* is a task, an interrupt handler or a daemon; `pc` says where
in the code it is, and the other per-context variables are its locals. A stretch
of code that no other context can observe (all of it under one lock that guards
what it touches, or on locals) is one step. Where two contexts could observe a
difference there are two steps. Operators whose comment begins with "Slip" are
faulty variants of an action, a record of the mistakes against which each property
was tried; no specification uses them.

### Zone, PageOwner and PageAlloc

`Zone` has the frames and the arithmetic of blocks that both use. `PageOwner` is what callers are promised: blocks handed out are aligned, in the zone,
clear of reserved frames and disjoint. `PageAlloc` is the code.

* `blocks` is the set of all blocks with the place each is in: a free list, a per-CPU
  list, a caller, or a context on its way from one to the other. `pageOrder` stands
  for `PG_private` and `page->private`, `pageCount` for `page_count`.
* The order of entries on a list is abstracted; an entry may be any member. The
  code takes the first, and no property depends on which.
* `Init` is the state in which `free_all_bootmem_core` has cleared `PG_reserved` and set
  the counts of what it is about to free: any of the whole free words of its
  bitmap as blocks of order `BootOrder` (the code's `gofast` case), all else page by page.
  Boot's calls of `__free_pages` are then calls like any other.
* Allocation: `AllocPage` (order 0: interrupts off, the list of this CPU; refill
  as `RefillLock`, `FindFree`, `Detach`, `Expand`, `RefillAdd`, `RefillUnlock`; `Take`,
  `TakeNone`), `AllocPages` (`__rmqueue` under the lock, `RmqueueFail`, `RmqueueUnlock`), `PrepNewPage`.
* Freeing: `PutPage`, then `FreePage` with its batch to drain (`DrainLock`, `Drain`,
  `DrainUnlock`, `ListAdd`) or `FreeLock`, and the merge loop `TestBuddy`,
  `Join`, `Place`. `GetPage` takes a further reference, as `isolate_lru_pages` does.
* Left out: statistics (`page_state`), `all_unreclaimable` and `pages_scanned`, debug
  hooks, `bad_page`'s repairs, NUMA, `__GFP_ZERO`. Zonelists and watermarks are `Reclaim`'s.
* A context that holds `zone->lock` alone is not tied to a CPU, which allows more than the
  code does. Only `__pagevec_free` frees to a cold list.
* `Size` is a constant function with `Size[o + 1] = 2 * Size[o]` in place of `2^o`, which
  no prover knows; the index modulo `1 << MAX_ORDER` is the frame number, whose bit
  `order` is the same.

### Mempool

Elements are counted. A section under `pool->lock` is a step; so is each read of
`curr_nr` without it (`mempool_free`'s first test, the test between `prepare_to_wait`
and `io_schedule`). `pool->alloc` may fail on any call. `Resize` reaches every point at which
`mempool_resize` drops the lock: `Shrink` per element, `Grow` after the new array
was allocated or not (`GrowFails`), `Fill` per element, or `FillFails`; nothing keeps two contexts from resizing at
once, and the comment at `mempool.c:137` expects it. `Create` and `Destroy` happen when no call is
under way, as the documentation of the code demands; a destroy that finds elements
missing sets `pool` to `"bug"`.

`past` remembers what a resize has done to the pool, for three things of the code (section 5)
that the properties except, each by its own mark and no more: `"grown"`, elements were added without a wakeup; `"short"`, it ran out of elements;
`"raised"`, a shrinking loop ended by storing a `min_nr` above the one that another resize had left. After the
last the array may be smaller than `min_nr`: `AddOutside` is the store behind its end, with which a behaviour ends (`pool` is `"overrun"`).

### Kmap

One mapping per task. A section under `kmap_lock` is a step: `KmapMapped`, `KmapNew`,
`KmapFlush` and `KmapSleep` are the ways through `kmap_high`, `Kunmap` is `kunmap_high` up to the
unlock and `WakeUp` what follows it. `last_pkmap_nr` is `last`. The hash table of page addresses is `addr`,
the page table `pte`.

`KmapTlb` puts the same steps on CPUs that cache translations: `tlb[s]` has each page that some CPU may still
translate slot `s` to. `Walk` adds what the page table holds at any moment, `Evict` drops
something. `flush_all_zero_pkmaps` ends with `flush_tlb_kernel_range`, which is an empty macro
(`asm-generated/highmem.h:38`, `tlbflush.h:336`), and `set_pte` and `pte_clear` (`proc-v7-2level.S:23`) invalidate nothing: `FlushTlb` changes nothing.
That is why *mapped* in `Kmap` means mapped in the page table.

### Objects, ObjectOwner and Slab

`ObjectOwner` is what the users of a cache are promised: an object they get is nobody
else's, and its pages stay until it is given back. `Slab` is the code for one cache;
`Objects` has the arithmetic of objects that both use.

* Each object is free in its slab (`free`, the bufctl chain), in the array of a CPU, in the
  shared array, or in use; `list` says which of the three lists a slab is on. An array is the
  set of its objects, as nothing depends on which of them a call takes.
* Allocation is `Take`, or a refill: `RefillShared`, `RefillLists`, or `RefillGrow` with
  `GrowAdd` or `GrowFails` and another try (`pc` is `"retry"`), perhaps on another CPU or with an
  array that was filled meanwhile. `ac->touched` decides between two sizes of batch, and
  either is possible (`Batches`).
* Freeing is `Put`, `PutShared` or `PutBlock`, the latter by `FreeBlock`, which destroys the slabs
  that become empty while the cache has more than `free_limit` objects. Which these are depends on the order
  of objects in the array, which is open.
* `Shrink` and `Destroy` drain the array of the CPU they run on, `DrainShared` the shared
  one, `Sweep` and `Unmap` take and destroy the free slabs one by one. `Destroy` happens when
  no other call than a free is under way, which its documentation demands (`slab.c:2477`).
* `homes` are the CPUs that have an array. `smp_call_function_all_cpus` runs its function
  on its own CPU only, the call for the others being compiled out (`slab.c:1569`), though its
  comment says that it "waits for all CPUs to execute func()". A new cache therefore has an array on
  its creator's CPU alone, or none if the arrays could not be allocated, since
  `enable_cpucache` drops that error; a call on another CPU dereferences NULL,
  which is `Oops`: the context stops there, with interrupts off. The general caches, which `kmem_cache_init` makes before it
  tunes them, may have arrays on two CPUs. For the same reason a shrink
  leaves the arrays of other CPUs as they are.
* Left out: `cache_reap` and CPU hotplug, which are never started; colours, constructors, debugging, RCU, the
  place of the slab descriptor, `free_touched`, the chain of caches.

### Lru

The lists of several zones, each with its `lock`, one `Scanner` that runs `refill_inactive_zone`
and tasks that put and release pages in batches of up to `VecSize`.

* `AddPage` and `Unlist` are the bodies of the loops of `__pagevec_lru_add`,
  `__pagevec_lru_add_active` and `release_pages` under the lock; `LeaveZone` and `EnterZone` are the change of
  locks from a page of one zone to one of another, which `release_pages` puts off while
  it drops references: `Put` is a step of its own, with or without a lock held from before.
* `Isolate` and `GiveBack` are `isolate_lru_pages` for one page: off the list, then the reference,
  then back if that found the page at zero. `IsolateEnds` is the rest of the scan. Nothing in the code
  puts pages from `l_active` or `l_inactive` back; they are in `lost` from then on, with
  the scan's reference, and `refs` has no one who owes it.
* `refs` and `fresh` are those of a caller who plays by the rules: who adds a page has just
  got it, who releases one has a reference. `free` is the page allocator.
* `MaxRefs` bounds the references of one task on one page.

### Vmalloc

Addresses and sizes are in pages. `vmlist` is the list; an area has `frames`, its `pages[]`, `nr`, its
`nr_pages`, and `array`, where `pages[]` is stored. `pte` and `present` are the kernel's page tables,
`free` the frames that the page allocator has. A task's `stack` holds its calls of
`__vmalloc` and `__vunmap`, the innermost last, since `pages[]` of a large area is allocated and freed by the same functions.

* `Search` is `__get_vm_area`'s loop, a recursive function of the number of areas that it has passed, and so are
  `Vread` and `Vwrite`, which each run under the lock. `Aligns` are the alignments there are, a chain of doubles. `Vmalloc` or `NestArray` insert the area, `SlabArray`,
  `NoArray`, `ArrayGiven` are the array's allocation, `AllocPage` and `AllocPageFails` the loop over its pages,
  `LockTables`, `MapPages`, `DropLock`, `NewTable`, `NoTable`, `MapFails` are `map_vm_area` with `pte_alloc_kernel`,
  `Vmap` starts at the mapping, `Vunmap` and `Release` are `__vunmap`.
* `"oops"` is where `__vmalloc` gets NULL for an area and `__vmalloc_area` dereferences
  it (`vmalloc.c:375`); the task stops there.
* A step of the code that reads or writes memory it does not mean ends a behaviour, as what follows
  depends on what lies there; `fault` says which. `ClearsWildly`: `vunmap_pmd_range` has no `pmd_none` test, so unmapping
  an address without a table (`HasTables` fails) clears an entry of whatever is at physical address 0; an area that was not mapped yet
  does that, and so does a guard page that is the first page of the next table. `KfreesArea`: a `vmalloc` that runs out of pages sets `nr_pages` to what it got; if that is few, `__vunmap` hands
  the array to `kfree` though it is an area. `Touches`: `vread` or `vwrite` comes to an area that is on the list and
  not mapped yet.
* `Vread` gives what the access at each address gets: the page in the page table, `Zero` in a hole, `None` where it faults.
  `ReadCount` and `WriteCount` are what the two functions make of a count that overflows; `vwrite` subtracts the address from the count
  (`vmalloc.c:563`) where `vread` stops at the end of the address space.
* Two history variables qualify the properties.
  `strained`: the end of the range is looked at only after another area was passed, so that
  the first area, one larger than the range, or an aligned one (`VM_IOREMAP`) may end past
  `VMALLOC_END`. `replaced`: section 5, `vmalloc_tables`.
* The flush that ends `unmap_vm_area` (`vmalloc.c:81`) is the same empty macro as in kmap: CPUs may use a translation of an
  area that is gone. `pte` is the page table, and no property says more.
* `VmStart` is whatever `VMALLOC_START` comes to: `VMALLOC_OFFSET` is ten pages, no power of two, so the
  macro's mask aligns nothing.
  `MaxAreas` bounds the number of areas, `VmallocSizes` and `VmapSizes` the requests, and `Top` the addresses that an
  area beyond `VMALLOC_END` may reach; `Counts` are the counts of pages asked of `vread` and `vwrite`, and `Space` is where addresses wrap.

### Bootmem and Boot

`Bootmem` is `mm/bootmem.c` as operators on one node's record: `FreeBootmem`, `ReserveBootmem`,
`AllocBootmem`, `FreeAll`. A `BUG()` sets `bug`, and whoever called goes to the stage `"panic"`. A goal is given by nobody
but as 0 or below the node, and no alignment exceeds a page, so that `last_success` and the alignment of
frames have no effect and are left out.

`Boot` calls them in the order of `start_kernel`: the arguments (`ParseArg`), the banks with the bitmap, the
kernel and the initrd (`BootmemInit`), the test modules' calls in any order (`TestAlloc`, `TestFree`, `TestReserve`), the
zero page and the mappings of lowmem (`MemtableInit`), `mem_map`, the zones with their wait tables and
per-CPU marks (`InitZone`), the kmap tables, the per-CPU areas, the zonelists, the two hash tables, then
`mem_init` with the holes of `mem_map` and `free_all_bootmem`, and the marks. One processor runs it; what varies is the layout, whose values are
sets of arguments and of initrds, and what the boot-time callers do. An allocation that finds
no run panics, as the code does.

What the model shows of the code beside the properties, each a state of the run:

* The probe appends its `mem=` and `highmem=` to the user's, on the same command line. The first argument of a kind
  resets the banks, with the comment "If the user specifies memory size, we blow away any
  automatically generated size" (`setup.c:82`), but the generated one follows and stays.
* Only the first bank of high memory is used, while `num_physpages` counts all. A high bank of no size panics
  in `free_bootmem_core` (`BUG_ON(!size)`), and so do banks that overlap.
* If the banks are not in order, the holes between them keep their struct pages. If one comes after two and lies
  between them, it is worse: `free_unused_memmap_node` has by then freed the struct pages between the two, this bank's with them
  (its FIXME, `mm-armv.c:646`, says that it relies on the order). `WellFormed` leaves these layouts out; without that
  conjunct TLC refutes `HandedOver` with the user's banks at 68, 88 and 80, of 4 frames each.
* `free_all_bootmem_core` gives a clear word of the bitmap away as one block. If high memory does not start with a word, a block
  lies in two zones: without that hypothesis of its fourth conjunct TLC refutes `HandedOver` with a bank of 3 frames at 64.
* An initrd in lowmem right after the kernel shares pages with the bitmap (the FIXME at `init.c:155`); `HandedOver`
  leaves these layouts out.
* If no run of lowmem is large enough, an allocation is given high memory, which has no
  direct mapping. The instance leaves room, and `LayoutBoots` says that it does not happen there.
* The end of a bank that is not at a section's end is not mapped (`BS_DUP` in place of the small page mapping).
* Holes count as present pages in a node larger than its DMA zone.
* A page reserved for a few bytes is not given back by freeing them
  (`TestCase_bootmem_reserve`): `kept`.

Left out: `NR_BANKS`, which is not checked; what the search reads past the bitmap's end when memory is
full; buddies of blocks next to a hole, whose struct pages were given away; the bits of
page table entries; the parser of other options.

### Shmem

The kernel's VFS calls the operations, and holds the lock of each directory they change.
`Reserve`, then `NoInode` or `Create`, are `mknod`, `mkdir` and `symlink`: the count is taken before `new_inode`, which may sleep and
fail, so other calls and a remount come in between. `at` is what a task is creating. `Unlink`, `Rmdir`
and `Rename` are one step. `Path(d)` is what the kernel's `lock_rename` finds on the way up from `d`, as the least set that is
closed upward, so that a proof can compare the paths of two states. `Mount` takes its options from the sets `Limits` and `Blocks`; `Unmount` drops
the dentries and with each its inode.

What the model has of the code as it is:

* `shmem_set_size` sets the maxima and leaves the free counts (`shmem.c:183`). What the next remount takes
  for used is the difference, unsigned (`Used`): a smaller limit does not limit, and a later remount may be refused.
* No inode goes back to `free_inodes` when its file goes: `shmem_unlink` gives it back for the second and
  later links only, and there are none. `gone` counts those; `MaxGone` bounds them.
* `symlink` makes an inode and returns success without making a dentry of it or putting it. The inode counts as in use, and after the unmount
  it is still there, without its super block: `stray`. (`Inos` bounds the inodes there are, stray ones included.)
* `d_make_root` puts the root's inode when it fails and the error path puts it again:
  `MountPutsTwice`, to the state `"undefined"`.
* `shmem_rename` ignores its flags. `RENAME_EXCHANGE` and `RENAME_NOREPLACE` are left out; so is everything
  about pages of files, which are stubs.

### Reclaim

A zone is its number of free blocks of each order; which frames they are is
`PageAlloc`'s affair. The passes of `__alloc_pages` are `mark`: `low`, then waking
kswapd, `min`, then by the request `any`, failure or `reclaim`, `high` and back. `Test` and `Take` are two
steps, since nothing is held between them. `WakeupKswapd`, `RaiseOrder` and `Rouse` are
the three accesses of `wakeup_kswapd` that kswapd can see apart; `Prepare`, `ReadOrder`,
`ClearOrder`, `Awake` are kswapd's own. `Look` and `ShrunkKswapd` are the two loops of
`balance_pgdat`, `ShrinkZone`, `ShrinkTurn` and `ShrinkSpin` those of `shrink_zone`.

* `DEFINE_WAIT` takes a woken process off its queue: `Rouse` clears `onQueue`.
  `waitqueue_active` and `wake_up` are one step.
* `try_to_free_pages` returns 0 on every path and `out_of_memory` is empty, so what
  `__alloc_pages` does after progress is unreachable, and left out. `all_unreclaimable`
  is never set; the tests of it are left out.
* The LRU lists are counted. Nothing in the repository puts a page on them in the
  course of what is modelled, so the instances have them empty. The updates of
  `nr_scan_*` are taken for atomic. Per-CPU lists are left out.

## 4. What is checked

| run | instance | shows |
|---|---|---|
| `page_alloc` | 2 contexts, 2 CPUs, frames 2..7 with 2 and 3 reserved, orders 0..2, batch 1, one page with up to 2 references | the partition of frames, marks, counters, coalescing, refinement of `PageOwner`; a request fails only if no run of frames is free; every call returns |
| `mempool` | 2 callers, 2 resizers, pools of 1 and 4, resizes to 1, 2 and 3 | reserve within `min_nr`, `min_nr` within the array unless raised too late; the reserve kept, unless a resize fell short or was overtaken; no lost wakeup and sleepers wake, unless a resize added elements |
| `kmap` | 4 tasks, 3 pages, 2 slots | mappings stable in the hash and page tables, counts agree, no sleeper left behind |
| `kmap_tlb` | 2 tasks, 3 pages, 2 slots, with TLBs | **violated**: a slot's new user reads the page that had the slot before |
| `slab` | 3 contexts, 2 CPUs, 3 slabs of 2 objects, arrays of 3, batches of 2 or 1, a shared array of 1 | objects in one place, lists and count exact, an unused cache can be destroyed, refinement of `ObjectOwner` |
| `reclaim` | 2 tasks, kswapd, 2 zones, orders 0 and 1, four kinds of request | the reserve is kept, kswapd does not sleep on an order |
| `shrink_spin` | 1 task and kswapd with the code's `SWAP_CLUSTER_MAX` and `DEF_PRIORITY` | **violated**: the 32nd scan of a zone never ends |
| `lru` | 2 tasks and the scanner, 2 pages in one zone or in two, batches of 2 | references exact; flags, lists and counts agree; a page nobody holds is freed, once, and clean |
| `vmalloc` | 2 tasks, 5 frames, a range of 7 pages, requests of 1, 2, 3 and 8 pages, reads of 1, 5 and 20, tables of 5, 2 pointers in a page | areas apart and in range, reads exact, frames, areas and mappings accounted for through every failure up to a wild access |
| `vmalloc_tables` | 2 tasks with requests of one page | **violated**: a page table in use is replaced |
| `boot` | 9 user command lines, 4 initrds, 2 sizes of high memory, up to 2 calls of test modules | allocations apart; a well-formed layout does not panic; what is free is handed over, no more and once; zones, lists and marks fit the memory |
| `shmem` | 2 tasks, 5 inodes, 2 names a directory, limits 0 and 3 beside the default, word 8 | directories form one tree with exact links and sizes; every granted inode is accounted for |

Why the bounds are enough. `PageAlloc`: the zone starts and ends off the largest block,
has reserved frames in its lower half, room for one merge up to the largest
order, and two CPUs whose lists compete for it; batch 1 gives lists marks of 2 and 6, or 0
and 2, which six frames reach. `Mempool`: a pool of 1 has a caller
asleep while the other frees; a pool of 4 can be shrunk by one resizer while the other shrinks it further and grows it again, which is the shortest way to
an array that is too small. `Kmap`: more pages than slots and more tasks
than pages, so that slots are shared, fought over and torn down. `Slab`: three slabs are one more than a refill can empty at once, a batch goes
half to the shared array's room or past it, and `free_limit` 3, which the code computes and six objects could not exceed, lets `FreeBlock`
destroy one slab, none or several; three contexts let one grow while another
frees and a third shrinks. `Reclaim`: `SwapClusterMax` 2 and priorities 0
and 1 keep the loops short and let every branch of `shrink_zone` be taken;
three initial fills put the zones below all marks, between them and above. `Lru`: two pages
in two zones make a batch change locks, in either order; batches of two fill and do not fill `pages_to_free`; two tasks
and the scanner can meet at one page. `Vmalloc`: three pages need an array that is an area, whose
own array is from the slab; a table of five pages ends within the range; two areas leave holes before,
between and behind, and reads of 5 and 20 pages end in, between and after them, or overflow (`Space` is 22); five frames run out at any point of two calls. `Boot`: pages of 4 bytes, bytes of 4 bits and words of 4 bits keep all roundings of the code distinct
(to a page, a byte, a word, a section, a directory entry) in a node of up to some 60 frames; the layouts have a bank of no size, one inside another,
holes between banks in order and out of order, no multiple of a bitmap page and one; the test modules' sizes end below, within and after a
page. `Shmem`: five inodes are a tree three deep with a creation in each task; the limit 3 is reached, and a remount goes below it. `MaxRefs`,
`MaxHeld`, `MaxAreas`, `MaxGone`, `TestCalls` and the sizes are the only bounds on counters. Symmetry is used in runs without
temporal properties other than step properties.

`CHECK_DEADLOCK FALSE` is set for `mempool`: the pool may end in `BUG()` or with its array overrun, and there is a
state in which all callers sleep beside elements that a resize has added. It is set for `slab` and the vmalloc runs, since each context may end in
`Oops` or `"oops"` and a wild access ends a behaviour of `vmalloc`; for `boot`, which ends or panics; and for `shmem`, which ends if the mount's error path puts
an inode twice. Everywhere else deadlock is checked.

Fairness. `PageAlloc`: strong fairness of each context's steps: locks are ticket
spinlocks and interrupts are off while they are held, so each waiter gets its turn. `Mempool`: weak fairness of
each context, and callers return what they hold; that `pool->alloc` ever succeeds is not
assumed. `Kmap`: weak fairness of sleeping, unmapping and waking; nobody need map. A
sleeper may starve while all slots stay shared by tasks that come and go, so the property
asks for a wakeup only once a slot is unused. `Reclaim`: weak fairness of kswapd and of each call; no one need
allocate or free. `Lru`: strong fairness of the batches, for
the same spinlocks, and weak fairness of a scan once begun; nobody need begin. The other modules claim no liveness.

## 5. What the violated properties say

* `highmem.c:194`: a slot is torn down, given to another page, and mapped, while a CPU that has read
  through it before keeps its translation: the task reads and writes the page that had the slot before. `highmem.c:284` says
  "A count must never go down to zero without a TLB flush!", but the flush is an empty macro.
* `vmscan.c:248`: `shrink_zone` loops while `nr_active || nr_inactive`, and nothing in the loop
  reduces `nr_inactive`, which gets to `SWAP_CLUSTER_MAX` on the 32nd call even if the
  lists are empty.
* `memory.c:69`: `pte_alloc_kernel` drops the lock to allocate a table and looks again, as its comment says it should, but when somebody
  else has populated the entry it frees its own table and then populates the entry
  with it: the other's mappings are gone, and the table in use is free.

More is known of the code and no run's subject. Each has an action or a note in its module, and the properties except it by name:

* `mempool.c:155`: elements that a resize adds come without a wakeup, and those that
  come back find the reserve full and are given to `pool->free`, again without one. A process that
  was asleep before can sleep for ever, although `mempool.c:192` promises that the allocation
  never fails in process context. (`past` has `"grown"`: `NoLostWakeup` and `SleepersWake` claim nothing then.)
* `mempool.c:124`: a resize decides on `min_nr`, drops the lock in its loop and then stores its target. While one shrinks a pool of 4
  to 3, another shrinks it to 1 and grows it to 2, with a new array for 2; then the first stores 3. The next `mempool_free`s fill
  the reserve to 2, and one more stores behind the end of the array. (`"raised"`, `"overrun"`.)
* `mempool.c:152`: a resize that runs out of elements half way returns 0 and leaves `curr_nr`
  below `min_nr`; `mempool_destroy` then reaches `BUG` although every element was returned. (`"short"`.)
* `vmalloc.c:46`, `:364`, `:546` and `:583`: the wild accesses of section 3; `vmalloc.c:563`: `vwrite` takes the address from a count that overflows, and
  may write less or more than asked.
* `vmalloc.c:81`: no flush ends an unmapping.
* `shmem.c:527`: `symlink` leaves its inode without a dentry and with a reference. `shmem.c:183`: a remount to a
  smaller limit limits nothing, as the free count stays.
* `page_alloc.c:1131`: `buffered_rmqueue` tests `pcp->count >= pcp->low` where `mmzone.h:82` calls `low` the "low watermark, refill needed": the
  lists work, but grow when full and do not fill when empty, as `AllocPage` does.

## 6. What is proved

All for every value of the constants that satisfies the modules' assumptions.

**PageAlloc_proofs.** `IInv == TypeOK /\ Geometry /\ Marks /\ Locals`. *Geometry* is
disjointness, placement and cover of the blocks; *Marks* ties `PG_private` and the
counts to places and has free blocks coalesced; *Locals* is the lock discipline and that what a
context has read under the lock still holds when it acts. None is inductive
alone: a merge is sound because the buddy's mark means that it is on the free
list (Marks), which holds while the merge goes on because the lock is held
(Locals), and the joined block is aligned and clear of others because of Geometry.
Coalescing is kept by a merge because the loop ends only where the last test
failed (Locals). The proof has one lemma per action. From `IInvHolds` follow
`TypeCorrect`, `PartitionDisjoint`, `BlocksWellPlaced`, `NothingLost`, `MarksMatchLists`,
`CountsMatchUse`, `AlwaysCoalesced`, `LockProtects`, and `Implements`: `Spec => Owner!Spec`,
where handing out maps to `Grant`, the last put to `Release` and all else to stuttering.
It rests on arithmetic lemmas on halves of aligned blocks, proved there.

`Counted` adds the counters. `free_pages` is the number of frames of free blocks, but for what the holder of the lock has
in hand: the whole block in a merge, the part beyond the request in an expansion. A per-CPU list's count differs
from its pages by what the one context on that CPU, with interrupts off, has moved and not counted. Hence `CountersAgreeAlways`.
`FailureMeansFragmented` is about the step in which `__rmqueue` gives up. Were an aligned run of frames free, in blocks smaller than the
request, a block of least order among them would have its buddy in the run, cut no finer and so a free block of the same order, against `Coalesced`.

**Mempool_proofs.** All for any number of callers and of resizers. `WakeupsArrive`: until a resize adds an element nobody sleeps beside one unless
a wakeup is on its way. `ArrayFits`: the reserve never outgrows `min_nr`, and `min_nr` stays within the array until a
shrinking loop stores one that another resize has overtaken; `Grow` is safe in a race because it tests again under the lock. Both
need `Places`, who may be where. `ReserveIsKept`: what is in the reserve, with callers and
given back on the way is never less than `min_nr`, outside of a resizing loop, unless a resize fell short or was overtaken. Inductive is `ReserveDue`: in a shrinking loop it is
some resizer's target that the sum does not fall below. The sum is the cardinality of
`Elements(f)`, the pairs of a context and a number up to `f[t]`, so that a step that moves one element is one pair more or less.

**Boot_Kmap_proofs.** The boot first. `BootInv == Parsing /\ Booking /\ Zoning /\ MemMapping`. *Parsing*: the banks of the probe are among the
arguments still to parse, or in `meminfo`, last and for good, so that there is always memory at `PHYS_OFFSET`. *Booking*: the bitmap
is where `find_bootmap_pfn` put it; all that anybody holds is in whole or part pages that are reserved, aligned, and apart from all
else; and memory is reserved for somebody only, or was left so (`kept`). *Zoning*: each zone so far is as `Sizes` and `Starts` say. *MemMapping*: from its
stage on there is one `mem_map`, of a struct page for each frame of the node and one more. The hard part of `BootAllocSound` is an allocation
that continues in the last page (`Continue`). Who holds the rest of that page, and may it have been freed? What is inductive (`Ready`, within *Booking*) is that with a `last_offset` other than 0
the page `last_pos` is memory and stays reserved, whoever frees what, since frees round inwards and no block ends with that page; and that its
`Rest` from `last_offset` on is apart from everything that is held.

`BootHandedOver` takes `Handing` beside it: after `mem_init` a clear frame is memory and in no page of a holder or of a struct page of memory, and what is
reserved is somebody's, or `kept`. `mem_init` establishes it because what `free_unused_memmap_node` frees lies, page by page, between the struct pages
of two banks that follow each other upward (`HolesFreed`), and with no later bank between them these are struct pages of no memory (`HoleFree`, `StructTouched`).
`free_all_bootmem_core` then covers the clear bits by words and single pages without overlap (`WordUnique`, `BlocksCover`, `TotalCount`); that the
total is at most `num_physpages` adds up the banks (`RamCounted`). Which page the count of bitmap pages loses is arithmetic on
two roundings (`BitmapFacts`).

`BootZonesSound` takes `ZoneInv == BootInv /\ Mapping /\ Listing /\ Marking`. Banks of whole sections are mapped frame by frame since each frame is in the piece
between the nearest cuts around it (`SectionsMapped`); a batch is one less than a power of two (`BatchFacts`, `LogOfPower`); shares that are each rounded
down add up to no more than the whole (`Shares`), so that the zones of lowmem ask for no more than `min_free_kbytes`; and reserves rise with the zone (`ReservesRise`).
The recursive functions over the banks, `Registered`, `FramesIn` and `WithoutHoles`, are reasoned about by `Recursion` and `UpTo`, as in Vmalloc_proofs.

Then kmap. `IInv == TypeOK /\ Placed /\ CountsMatch /\ NoLostWakeup`.
`Placed` says that a mapping returned is the page's in the hash table, and `CountsMatch` that hash table, page table and counts agree; it counts mappers by
`Cardinality`, so that a slot with a count of 1 has no user when it is torn down. Hence
`MappingStays`, `CountsAgree`, `WakeupsArrive`, and `TypeCorrect`, which no run repeats. None says anything of TLBs, where `kmap_tlb` shows that a mapping need not be stable.

**Slab_proofs.** `IInv == Shape /\ Order /\ Dying /\ Limits /\ Counted`. *Order* has `OnePlace`,
object by object, that each slab is on the list for its state, and that a slab off the lists is
in the hands of one context that is to destroy it: without the last, `Unmap` could
destroy a slab twice, and without the lists a refill could not be seen to take from no slab in hand. *Dying*
says that the context that destroys a cache is alone in it but for frees, and that what came
into the shared array after it was drained came with an object in some CPU's array. *Counted* is
`freeObjs = Cardinality(Chained)`; for `FreeBlock` it needs that the slabs it
destroys were full or partial, so that each of their objects was counted or is being
brought. Hence `TypeCorrect` (with the limits of the arrays), `ObjectsInOnePlace`, `AccountsAgree`,
`EmptyCachesGo`, and `CacheImplements`: `Spec => Owner!Spec`.

**Shmem_proofs.** `IInv == Typed /\ Hung /\ Reserved /\ Quiet /\ Balanced`. *Hung*: entries hang
from directories and share neither place nor inode. *Reserved*: a creation has its directory to
itself, with its name free, and room for its inode beside all there are (*Alive*). *Quiet*: where nothing is mounted nothing is
being made; what a mount leaves behind is symlinks' inodes, and never the root, whose number the next mount uses (*Typed*). *Balanced* is the account of the inodes. Alone it is not inductive: an `Unlink` or a
`Rename` over an entry takes exactly one inode away only because no other entry has it and none
hangs from it, and a creation that gets its inode late finds one only because of the room.
Hence `InodesBalance`. *Tree*, beside it, is what `DirectoriesSound` needs: *Tallied*, the link counts and
sizes; *Named*, that all inodes but symlinks' and the root's have an entry; and *Rooted*, that the root is in every set of
inodes that has a directory in it and goes upward along the entries. That is how a cycle is ruled out without induction on paths: a set
closed upward after a step is cut down to one closed before it. For a directory that moves to `d` the cut is `Path(d)`,
which does not have it because the VFS refuses to move a directory below itself. The counts are followed entry by entry (`OneEntry`): a
rename is one entry less in the old directory, and in the new one an entry more and the replaced one less. Hence `DirectoriesStaySound`.

**Reclaim_proofs.** `ReserveIsKept`: a task that holds a block, and was not entitled to all memory,
has left the zone the floor of its request, other holders' blocks counted. A test of the watermark reads counters that others
change before the block is taken; what makes the test last is that `Total(z)`, free and held
together, is the same in every step (`TotalTake`, `TotalFree`, `TotalSame`). `FloorInv` therefore
says of a task about to take a block, and of one that has it, that `Total` less the block is above the floor. Pages are counted as
the cardinality of a set of pairs (`SumOver`), and block sizes are a table, `Size`, as in PageAlloc. `TypeCorrect` ties every context to a zone and request that its label needs.
`KswapdServes`: kswapd, `kswapd_max_order` and `kswapd_wait` meet without a
lock; `NoSleepOnOrder` is inductive with the labels of the contexts, since a task that raises the order goes
straight on to take kswapd off the queue, and kswapd clears the order before it sleeps.

**Lru_proofs.** `Inv == Base /\ OnLists /\ RefsExact /\ NewPages /\ FreePages /\ LastPuts`. *Base* is types, what a
batch has in which vector, who has a lock, and what a scan has in hand. *OnLists*: a list, its
flags and its count agree, but for what the scan of that zone has taken and not yet
accounted for. *RefsExact*: a page's count is the number of claims on it, counted as the cardinality of
a set of pairs of a task and a number. *NewPages*: a page that a task has got and not yet put on a list is on none
and no one else's. *FreePages*: what is free, or in hand to be freed, has no count and no flag, and is in one hand. *LastPuts*: a
page whose last reference a batch has dropped, and which it has yet to take off its list, has no claim,
and no other batch is at the same point. None is inductive alone: a scan's reference on a dying page is taken back because no claim stands against it
(RefsExact), an unlisting finds its page on a list because its flag was read under the lock (OnLists), and the page then freed
is nobody's because the drop to zero was (LastPuts). Hence `RefsAreExact`, `ListsAgreeAlways`, `FreedIsClean`, `TypeCorrect`.

**Vmalloc_proofs.** `Inv == TypeOK /\ Ordered /\ Ranged /\ Stacked /\ Owned /\ Served /\ Framed /\ Tabled`. *Ordered* and *Ranged*: the list is in
the order of addresses, a guard page after each area, in the range unless `strained`. *Stacked*: in a task's stack all calls but the innermost
wait, and an area that is being taken down has as many pages as `nr_pages` says. *Owned*: every area on the list has one owner - the call that builds it, a
call that has it as an array in hand, the area whose `pages[]` it holds, the user, or nobody any more - and every owner's area is
on the list. *Framed* is the same for frames and the places in areas where they can be. *Served*: each area is as complete, and as far mapped, as its owner
takes it to be. *Tabled*: nothing else is mapped, and there is a table behind each mapping, unless one was replaced. `Title` and `FrameAt` list who has what, and `Unique` says that no one else has; a step moves values among a
few owners (`Exchange`), which keeps `Unique` (`Moved`). None is inductive alone: that an area can be taken off the list by its address needs Ordered,
that nobody misses it then needs Owned, that its frames come back once needs Framed, and that what it unmaps was its own needs Served
and that areas are apart. The loops over the list are reasoned about by `UpTo` and `Recursion`: what holds at 0 and is kept from each number to the next holds
up to the last, from the least element of the set where it fails; a recursive function exists because all its beginnings do. So `SearchFinds`
proves that `__get_vm_area` returns a gap, and `AreaCrossed` what `vread` and `vwrite` do with one area. `PagesStayExact` is about all
states up to a wild access: a behaviour ends there, so that no theorem says what comes after. Hence `AreasStayPlaced`, `ReadsStayExact`, `PagesStayExact`, `TypeCorrect`.

From which assumptions: those named `...Assumption` in the modules, which ask that the sets of contexts or tasks are finite
where something is counted, that numbers are natural and that places differ. `BootAssumption` asks what the code builds on: the cache line divides the page, the page directory ends
where the kernel starts or before, `mem=` and `highmem=` arguments are of natural numbers, the generated bank is large enough that a hash table has an entry,
a directory entry is whole sections, and limits come in order. What a layout must be beyond that is in the statements (`WellFormed`).

Only model-checked: every liveness property (`CallsReturn`, `SleepersWake` of `Mempool` and of `Kmap`,
`Freed`), which is out of the prover's reach; and `LayoutBoots`: whether a layout boots depends on the memory that the constants leave to the allocations.
The refuted properties of the three runs that expect a violation stay where they are refuted.

## 7. What is not modelled

Atomic kmaps and the emergency pool, rename flags, the layout of slabs, and the collection of pages in
per-CPU pagevecs: planned, see section 2. Reverse mapping reads the host kernel's vmas and changes nothing. The parser of
the command line's other options, the machine's static mappings and the ARM set-up are sequential, or instructions to
the processor, or state that the host kernel owns. The stubs keep no state; of the test modules, those of boot memory are
callers in `Boot`, and the others call one operation after another.
