# TLA+ models of the hfo2 page-table engine

This directory holds TLA+ models of the page-table engine in
`src/hfo2/src/mm.rs`, the Rust port of Hafnium's memory manager. It also
holds the TLC configurations that check them. Each module is translated from
the source. The `map` of `PROJECT.json` names the lines each definition
stands for.

## 1. Inventory

### Components, their state and operations

| component | source | state | operations |
|---|---|---|---|
| Address arithmetic (`mod addr`, `BlockIter`) | mm.rs 158-197, 512-540 | none | `entry_size`, `round_down/up_to_page`, `start_of_next_block`, `level_end`, `index` |
| Descriptor (`PageTableEntry`) | mm.rs 273-510 | one word: absent, block (address + attrs) or table (child page) | `replace` (break-before-make, then free the old value), `free` (recursive), `populate_table` (allocate, split a block, publish), `defrag` (recursive coalescing) |
| Raw table (`RawPageTable`) | mm.rs 542-715 | one page of `PTE_PER_PAGE` descriptors | `map_level` (recursive update), `get_attrs_level` (recursive query), `is_empty`, `dump` |
| Page table (`PageTable<S>`) | mm.rs 717-927 | `root`: `root_table_count` contiguous raw tables | `new`, `drop`, `map_root`, `identity_update` (two passes, then a TLB flush), `identity_map`, `unmap`, `get_attrs`, `get_mode`, `defrag`, `dump` |
| Stages (`Stage1`, `Stage2`) and `STAGE2_INVALIDATE` | mm.rs 151-271, 935-944 | one global atomic flag | `invalidate_tlb` (stage 2: only once the flag is set), `mode_to_attrs`, `attrs_to_mode` |
| VM-table boundary (`mm_vm_*`) | mm.rs 946-1048 | the caller's `PageTable<Stage2>` | init, fini, identity_map, unmap, unmap_hypervisor, dump, defrag, get_mode |
| Hypervisor facade | mm.rs 151-153, 1050-1126 | `HYPERVISOR_PAGE_TABLE` (a spin lock around a stage-1 table) | `mm_init`, `mm_cpu_init`, `mm_identity_map`, `mm_unmap`, `mm_defrag` |
| Utilities | utils.rs | none | `opt_reduce` (used by `get_attrs`), rounding helpers, `spin_loop` |

Some collaborators are not in `src/`: the memory pool (`mpool`), the spin lock,
the architecture adapter (`arch_mm_*`), the console and the linker layout.
They enter the models only through their contracts. The pool hands out and
takes back page frames. Any allocation may fail, because other CPUs draw
from the same pool. The adapter encodes descriptors and attributes.

### How the components interact

Callers reach a table through the boundary functions. The hypervisor's own
table sits behind a spin lock. VM tables are serialised by their callers.
`identity_update` canonicalises the range and then calls `map_root` twice.
The first pass (no COMMIT) only allocates tables and splits blocks into
equivalent tables. The second pass (COMMIT) writes leaves. `map_root` calls
`map_level` on each root table. `map_level` recurses one level down through
`populate_table` and writes through `replace`. `replace` frees the old
value's subtree back to the pool. `defrag` recurses bottom-up. It frees
child tables and overwrites descriptors directly. Stage-2 TLB flushes
depend on the global `STAGE2_INVALIDATE` flag.

### What is hard

- **Partial failure.** Allocation can fail at any point of the first pass.
  The two-pass scheme must then leave every translation unchanged, and the
  second pass must never allocate.
- **Ownership.** A descriptor owns its subtree only when it is a table. Each
  `replace`, collapse, `defrag` and `drop` must free exactly what it
  unlinks. Otherwise a page leaks, or a page sits in the pool while still
  in the tree.
- **Level arithmetic.** `index`, `level_end`, the whole-entry test and the
  block split decide where a mapping lands, at every level boundary.
- **Concurrency with the MMU.** Other CPUs walk and cache the tables while
  they change. Break-before-make, the final flush and the release fence
  exist for them. A page freed before the flush may still be walked.
- **Facade start-up.** `mm_init` and `mm_cpu_init` bypass the lock.
  `mm_init` ignores failures of its own mappings.

### Properties that make each component correct

- Descriptor/raw table/page table:
  - table pages are owned exactly once and never leak (`PagesOwned`);
  - mappings are aligned identity blocks at permitted levels (`WellFormed`);
  - map and unmap have exactly their specified effect, and none on failure;
    defrag changes no translation (`RefinesAbstractMM`);
  - `get_attrs` answers exactly from the pages (`QueryCorrect`);
  - defrag frees empty tables (`DefragReclaimsEmptyTables`);
  - no input makes the engine panic (`NoPanic`);
  - a failed `mm_vm_unmap_hypervisor` commits nothing
    (`UnmapHypervisorAllOrNothing`).
- MMU interaction (`MMUWalk`):
  - between calls, the TLB holds only translations that the table gives
    (`TLBCoherent`);
  - no reachable table is in the pool (`ReachableNeverFreed`);
  - no walk in flight points into a freed table (`WalkNeverInFreedTable`);
  - a valid descriptor is never overwritten by another valid one
    (`BreakBeforeMake`);
  - a walk never reads a new table before its initialisation is visible
    (`WalkSeesInitialisedTable`).
- Facade (`MMFacade`):
  - the hypervisor's table implements the abstract memory, with `mm_init`'s
    real contract (`RefinesAbstractHypervisorMM`);
  - a successful `mm_init` has mapped text, rodata and data
    (`MmInitMapsLayout`);
  - the pool, the hypervisor's table and a VM's table partition the frames
    (`PoolPartitioned`); under `FacadeReinitSpec` this says no page is lost
    across `mm_init` calls;
  - the VM's table implements the abstract memory beside the hypervisor's
    (`VmRefinesAbstractMM`).

## 2. Plan

1. **Done.**
   - `MMAddr`: the address arithmetic.
   - `PageTable`: one table and its pool. Every state-changing operation is
     an atomic action, `mm_vm_unmap_hypervisor` included. Each call also
     records its effects in order.
   - `AbstractMM`: what a table promises, with a refinement check.
   - `MMUWalk`: the VM table's calls performed one effect at a time, with
     an MMU walker and a TLB running beside them. Stores may become visible
     out of order between barriers.
   - `MMFacade`: `HYPERVISOR_PAGE_TABLE` and its five entry points, and a
     VM's table drawing from the same pool.
2. **Next.**
   - Several VM tables whose calls run step by step over the shared pool
     (two `MMUWalk` updaters). Each updater's effect log would then have to
     choose its allocations when it performs them, not when the call starts.
   - A stage-1 walker beside the hypervisor table. `MMUWalk` with the
     invalidation flag fixed to true would give it.
   - `MMUWalk` with `MAX_LEVEL = 2`, once its state space allows.

## 3. Modules

### `MMAddr`

This module holds the operators of `mod addr`. Addresses are naturals.
Additions wrap at `WORD_MOD`, as a release build's `usize` arithmetic does.
`PAGE_SIZE` and `PTE_PER_PAGE` are powers of two, so the code's shifts and
masks become division and remainder.

### `PageTable`

**State.**

- `mem` maps each page frame to its content: `PTE_PER_PAGE` descriptors.
  Each descriptor is absent, a block (`out`, `attrs`), a table (`page`), or
  junk. A frame handed back to the pool becomes all junk, since its content
  is undefined after `free`.
- `free` is the pool.
- `root` holds the root frames, or `<<>>` when no table exists.
- `req` is the last call with its arguments and result. Only the refinement
  and the defrag property read it.
- `panicked` records a Rust panic.

**Actions.**

- `VmInit` is `mm_vm_init`: `alloc_pages(count, count)`, then all absent.
- `VmFini` is `mm_vm_fini`, through `PageTable::drop`.
- `VmIdentityMap` is `mm_vm_identity_map`.
- `VmUnmap` is `mm_vm_unmap`.
- `VmUnmapHypervisor` is `mm_vm_unmap_hypervisor`. It unmaps the segments
  of `Layout` in turn. `NextSegment` is the `some_or_return!` that stops at
  the first failure.
- `VmDefrag` is `mm_vm_defrag`.

Each action is a whole call. It runs under the caller's lock to completion.
It is computed by recursive operators that follow the code's loops and
recursion: `MapRoot`, `MapLevel`/`MapEntries`/`MapEntry`, `PopulateTable`,
`Replace`, `FreePte`, `DefragPte`/`DefragChildren`, `DropRoots`. The state
they carry is a machine record `[mem, free, ok, panic, log]`.

- `free` is the pool. An allocation fails when it is empty. Because the
  pool is small, some tree shape makes each allocation of a call the one
  that fails.
- `ok` models the `?` early returns.
- `panic` models the out-of-range slice of `map_root`.
- `log` lists the call's effects in the order the code performs them:
  descriptor stores (`ptr::write`), `mpool.alloc`, `mpool.free` and
  `S::invalidate_tlb`. `Replace` records break-before-make (store absent,
  flush the entry's range, store the new value, free the old subtree).
  `IdentityUpdate` ends with the flush of `[begin, end)`. The atomic
  actions use only the final memory and pool. `MMUWalk` replays the log.

Intermediate machines are passed as operator arguments (`NextEntry`,
`Subtable`, `Collapse`, `NextRoot`, `CommitPass`, `Invalidate`), not named
in `LET`s that are used several times. Each one is then computed once, and
TLC's coverage profiling stays linear.

`GetAttrs` is `get_attrs` with `get_attrs_level` and `opt_reduce`. It is a
pure operator that the properties use.

**Abstractions.**

- Attributes are model values. `ABSENT_ATTRS` is the attribute word of an
  absent descriptor.
- `mode_to_attrs` is the choice of attributes.
- `combine_table_entry_attrs` returns the block attributes, because table
  descriptors carry no attributes.
- `arch_mm_clear_pa` rounds down to a page.
- `populate_table` splits a block from the parent's block address. The code
  adds to the whole descriptor word `self.inner`. This gives the same
  address bits under the adapter's encoding, which is not modelled.
- TLB invalidation and the write order inside break-before-make are not
  visible in an atomic step. They are recorded in `log` for `MMUWalk`.

### `AbstractMM`

This module states what a table promises: a function from page numbers to
attributes. It has the variables `view` and `req`, written in the style of a
key-value store with a request record.

- A successful map or unmap sets every page that meets `[begin, end)`.
- A failed one changes nothing.
- Defrag changes nothing.
- Creation and destruction leave all pages absent.
- `mm_vm_unmap_hypervisor` on success leaves every segment of `Layout`
  absent. On failure it leaves the segments before the failing one absent.
  This is the code's contract. The spec's stronger "no partial commit" is
  checked separately and fails.
- `mm_init` yields a new table in which each segment has its attributes or,
  where its map failed, is absent. Its result says nothing about the maps.

`PageTable` instantiates it with `view <- Translation`. `Translation` is the
attribute that a hardware walk reaches for each page.

### `MMUWalk`

This module extends `PageTable` with the MMU of a CPU running the VM.

**State.** On top of the table, the pool, `req` and `panicked`:

- `pending` is the running call's effects not yet performed. It is `<<>>`
  when no call runs.
- `tlb` holds the cached translations. Each is `[page, level, attrs]` for
  the block of `level` around `page`.
- `walk` is the walk in flight: page, current table and level. Its
  auxiliary field `seenFree` records that the walk has been in a frame while
  the frame was in the pool.
- `inv` is `STAGE2_INVALIDATE`.

**Actions.**

- `CallIdentityMap`, `CallUnmap`, `CallUnmapHypervisor` and `CallDefrag`
  are the `mm_vm_*` calls. The first step takes the lock and fixes the
  effect log that `PageTable`'s operators compute. The call's result is
  known at that point.
- `MemoryStep` performs one store, allocation, free or fence (see below).
- `InvalidateStep` is `Stage2::invalidate_tlb`. When `inv` is set it drops
  every TLB entry that covers an address of the range, and aborts a walk of
  such an address. A TLBI followed by DSB completes only after those walks.
- `CallInit` is `mm_vm_init`. It is atomic, because no walk can use the
  table before it exists.
- `EnableInvalidation` is `mm_vm_enable_invalidation`. Its documentation
  forbids running it while other calls run, so it is taken only between
  calls.
- The walker actions are `WalkStart(q)` on a TLB miss, `WalkDescend`,
  `WalkHit` (which fills the TLB) and `WalkFault`. `TlbEvict` drops an
  entry at any time. The walker runs only once `inv` is set. Before that,
  VMs do not run.

**Store order.** The walker does not see every effect in program order.
`MemoryStep` may perform effect k of `pending` in one of two cases:

- k is the first effect;
- effect k is a store, and every effect before it is a store to a
  different descriptor.

These effects are barriers:

- the release fence of `populate_table` (mm.rs 448), a `"fence"` effect;
- the DSB of a TLB flush;
- the pool's lock in `mpool.alloc` and `mpool.free`.

A later store can never pass a barrier. This is the reordering that the
fence exists to prevent: without it, the descriptor that publishes a new
table can become visible before the stores that fill the table.

Treating the pool's lock as a full barrier is stronger than ARM, where
an acquire or release orders stores in one direction only. No property
depends on it: the stores that matter (those that fill a new table) are
ordered by the explicit fence, and the mutant that drops that fence
breaks `WalkSeesInitialisedTable` although the pool's lock is still a
barrier.

### `MMFacade`

This module extends `PageTable` with `HYPERVISOR_PAGE_TABLE`. It also
composes a VM's stage-2 table over the same memory and pool:
`VM == INSTANCE PageTable WITH root <- vmRoot, req <- vmReq`.

- `boot` is `"cold"` before `mm_init`, `"up"` after it returned true, and
  `"failed"` otherwise.
- `cpuRoot` is the root each CPU's `mm_cpu_init` gave its MMU.
- `MmInit`:
  - `PageTable::new`, which returns false when the pool has no root run;
  - the unlocked store into the static;
  - `MapLayout`, the three `identity_map`s with their results dropped;
  - the result of `arch_mm_init`, a free boolean.
- `MmCpuInit` is `mm_cpu_init`. It reads `root` without the lock, and
  records it in `cpuRoot`, a function whose domain is the CPUs that have
  run it.
- `MmIdentityMap`, `MmUnmap` and `MmDefrag` hold the spin lock for the
  whole call. Each is one step, reusing `PageTable`'s actions.
- `VmOps` are the VM's `mm_vm_init`, `fini`, `identity_map`, `unmap`,
  `unmap_hypervisor` and `defrag`: `PageTable`'s actions on `vmRoot`. They
  run only once `boot` is `"up"`, because `vm.c` creates VMs after
  `mm_init`. Each holds the VM's lock, and the pool has its own lock. So
  each VM call is one step, interleaved with the hypervisor's calls.
- Each table has its own request variable (`req`, `vmReq`). So each
  table's refinement of `AbstractMM` sees the other table's calls as
  stuttering steps.
- `FacadeSpec` follows the boot protocol: `mm_init` once on the boot CPU,
  and everything else after it succeeded. `FacadeReinitSpec` lets
  `mm_init` be called again.

## 4. Runs

| run | cfg | expect | checks |
|---|---|---|---|
| `pt_structure` | `MC_PageTable.cfg` | pass | `TypeOK`, `PagesOwned`, `WellFormed`, `QueryCorrect`, `RefinesAbstractMM` |
| `pt_defrag_empty_tables` | `MC_PageTable_defrag.cfg` | violation | `DefragReclaimsEmptyTables` |
| `pt_far_begin_panic` | `MC_PageTable_panic.cfg` | violation | `NoPanic` |
| `pt_unmap_hypervisor_partial` | `MC_PageTable_unmaphyp.cfg` | violation | `UnmapHypervisorAllOrNothing` |
| `pt_end_wraps` | `MC_PageTable_wrap.cfg` | violation | `RefinesAbstractMM` |
| `mw_tlb_coherent` | `MC_MMUWalk.cfg` | pass | `MMUTypeOK`, `TLBCoherent`, `WalkSeesInitialisedTable` |
| `mw_defrag_free_before_unlink` | `MC_MMUWalk_ReachableNeverFreed.cfg` | violation | `ReachableNeverFreed` |
| `mw_unmap_frees_walked_table` | `MC_MMUWalk_WalkNeverInFreedTable.cfg` | violation | `WalkNeverInFreedTable` |
| `mw_defrag_no_bbm` | `MC_MMUWalk_BreakBeforeMake.cfg` | violation | `BreakBeforeMake` |
| `hf_facade` | `MC_MMFacade.cfg` | pass | `FacadeTypeOK`, `PoolPartitioned`, `RefinesAbstractHypervisorMM`, `VmRefinesAbstractMM` |
| `hf_init_ignores_oom` | `MC_MMFacade_init.cfg` | violation | `MmInitMapsLayout` |
| `hf_reinit_leaks` | `MC_MMFacade_reinit.cfg` | violation | `PoolPartitioned` |

### Bounds

**`MC_PageTable`.**

- The table has 3 levels (2, 1, 0), 2 descriptors per table, one root table
  and `PAGE_SIZE = 1`. That is an 8-page address space.
- Blocks are allowed at levels 0 and 1 but not at level 2. So every map
  allocates tables, as the spec's scenario S5 asks.
- The pool has 4 frames. The ranges below can build trees of up to 5
  tables, so a call can run the pool dry after its first allocation, after
  its second, or before any. The all-absent table of the defrag finding and
  the half-done update of a one-pass mutant both need this.
- `Ranges` (used by map, unmap and the `get_attrs` queries) is
  `[0,2) [1,2) [1,7) [2,7) [4,8) [0,8) [4,2)`. Together they cover:
  - whole-table, whole-entry and single-page ranges;
  - ranges that cross a level-1 or level-2 boundary;
  - splits of blocks at both ends of the space, including the split of the
    level-1 block at 6;
  - a reversed range, which every operation must leave without effect.
- `Layout` is text `[0,2)`, rodata `[2,3)` and data `[4,7)`. Unmapping
  rodata or data can each need a table page of its own.
- `pt_structure` reaches 1250 distinct states.
- The wrap run uses `PAGE_SIZE = 2` and a 32-address word, with
  `identity_map(0, 31)`.

**`MC_MMUWalk`.**

- The table has 2 levels, 2 descriptors per table and 3 frames. That is a
  4-page space.
- The ranges `[2,3) [2,4) [3,4)` lie in the upper level-1 entry. They build
  a table, split a block, unmap a whole entry and collapse a table.
- `Layout` is `[0,1) [2,3) [3,4)`.
- The walker can start on any page between any two effects.
- A map that builds a table emits alloc, two stores, the fence and the
  publishing store. So a walk can meet the new table at every point of its
  initialisation.
- The run reaches 6536 distinct states (4 s).

**`MC_MMFacade`.**

- It has the shape of `MC_PageTable`, with attributes `X`, `R`, `RW` and
  two CPUs under symmetry.
- The pool has 4 frames, one short of what the whole layout needs. So
  `mm_init`'s map of data fails, and the later calls run with an almost
  empty pool until unmaps free pages.
- The VM's table can be created only once the hypervisor's unmaps have
  returned a page. From then on each table's maps can find the pool
  drained by the other table, at any allocation.
- `Ranges` is `[1,2) [6,7) [4,8) [0,8)`, for both tables.
- The run reaches 7388 distinct states (about 85 s).

In every `VIEW`, `req` and `vmReq`
are left out of the state fingerprint. They only record the last call,
and are read only in primed form.

### What the runs show

- **`pt_structure`.** Every sequence of calls keeps table pages owned
  exactly once, with no leak and no aliasing, and never reachable while in
  the pool. This includes allocation failures at every point. Every block is
  an identity mapping at a permitted level. `get_attrs` returns `Some(a)`
  exactly when every page of the canonicalised, in-range, non-empty range
  has `a`.
  - The two-pass update is atomic with respect to translations: a failed
    call changes no page.
  - `mm_vm_unmap_hypervisor` leaves a prefix of its segments unmapped.
- **`pt_defrag_empty_tables`** (finding). A map whose first pass runs out
  of pages leaves an all-absent table. `defrag` never frees it, because
  `defrag` returns `None` for an absent descriptor (mm.rs 466).
- **`pt_far_begin_panic`** (finding). `identity_map` with a begin two root
  spans past the end panics on the root-table slice (mm.rs 809).
- **`pt_unmap_hypervisor_partial`** (finding). With one free page,
  `mm_vm_unmap_hypervisor` unmaps text and rodata and then fails on data.
  It returns false with pages 0-2 already unmapped. This goes against the
  spec's "no partial commit" (section 7).
- **`pt_end_wraps`** (finding). `round_up_to_page(31)` wraps to 0, so
  `identity_map(0, 31)` maps nothing and returns success (mm.rs 169).
- **`mw_tlb_coherent`.** The walker fills the TLB between any two effects
  of any call. Once the call has finished, every cached translation agrees
  with the table. The flushes of break-before-make and the final flush of
  `identity_update` cover every stale entry, including the entries of a
  collapsed table. `defrag` never flushes, but it changes no translation.
  The flush at the misaligned `begin` of a split still hits the old block.
  - This holds although stores to different descriptors become visible out
    of order between barriers.
  - A walk that has not met a freed frame never reads a new table's
    uninitialised contents. The fence at mm.rs 448 orders the stores that
    fill the table before the store that publishes it. Without the fence
    (the mutant) the walker descends into the new table and reads junk.
- **`mw_defrag_free_before_unlink`** (finding). `defrag` calls
  `mpool.free` on a child table before it overwrites the descriptor that
  points to it (mm.rs 494).
- **`mw_unmap_frees_walked_table`** (finding). An unmap writes absent over
  a table descriptor and frees the table, with no flush until
  `identity_update` ends. A walk that has already read the descriptor goes
  on into the freed page. `replace` skips break-before-make whenever the new
  value is invalid (mm.rs 389). The collapse at mm.rs 659 does the same;
  its TODO asks about it.
- **`mw_defrag_no_bbm`** (finding). `defrag` writes a block straight over a
  valid table descriptor (mm.rs 496). This goes against the spec's
  break-before-make property 8.
- **`hf_facade`.** The stage-1 table owns its pages whichever of
  `mm_init`'s maps fail, and implements the abstract memory.
  - A VM's table draws from the same pool. The three own the frames without
    overlap or loss.
  - The VM's table implements the abstract memory throughout: the
    hypervisor's calls never change its translations, and a VM map that
    finds the pool drained changes nothing.
- **`hf_init_ignores_oom`** (finding). `mm_init` returns true with data
  unmapped (mm.rs 1104).
- **`hf_reinit_leaks`** (finding). A second `mm_init` overwrites the static
  and loses the first table's pages (mm.rs 1099), although the spec
  (section 9) forbids re-initialisation.

Each property of a passing run has a mutant in `PROJECT.json`. The mutant
is a plausible bug in the mapped code that TLC must catch:

- a block split with the wrong stride;
- a `replace` that does not free;
- defrag taking the last child's address;
- `opt_reduce` skipping `None`;
- a single-pass `identity_update`;
- `mm_vm_unmap_hypervisor` ignoring failures;
- `identity_update` without its final flush;
- `mm_init` treating the layout ends as inclusive;
- `populate_table` without its release fence.

### Fairness

No property is a liveness property, and no fairness is assumed.

- In `PageTable` and `MMFacade` a call is one step.
- In `MMUWalk` a call is a finite list of effects, and the head of the
  list can always be performed. With the updater weakly fair, "a stale
  translation is eventually flushed" would follow from `TLBCoherent`: a
  stale entry can exist only while a call runs. It would add nothing.
- The spin lock's own fairness belongs to the lock, which is outside this
  code.

## 5. Not modelled, and why

- **`dump`.** It only logs.
- **`get_mode` and `attrs_to_mode`.** These are adapter conversions on top
  of `get_attrs`. They change no state.
- **Descriptor bit encoding and `arch_mm_*`.** These are outside the
  repository.
- **Weak memory beyond store order.** `MMUWalk` reorders stores between
  barriers, as the walker may observe them. It does not model loads that
  are satisfied early, or the walker's own caching of table entries.
- **`plat_console_mm_init`.** It is an adapter call. Its own mappings are
  not modelled.
- **Stage-1 TLB flushes.** No walker runs on the hypervisor's table in
  `MMFacade`.
- **Calls before `mm_init`.** `mm_cpu_init` and the locked calls
  dereference the null table before `mm_init`. Only the boot protocol
  prevents this, and that protocol is outside the code.
- **The crate root and the utilities not used by the engine.** `lib.rs`
  only declares modules. `div_ceil`, `round_up` and the other helpers are
  not called by `mm.rs`. `spin_loop` never returns.
