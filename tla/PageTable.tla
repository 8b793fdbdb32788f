------------------------------ MODULE PageTable ------------------------------
(***************************************************************************)
(* One page table of the engine in src/hfo2/src/mm.rs (PageTable<S>,       *)
(* RawPageTable, PageTableEntry) together with the page pool it draws its  *)
(* table pages from.                                                       *)
(*                                                                         *)
(* Memory is a heap of page frames: mem[f] is the content of frame f, a    *)
(* raw table of PTE_PER_PAGE descriptors.  A descriptor is absent, a block *)
(* (output address and attributes) or a table (the frame of its child      *)
(* raw table).  A frame returned to the pool holds junk, since its content *)
(* is undefined after `free`.  The table's operations hold the caller's    *)
(* lock for their whole run, so each public operation (PageTable::new,     *)
(* drop, identity_map, unmap, defrag) is one atomic step, computed by      *)
(* recursive operators that follow the code's recursion and loops over a   *)
(* machine record m = [mem, free, ok, panic, log]:                         *)
(*   free  - frames in the pool; an allocation fails once it is empty,    *)
(*           which happens at any point of a call for some tree shape,   *)
(*   ok    - FALSE once an Option-returning call returned None,            *)
(*   panic - TRUE once a slice index went out of bounds,                   *)
(*   log   - the call's effects on memory and the TLB, in the order the    *)
(*           code performs them (MMUWalk replays them one at a time).      *)
(***************************************************************************)
EXTENDS MMAddr, FiniteSetsExt, Sequences

CONSTANTS
  MAX_LEVEL,         \* S::max_level()
  ROOT_TABLE_COUNT,  \* S::root_table_count()
  BLOCK_LEVELS,      \* levels at which arch_mm_is_block_allowed holds
  Attrs,             \* block attributes produced by S::mode_to_attrs
  ABSENT_ATTRS,      \* arch_mm_pte_attrs of an absent descriptor
  NONE,              \* Option::None
  Frames,            \* page frames owned by the pool, as numbers
  Ranges,            \* <<begin, end>> pairs passed to identity_map / unmap / get_attrs
  Layout             \* <<begin, end, attrs>> of the text, rodata and data segments
                     \* (layout_* and the attributes of the mode mm_init maps them with)

ASSUME MAX_LEVEL \in Nat /\ ROOT_TABLE_COUNT \in 1..PTE_PER_PAGE
ASSUME BLOCK_LEVELS \subseteq 0..MAX_LEVEL /\ 0 \in BLOCK_LEVELS
ASSUME ABSENT_ATTRS \notin Attrs /\ NONE \notin Attrs \cup {ABSENT_ATTRS}
ASSUME Frames \subseteq Nat /\ Ranges \subseteq Nat \X Nat
ASSUME Layout \in Seq(Nat \X Nat \X Attrs)

VARIABLES
  mem,       \* frame -> raw table content
  free,      \* frames in the pool
  root,      \* root frames of the table, <<>> before mm_vm_init / after fini
  req,       \* the last call: operation, arguments, success
  panicked   \* a Rust panic stopped the hypervisor

vars == <<mem, free, root, req, panicked>>

Slots == 0..PTE_PER_PAGE - 1
RootLevel == MAX_LEVEL + 1
RootSize == EntrySize(RootLevel)
PtableEnd == ROOT_TABLE_COUNT * RootSize

(* Descriptors, as built by arch_mm_absent_pte / block_pte / table_pte.   *)
(* Table descriptors carry no attribute bits of their own.                *)
AbsentPte == [kind |-> "absent", out |-> 0, attrs |-> ABSENT_ATTRS, page |-> 0]
BlockPte(out, a) == [kind |-> "block", out |-> out, attrs |-> a, page |-> 0]
TablePte(f) == [kind |-> "table", out |-> 0, attrs |-> ABSENT_ATTRS, page |-> f]
JunkPte == [kind |-> "junk", out |-> 0, attrs |-> NONE, page |-> 0]
JunkPage == [i \in Slots |-> JunkPte]
EmptyPage == [i \in Slots |-> AbsentPte]

Ptes == {AbsentPte, JunkPte}
          \cup {BlockPte(o, a) : o \in 0..PtableEnd - 1, a \in Attrs}
          \cup {TablePte(f) : f \in Frames}

(* arch_mm_pte_is_present / is_valid on a descriptor, and                 *)
(* arch_mm_pte_is_present applied to an attribute word (as defrag does).  *)
IsPresent(pte) == pte.kind \in {"block", "table"}
IsPresentAttrs(a) == a \in Attrs

(* arch_mm_combine_table_entry_attrs: tables add no restrictions.         *)
CombineTableEntryAttrs(tableAttrs, blockAttrs) == blockAttrs

(* RawPageTable::is_empty *)
IsEmpty(page) == \A i \in Slots : ~IsPresent(page[i])

(***************************************************************************)
(* Pool and descriptor primitives.                                         *)
(***************************************************************************)
Effect(op, f, i, pte, b, e) == [op |-> op, f |-> f, i |-> i, pte |-> pte, b |-> b, e |-> e]
Emit(m, x) == [m EXCEPT !.log = Append(@, x)]

\* ptr::write of a descriptor.
WritePte(m, f, i, pte) ==
  Emit([m EXCEPT !.mem[f][i] = pte], Effect("write", f, i, pte, 0, 0))

\* mpool.free(page): the frame goes back to the pool, its content undefined.
ReleaseFrame(m, f) ==
  Emit([m EXCEPT !.free = @ \cup {f}, !.mem[f] = JunkPage], Effect("free", f, 0, JunkPte, 0, 0))

\* mpool.alloc(): a frame leaves the pool with whatever it held.
AllocFrame(m, c) == Emit([m EXCEPT !.free = @ \ {c}], Effect("alloc", c, 0, JunkPte, 0, 0))

\* fence(Ordering::Release): earlier stores become visible before later ones.
Fence(m) == Emit(m, Effect("fence", 0, 0, JunkPte, 0, 0))

\* S::invalidate_tlb(b, e) (Stage2 tests STAGE2_INVALIDATE when it runs).
InvalidateTlb(m, b, e) == Emit(m, Effect("tlbi", 0, 0, JunkPte, b, e))

\* The ptr::write loop that initialises the entries of a new table.
RECURSIVE InitEntries(_, _, _, _)
InitEntries(m, c, k, init) ==
  IF k = PTE_PER_PAGE THEN m ELSE InitEntries(WritePte(m, c, k, init[k]), c, k + 1, init)

\* PageTableEntry::free: recursively free the subtables of a descriptor.
RECURSIVE FreePte(_, _, _), FreeEntries(_, _, _, _)
FreePte(m, pte, level) ==
  IF pte.kind = "table"
  THEN ReleaseFrame(FreeEntries(m, pte.page, 0, level - 1), pte.page)
  ELSE m

FreeEntries(m, f, i, level) ==
  IF i = PTE_PER_PAGE THEN m
  ELSE FreeEntries(FreePte(m, m.mem[f][i], level), f, i + 1, level)

\* A plausible bug: replace that forgets to free the old descriptor.
ReplaceLeaking(m, f, i, new, begin, level) == WritePte(m, f, i, new)

\* PageTableEntry::replace: when both descriptors are valid, break before
\* make (write absent, invalidate the entry's range); write the new
\* descriptor; then free what the old one owned.
Replace(m, f, i, new, begin, level) ==
  LET old == m.mem[f][i]
      m1 == IF IsPresent(old) /\ IsPresent(new)
            THEN InvalidateTlb(WritePte(m, f, i, AbsentPte), begin, begin + EntrySize(level))
            ELSE m
  IN FreePte(WritePte(m1, f, i, new), old, level)

\* A plausible bug: a block split with the stride of the level above.
PopulateTableCoarseStride(m, f, i, begin, level) ==
  LET pte == m.mem[f][i]
  IN IF pte.kind = "table" THEN m
     ELSE IF m.free = {} THEN [m EXCEPT !.ok = FALSE]
     ELSE LET c == Min(m.free)
              init == IF pte.kind = "block"
                      THEN [k \in Slots |-> BlockPte(pte.out + k * EntrySize(level), pte.attrs)]
                      ELSE EmptyPage
          IN Replace(Fence(InitEntries(AllocFrame(m, c), c, 0, init)),
                     f, i, TablePte(c), begin, level)

\* A plausible bug: populate_table without its release fence.
PopulateTableNoFence(m, f, i, begin, level) ==
  LET pte == m.mem[f][i]
  IN IF pte.kind = "table" THEN m
     ELSE IF m.free = {} THEN [m EXCEPT !.ok = FALSE]
     ELSE LET c == Min(m.free)
              init == IF pte.kind = "block"
                      THEN [k \in Slots |-> BlockPte(pte.out + k * EntrySize(level - 1), pte.attrs)]
                      ELSE EmptyPage
          IN Replace(InitEntries(AllocFrame(m, c), c, 0, init), f, i, TablePte(c), begin, level)

\* PageTableEntry::populate_table: make the slot a table, splitting a block
\* into an equivalent table of blocks one level down.
PopulateTable(m, f, i, begin, level) ==
  LET pte == m.mem[f][i]
      below == level - 1
  IN IF pte.kind = "table" THEN m
     ELSE IF m.free = {} THEN [m EXCEPT !.ok = FALSE]
     ELSE LET c == Min(m.free)
              init == IF pte.kind = "block"
                      THEN [k \in Slots |->
                              BlockPte(pte.out + k * EntrySize(below), pte.attrs)]
                      ELSE EmptyPage
          IN Replace(Fence(InitEntries(AllocFrame(m, c), c, 0, init)),
                     f, i, TablePte(c), begin, level)

(***************************************************************************)
(* RawPageTable::map_level.  u = [end, attrs, commit, unmap] is the update *)
(* request; MapEntries is the loop over (pte, begin) pairs.                *)
(***************************************************************************)
(* Intermediate machines are passed as operator arguments (NextEntry,    *)
(* Subtable, Collapse) so that each is computed once.                     *)
RECURSIVE MapEntries(_, _, _, _, _, _, _), MapEntry(_, _, _, _, _, _),
          NextEntry(_, _, _, _, _, _, _), Subtable(_, _, _, _, _, _)

MapLevel(m, f, begin, u, level) ==
  MapEntries(m, f, Index(begin, level), begin,
             MinAddr(u.end, LevelEnd(begin, level)), u, level)

MapEntries(m, f, i, begin, cap, u, level) ==
  IF i >= PTE_PER_PAGE \/ begin >= cap THEN m
  ELSE NextEntry(MapEntry(m, f, i, begin, u, level), f, i, begin, cap, u, level)

\* The `?` after each entry: stop at the first None.
NextEntry(m1, f, i, begin, cap, u, level) ==
  IF m1.ok
  THEN MapEntries(m1, f, i + 1, StartOfNextBlock(begin, EntrySize(level)), cap, u, level)
  ELSE m1

MapEntry(m, f, i, begin, u, level) ==
  LET pte == m.mem[f][i]
      size == EntrySize(level)
  IN CASE (u.unmap /\ ~IsPresent(pte))
          \/ (~u.unmap /\ pte.kind = "block" /\ pte.attrs = u.attrs) ->
            m
       [] u.end - begin >= size /\ (u.unmap \/ level \in BLOCK_LEVELS)
          /\ begin % size = 0 ->
            IF u.commit
            THEN Replace(m, f, i,
                         IF u.unmap THEN AbsentPte ELSE BlockPte(begin, u.attrs),
                         begin, level)
            ELSE m
       [] OTHER -> Subtable(PopulateTable(m, f, i, begin, level), f, i, begin, u, level)

\* Collapse a subtable that a committing unmap left empty.
Collapse(m2, f, i, c, begin, u, level) ==
  IF ~m2.ok THEN m2
  ELSE IF u.commit /\ u.unmap /\ IsEmpty(m2.mem[c])
       THEN Replace(m2, f, i, AbsentPte, begin, level)
       ELSE m2

\* After populate_table: recurse into the subtable, then collapse it.
Subtable(m1, f, i, begin, u, level) ==
  IF ~m1.ok THEN m1
  ELSE Collapse(MapLevel(m1, m1.mem[f][i].page, begin, u, level - 1),
                f, i, m1.mem[f][i].page, begin, u, level)

(* PageTable::map_root: the root tables from index(begin, root_level) on, *)
(* zipped with the root-sized blocks of [begin, end).  Slicing the roots   *)
(* at an index past their count panics.                                   *)
RECURSIVE MapRootTables(_, _, _, _, _), NextRoot(_, _, _, _, _)
MapRootTables(m, rt, j, begin, u) ==
  IF j >= ROOT_TABLE_COUNT \/ begin >= u.end THEN m
  ELSE NextRoot(MapLevel(m, rt[j + 1], begin, u, MAX_LEVEL), rt, j, begin, u)

NextRoot(m1, rt, j, begin, u) ==
  IF m1.ok THEN MapRootTables(m1, rt, j + 1, StartOfNextBlock(begin, RootSize), u) ELSE m1

MapRoot(m, rt, begin, u) ==
  IF Index(begin, RootLevel) > ROOT_TABLE_COUNT
  THEN [m EXCEPT !.panic = TRUE]
  ELSE MapRootTables(m, rt, Index(begin, RootLevel), begin, u)

(* arch_mm_clear_pa: keep the address bits of a physical address.         *)
ClearPa(a) == RoundDownToPage(a)

\* A plausible bug: a single committing pass, without the allocating one.
IdentityUpdateOnePass(m, rt, begin, end, attrs, unmap) ==
  MapRoot(m, rt, ClearPa(begin),
          [end |-> MinAddr(RoundUpToPage(end), PtableEnd), attrs |-> attrs,
           commit |-> TRUE, unmap |-> unmap])

\* The second pass of identity_update, run if the first returned Some, and
\* the TLB invalidation, run if the second did.
\* A plausible bug: identity_update without its final TLB invalidation.
InvalidateSkipped(m2, b, e) == m2

Invalidate(m2, b, e) == IF ~m2.ok \/ m2.panic THEN m2 ELSE InvalidateTlb(m2, b, e)

CommitPass(m1, rt, b, u) ==
  IF ~m1.ok \/ m1.panic THEN m1
  ELSE Invalidate(MapRoot(m1, rt, b, [u EXCEPT !.commit = TRUE]), b, u.end)

\* PageTable::identity_update: canonicalise, then the allocating pass, the
\* committing pass and the TLB invalidation of [begin, end).
IdentityUpdate(m, rt, begin, end, attrs, unmap) ==
  LET u == [end |-> MinAddr(RoundUpToPage(end), PtableEnd), attrs |-> attrs,
            commit |-> FALSE, unmap |-> unmap]
  IN CommitPass(MapRoot(m, rt, ClearPa(begin), u), rt, ClearPa(begin), u)

\* PageTable::identity_map; `attrs` stands for S::mode_to_attrs(mode).
IdentityMap(m, rt, begin, end, attrs) == IdentityUpdate(m, rt, begin, end, attrs, FALSE)

\* PageTable::unmap: Flags::UNMAP, so the attributes it passes are never
\* written and are modelled as ABSENT_ATTRS.
Unmap(m, rt, begin, end) == IdentityUpdate(m, rt, begin, end, ABSENT_ATTRS, TRUE)

(***************************************************************************)
(* PageTableEntry::defrag.  Returns [m, r], r the slot's attributes or     *)
(* NONE.  DefragChildren is the map over the children followed by          *)
(* `reduce(|l, r| if l == r { l } else { None })`.                        *)
(***************************************************************************)
RECURSIVE DefragPte(_, _, _, _), DefragChildren(_, _, _, _, _)

\* A plausible bug: the merged block takes the last child's address.
DefragPteLastChild(m, f, i, level) ==
  LET pte == m.mem[f][i]
  IN IF pte.kind = "block" THEN [m |-> m, r |-> pte.attrs]
     ELSE IF pte.kind # "table" THEN [m |-> m, r |-> NONE]
     ELSE
       LET c == pte.page
           res == DefragChildren(m, c, 0, level - 1, NONE)
           last == res.m.mem[c][PTE_PER_PAGE - 1]
       IN IF res.r = NONE THEN [m |-> res.m, r |-> NONE]
          ELSE IF ~IsPresentAttrs(res.r)
          THEN [m |-> WritePte(ReleaseFrame(res.m, c), f, i, AbsentPte),
                r |-> ABSENT_ATTRS]
          ELSE IF level \notin BLOCK_LEVELS THEN [m |-> res.m, r |-> NONE]
          ELSE [m |-> WritePte(ReleaseFrame(res.m, c), f, i, BlockPte(last.out, res.r)),
                r |-> res.r]

DefragPte(m, f, i, level) ==
  LET pte == m.mem[f][i]
  IN IF pte.kind = "block" THEN [m |-> m, r |-> pte.attrs]
     ELSE IF pte.kind # "table" THEN [m |-> m, r |-> NONE]
     ELSE
       LET c == pte.page
           res == DefragChildren(m, c, 0, level - 1, NONE)
           first == res.m.mem[c][0]
       IN IF res.r = NONE THEN [m |-> res.m, r |-> NONE]
          ELSE IF ~IsPresentAttrs(res.r)
          THEN [m |-> WritePte(ReleaseFrame(res.m, c), f, i, AbsentPte),
                r |-> ABSENT_ATTRS]
          ELSE IF level \notin BLOCK_LEVELS THEN [m |-> res.m, r |-> NONE]
          ELSE LET comb == CombineTableEntryAttrs(pte.attrs, res.r)
               IN [m |-> WritePte(ReleaseFrame(res.m, c), f, i,
                                  BlockPte(first.out, comb)),
                   r |-> comb]

DefragChildren(m, c, i, level, acc) ==
  IF i = PTE_PER_PAGE THEN [m |-> m, r |-> acc]
  ELSE LET d == DefragPte(m, c, i, level)
           acc2 == IF i = 0 \/ d.r = acc THEN d.r ELSE NONE
       IN DefragChildren(d.m, c, i + 1, level, acc2)

\* PageTable::defrag: defrag every descriptor of every root table.
RECURSIVE DefragRoot(_, _, _)
DefragRoot(m, rt, k) ==
  IF k = ROOT_TABLE_COUNT * PTE_PER_PAGE THEN m
  ELSE DefragRoot(DefragPte(m, rt[k \div PTE_PER_PAGE + 1], k % PTE_PER_PAGE,
                            MAX_LEVEL).m, rt, k + 1)

(***************************************************************************)
(* RawPageTable::get_attrs_level and PageTable::get_attrs (pure queries).  *)
(* OptReduce is utils.rs OptReduce::opt_reduce with |l, r| l == r.         *)
(***************************************************************************)
\* A plausible bug: a None from a nested table is skipped, not propagated.
OptStepSkipNone(first, acc, val) ==
  IF val = NONE THEN (IF first THEN NONE ELSE acc)
  ELSE IF first \/ acc = val THEN val
  ELSE NONE

OptStep(first, acc, val) ==
  IF val = NONE THEN NONE
  ELSE IF first \/ acc = val THEN val
  ELSE NONE

RECURSIVE GetAttrsEntries(_, _, _, _, _, _, _, _, _)
GetAttrsEntries(mm, f, i, begin, cap, end, level, first, acc) ==
  IF i >= PTE_PER_PAGE \/ begin >= cap THEN (IF first THEN NONE ELSE acc)
  ELSE LET pte == mm[f][i]
           val == IF pte.kind = "table"
                  THEN GetAttrsEntries(mm, pte.page, Index(begin, level - 1), begin,
                                       MinAddr(end, LevelEnd(begin, level - 1)),
                                       end, level - 1, TRUE, NONE)
                  ELSE pte.attrs
           acc2 == OptStep(first, acc, val)
       IN IF acc2 = NONE THEN NONE
          ELSE GetAttrsEntries(mm, f, i + 1, StartOfNextBlock(begin, EntrySize(level)),
                               cap, end, level, FALSE, acc2)

GetAttrsLevel(mm, f, begin, end, level) ==
  GetAttrsEntries(mm, f, Index(begin, level), begin,
                  MinAddr(end, LevelEnd(begin, level)), end, level, TRUE, NONE)

RECURSIVE GetAttrsRoots(_, _, _, _, _, _, _)
GetAttrsRoots(mm, rt, j, begin, end, first, acc) ==
  IF j >= ROOT_TABLE_COUNT \/ begin >= end THEN (IF first THEN NONE ELSE acc)
  ELSE LET acc2 == OptStep(first, acc, GetAttrsLevel(mm, rt[j + 1], begin, end, MAX_LEVEL))
       IN IF acc2 = NONE THEN NONE
          ELSE GetAttrsRoots(mm, rt, j + 1, StartOfNextBlock(begin, RootSize), end,
                             FALSE, acc2)

GetAttrs(mm, rt, begin, end) ==
  LET b == RoundDownToPage(begin)
      e == RoundUpToPage(end)
  IN IF ~(b <= e /\ e <= PtableEnd) THEN NONE
     ELSE GetAttrsRoots(mm, rt, Index(b, RootLevel), b, e, TRUE, NONE)

(***************************************************************************)
(* The operations.                                                         *)
(***************************************************************************)
Machine == [mem |-> mem, free |-> free, ok |-> TRUE, panic |-> FALSE, log |-> <<>>]

Request(op, b, e, a, ok) == [op |-> op, begin |-> b, end |-> e, attrs |-> a, ok |-> ok]

Init ==
  /\ mem = [f \in Frames |-> JunkPage]
  /\ free = Frames
  /\ root = <<>>
  /\ req = Request("none", 0, 0, ABSENT_ATTRS, TRUE)
  /\ panicked = FALSE

\* mm_vm_init / PageTable::new: alloc_pages(count, count), all absent.
RootRuns == {k \in Frames : k % ROOT_TABLE_COUNT = 0
                            /\ k..k + ROOT_TABLE_COUNT - 1 \subseteq free}

\* The root tables PageTable::new takes from the run at frame k, all absent.
RootSeq(k) == [j \in 1..ROOT_TABLE_COUNT |-> k + j - 1]

NewRoots(m, k) ==
  LET run == k..k + ROOT_TABLE_COUNT - 1
  IN [m EXCEPT !.free = @ \ run,
               !.mem = [f \in Frames |-> IF f \in run THEN EmptyPage ELSE m.mem[f]]]

VmInit ==
  /\ ~panicked /\ root = <<>>
  /\ IF RootRuns = {}
     THEN /\ req' = Request("init", 0, 0, ABSENT_ATTRS, FALSE)
          /\ UNCHANGED <<mem, free, root>>
     ELSE /\ root' = RootSeq(Min(RootRuns))
          /\ free' = NewRoots(Machine, Min(RootRuns)).free
          /\ mem' = NewRoots(Machine, Min(RootRuns)).mem
          /\ req' = Request("init", 0, 0, ABSENT_ATTRS, TRUE)
  /\ UNCHANGED panicked

\* mm_vm_fini / PageTable::drop: free every root descriptor, then the roots.
RECURSIVE DropRoots(_, _)
DropRoots(m, j) ==
  IF j > ROOT_TABLE_COUNT THEN m
  ELSE DropRoots(ReleaseFrame(FreeEntries(m, root[j], 0, MAX_LEVEL), root[j]), j + 1)

VmFini ==
  /\ ~panicked /\ root # <<>>
  /\ LET m == DropRoots(Machine, 1)
     IN /\ mem' = m.mem
        /\ free' = m.free
  /\ root' = <<>>
  /\ req' = Request("fini", 0, 0, ABSENT_ATTRS, TRUE)
  /\ UNCHANGED panicked

\* Result of an identity_update call as a state change.
Apply(m, r) ==
  /\ mem' = m.mem
  /\ free' = m.free
  /\ panicked' = m.panic
  /\ req' = r
  /\ UNCHANGED root

\* mm_vm_identity_map / PageTable::identity_map.
VmIdentityMap(b, e, a) ==
  /\ ~panicked /\ root # <<>>
  /\ LET m == IdentityMap(Machine, root, b, e, a)
     IN Apply(m, Request("map", b, e, a, m.ok))

\* mm_vm_unmap / PageTable::unmap (the attributes are never written).
VmUnmap(b, e) ==
  /\ ~panicked /\ root # <<>>
  /\ LET m == Unmap(Machine, root, b, e)
     IN Apply(m, Request("unmap", b, e, ABSENT_ATTRS, m.ok))

\* mm_vm_unmap_hypervisor: PageTable::unmap of each segment of Layout in
\* turn; some_or_return! returns false at the first that fails, leaving the
\* segments before it unmapped.
RECURSIVE UnmapSegments(_, _), NextSegment(_, _)
UnmapSegments(m, k) ==
  IF k > Len(Layout) THEN m
  ELSE NextSegment(Unmap(m, root, Layout[k][1], Layout[k][2]), k)

\* A plausible bug: the result of each unmap but the last is ignored.
NextSegmentIgnoringFailure(m1, k) ==
  IF m1.panic THEN m1 ELSE UnmapSegments([m1 EXCEPT !.ok = TRUE], k + 1)

NextSegment(m1, k) == IF m1.ok /\ ~m1.panic THEN UnmapSegments(m1, k + 1) ELSE m1

VmUnmapHypervisor ==
  /\ ~panicked /\ root # <<>>
  /\ LET m == UnmapSegments(Machine, 1)
     IN Apply(m, Request("unmap_hypervisor", 0, 0, ABSENT_ATTRS, m.ok))

\* mm_vm_defrag / PageTable::defrag.
VmDefrag ==
  /\ ~panicked /\ root # <<>>
  /\ LET m == DefragRoot(Machine, root, 0)
     IN /\ mem' = m.mem
        /\ free' = m.free
  /\ req' = Request("defrag", 0, 0, ABSENT_ATTRS, TRUE)
  /\ UNCHANGED <<root, panicked>>

Next ==
  \/ VmInit
  \/ VmFini
  \/ \E r \in Ranges, a \in Attrs : VmIdentityMap(r[1], r[2], a)
  \/ \E r \in Ranges : VmUnmap(r[1], r[2])
  \/ VmUnmapHypervisor
  \/ VmDefrag

Spec == Init /\ [][Next]_vars

(***************************************************************************)
(* Views of the state used by the properties.                              *)
(***************************************************************************)
PageNums == 0..(PtableEnd \div PAGE_SIZE) - 1

\* The descriptor the hardware walk reaches for address a.
RECURSIVE Walk(_, _, _, _)
Walk(mm, f, a, level) ==
  LET pte == mm[f][Index(a, level)]
  IN IF pte.kind = "table" /\ level > 0 THEN Walk(mm, pte.page, a, level - 1) ELSE pte

\* The attributes the table gives each page of its address space.
Translation ==
  [q \in PageNums |->
     IF root = <<>> THEN ABSENT_ATTRS
     ELSE Walk(mem, root[(q * PAGE_SIZE) \div RootSize + 1], q * PAGE_SIZE, MAX_LEVEL).attrs]

\* Raw tables reachable from the roots, with their level and base address.
RECURSIVE Reach(_, _, _, _)
Reach(mm, f, level, base) ==
  {[page |-> f, level |-> level, base |-> base]}
    \cup UNION {IF level > 0 /\ mm[f][i].kind = "table"
                THEN Reach(mm, mm[f][i].page, level - 1, base + i * EntrySize(level))
                ELSE {} : i \in Slots}

Tables ==
  IF root = <<>> THEN {}
  ELSE UNION {Reach(mem, root[j], MAX_LEVEL, (j - 1) * RootSize) : j \in 1..ROOT_TABLE_COUNT}

TableFrames == {t.page : t \in Tables}

Abs == INSTANCE AbstractMM WITH view <- Translation

\* Slots of reachable tables that hold a table descriptor.
TableSlots == {<<t.page, i>> : t \in {x \in Tables : x.level > 0}, i \in Slots}
Child(s) == mem[s[1]][s[2]].page
OwningSlots == {s \in TableSlots : mem[s[1]][s[2]].kind = "table"}

(***************************************************************************)
(* Properties.                                                             *)
(***************************************************************************)
TypeOK ==
  /\ mem \in [Frames -> [Slots -> Ptes]]
  /\ free \subseteq Frames
  /\ root \in Seq(Frames) /\ Len(root) \in {0, ROOT_TABLE_COUNT}
  /\ req.op \in {"none", "init", "fini", "map", "unmap", "defrag", "unmap_hypervisor", "mm_init"}
  /\ req.ok \in BOOLEAN
  /\ panicked \in BOOLEAN

(* Ownership of table pages (spec invariant 3): every frame is either in   *)
(* the pool or a raw table reached from the roots, never both; each        *)
(* non-root table is owned by exactly one table descriptor.  Broken by a   *)
(* replace, collapse, defrag or drop that forgets to free, or frees too    *)
(* much, of what a descriptor owned.                                      *)
PagesOwned ==
  /\ TableFrames \cap free = {}
  /\ TableFrames \cup free = Frames
  /\ \A s1, s2 \in OwningSlots : s1 # s2 => Child(s1) # Child(s2)
  /\ \A s \in OwningSlots : Child(s) \notin Range(root)

(* Shape of the tree (spec invariants 1, 2, 4): every reachable block maps *)
(* its own address (identity, hence aligned to its level), blocks appear   *)
(* only where the architecture allows them, level-0 descriptors are never *)
(* tables, and no reachable descriptor is freed junk.  Broken by a wrong   *)
(* address when populate_table splits a block or defrag merges children.  *)
WellFormed ==
  \A t \in Tables, i \in Slots :
    LET pte == mem[t.page][i]
    IN /\ pte.kind # "junk"
       /\ pte.kind = "block" =>
            /\ pte.out = t.base + i * EntrySize(t.level)
            /\ t.level \in BLOCK_LEVELS
       /\ pte.kind = "table" => t.level > 0

(* Query correctness (spec testable property 4 and 9): get_attrs of a     *)
(* range answers Some(a) exactly when the range lies inside the table's    *)
(* address space, is not empty, and every page in it has attributes a.     *)
(* get_attrs walks the tree with its own level arithmetic and folds the   *)
(* answers of nested tables; this relates that fold to the pages.         *)
QueryCorrect ==
  root # <<>> =>
    \A <<b, e>> \in Ranges :
      LET span == Abs!Span(b, e)
          vals == {Translation[q] : q \in span}
      IN GetAttrs(mem, root, b, e) =
           IF RoundUpToPage(e) > PtableEnd \/ span = {} \/ Cardinality(vals) # 1
           THEN NONE
           ELSE CHOOSE a \in vals : TRUE

(* The table implements AbstractMM under the refinement mapping that      *)
(* reads each page's attributes off the tree: a successful identity_map   *)
(* or unmap changes exactly the pages of the canonicalised range, a       *)
(* failed one (the pool ran dry in either pass) changes none, and defrag, *)
(* which rewrites whole sub-trees, changes none.                          *)
RefinesAbstractMM == Abs!Spec
(* Defrag reclaims empty tables (spec 4.2 and testable property 6; the    *)
(* comment at the all-absent branch of PageTableEntry::defrag): after       *)
(* defrag no table below the roots has only absent descriptors.  Such       *)
(* tables are left by an allocating pass that ran out of pages.             *)
DefragReclaimsEmptyTables ==
  [][req'.op = "defrag" =>
       \A t \in Tables' : t.page \notin Range(root') => ~IsEmpty(mem'[t.page])]_vars

(* No call panics (spec 4.6 and 7: an out-of-range request is clamped or   *)
(* refused, never aborts the hypervisor).                                  *)
NoPanic == ~panicked

(* Out-of-memory is surfaced with no partial commit (spec 7): a failed     *)
(* mm_vm_unmap_hypervisor leaves every page's translation as it was.  The  *)
(* code commits the unmap of text before it tries rodata and data.        *)
UnmapHypervisorAllOrNothing ==
  [][req'.op = "unmap_hypervisor" /\ ~req'.ok => Translation' = Translation]_vars
=============================================================================
