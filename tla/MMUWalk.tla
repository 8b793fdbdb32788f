------------------------------- MODULE MMUWalk -------------------------------
(***************************************************************************)
(* A stage-2 page table in use: while one CPU runs a table operation under *)
(* the VM's lock, the MMU of a CPU running the VM walks the same tree and  *)
(* caches translations in its TLB.                                         *)
(*                                                                         *)
(* An operation is computed by PageTable's operators, which also return    *)
(* the call's effects in the order the code performs them (`log`):         *)
(* descriptor stores (ptr::write), mpool.alloc / mpool.free, and           *)
(* S::invalidate_tlb.  Here the call's first step fixes that log and each *)
(* later step performs one effect, so the walker can run between any two. *)
(* The walker may see two stores to different descriptors in either order *)
(* unless a barrier lies between them: the release fence of populate_table,*)
(* the DSB of a TLB flush, or the pool's lock taken by mpool.alloc and     *)
(* mpool.free.  Stores to one descriptor are seen in program order.        *)
(*                                                                         *)
(* The walker translates one page at a time, one descriptor read per step, *)
(* from the root down; a block fills the TLB with an entry for the whole  *)
(* block, anything else is a fault.                                       *)
(* STAGE2_INVALIDATE (`inv`) gates every invalidation; VMs only run, so    *)
(* the walker only walks, once it is set.  A TLB invalidation of a range   *)
(* drops every entry that covers an address of the range, and the walks  *)
(* in flight for it (TLBI with DSB completes only once they are done).    *)
(***************************************************************************)
EXTENDS PageTable

SX == INSTANCE SequencesExt

VARIABLES
  pending,   \* effects of the running call not yet performed, <<>> when none runs
  tlb,       \* translations cached by the VM's CPU: [page, level, attrs], the
             \* block of `level` around `page` translated with `attrs`
  walk,      \* the MMU's walk in flight
  inv        \* STAGE2_INVALIDATE

mmuVars == <<mem, free, root, req, panicked, pending, tlb, walk, inv>>

\* `seenFree` is auxiliary: the walk has been in a frame while it was in the
\* pool (the frame was freed under it, or it followed a pointer to one).
NoWalk == [busy |-> FALSE, page |-> 0, f |-> 0, level |-> 0, seenFree |-> FALSE]
Idle == pending = <<>>

\* Pages whose translation an invalidation of [b, e) removes.
PagesIn(b, e) == {q \in PageNums : b <= q * PAGE_SIZE /\ q * PAGE_SIZE < e}

\* Pages a TLB entry translates.
Covered(t) ==
  LET base == ((t.page * PAGE_SIZE) \div EntrySize(t.level)) * EntrySize(t.level)
  IN {q \in PageNums : base <= q * PAGE_SIZE /\ q * PAGE_SIZE < base + EntrySize(t.level)}

(***************************************************************************)
(* The updating CPU.                                                       *)
(***************************************************************************)
\* The first step of a call: the lock is held and the effects are fixed.
Call(m, r) ==
  /\ pending' = m.log
  /\ req' = r
  /\ panicked' = m.panic
  /\ UNCHANGED <<mem, free, root, tlb, walk, inv>>

CallIdentityMap(b, e, a) ==
  /\ Idle /\ ~panicked /\ root # <<>>
  /\ LET m == IdentityMap(Machine, root, b, e, a)
     IN Call(m, Request("map", b, e, a, m.ok))

CallUnmap(b, e) ==
  /\ Idle /\ ~panicked /\ root # <<>>
  /\ LET m == Unmap(Machine, root, b, e)
     IN Call(m, Request("unmap", b, e, ABSENT_ATTRS, m.ok))

CallUnmapHypervisor ==
  /\ Idle /\ ~panicked /\ root # <<>>
  /\ LET m == UnmapSegments(Machine, 1)
     IN Call(m, Request("unmap_hypervisor", 0, 0, ABSENT_ATTRS, m.ok))

CallDefrag ==
  /\ Idle /\ ~panicked /\ root # <<>>
  /\ Call(DefragRoot(Machine, root, 0), Request("defrag", 0, 0, ABSENT_ATTRS, TRUE))

\* mm_vm_init builds the table before the VM can run on it.
CallInit == Idle /\ VmInit /\ UNCHANGED <<pending, tlb, walk, inv>>

\* mm_vm_enable_invalidation, on a quiesced system.
EnableInvalidation ==
  /\ Idle /\ ~inv
  /\ inv' = TRUE
  /\ UNCHANGED <<mem, free, root, req, panicked, pending, tlb, walk>>

\* Effect k of the running call may be performed next: the first one, or a
\* store preceded only by stores to other descriptors.
Performable(k) ==
  \/ k = 1
  \/ /\ pending[k].op = "write"
     /\ \A j \in 1..k - 1 :
          pending[j].op = "write" /\ <<pending[j].f, pending[j].i>> # <<pending[k].f, pending[k].i>>

\* A store, an allocation, a free or the fence of the running call.
MemoryStep ==
  \E k \in DOMAIN pending :
    LET x == pending[k]
    IN /\ Performable(k) /\ x.op # "tlbi"
       /\ pending' = SX!RemoveAt(pending, k)
       /\ CASE x.op = "write" -> mem' = [mem EXCEPT ![x.f][x.i] = x.pte] /\ UNCHANGED free
            [] x.op = "alloc" -> free' = free \ {x.f} /\ UNCHANGED mem
            [] x.op = "free"  -> free' = free \cup {x.f} /\ mem' = [mem EXCEPT ![x.f] = JunkPage]
            [] x.op = "fence" -> UNCHANGED <<mem, free>>
       /\ walk' = IF x.op = "free" /\ walk.busy /\ walk.f = x.f THEN [walk EXCEPT !.seenFree = TRUE] ELSE walk
       /\ UNCHANGED <<root, req, panicked, tlb, inv>>

\* Stage2::invalidate_tlb(b, e) of the running call.
InvalidateStep ==
  LET x == Head(pending)
  IN /\ ~Idle /\ x.op = "tlbi"
     /\ pending' = Tail(pending)
     /\ IF inv
        THEN /\ tlb' = {t \in tlb : Covered(t) \cap PagesIn(x.b, x.e) = {}}
             /\ walk' = IF walk.page \in PagesIn(x.b, x.e) THEN NoWalk ELSE walk
        ELSE UNCHANGED <<tlb, walk>>
     /\ UNCHANGED <<mem, free, root, req, panicked, inv>>

(***************************************************************************)
(* The MMU of the CPU running the VM.                                      *)
(***************************************************************************)
\* A TLB miss on page q starts a walk at the root table covering it.
WalkStart(q) ==
  /\ inv /\ root # <<>> /\ ~walk.busy
  /\ q \notin UNION {Covered(t) : t \in tlb}
  /\ walk' = [busy |-> TRUE, page |-> q, f |-> root[(q * PAGE_SIZE) \div RootSize + 1],
              level |-> MAX_LEVEL, seenFree |-> FALSE]
  /\ UNCHANGED <<mem, free, root, req, panicked, pending, tlb, inv>>

\* The descriptor the walk reads next.
WalkPte == mem[walk.f][Index(walk.page * PAGE_SIZE, walk.level)]

WalkDescend ==
  /\ walk.busy /\ WalkPte.kind = "table" /\ walk.level > 0
  /\ walk' = [walk EXCEPT !.f = WalkPte.page, !.level = @ - 1, !.seenFree = @ \/ WalkPte.page \in free]
  /\ UNCHANGED <<mem, free, root, req, panicked, pending, tlb, inv>>

WalkHit ==
  /\ walk.busy /\ WalkPte.kind = "block"
  /\ tlb' = tlb \cup {[page |-> walk.page, level |-> walk.level, attrs |-> WalkPte.attrs]}
  /\ walk' = NoWalk
  /\ UNCHANGED <<mem, free, root, req, panicked, pending, inv>>

\* An absent descriptor faults; so, here, does freed memory (junk).
WalkFault ==
  /\ walk.busy /\ WalkPte.kind \in {"absent", "junk"}
  /\ walk' = NoWalk
  /\ UNCHANGED <<mem, free, root, req, panicked, pending, tlb, inv>>

TlbEvict ==
  /\ \E t \in tlb : tlb' = tlb \ {t}
  /\ UNCHANGED <<mem, free, root, req, panicked, pending, walk, inv>>

MMUInit ==
  /\ Init
  /\ pending = <<>>
  /\ tlb = {}
  /\ walk = NoWalk
  /\ inv = FALSE

MMUNext ==
  \/ CallInit
  \/ \E r \in Ranges, a \in Attrs : CallIdentityMap(r[1], r[2], a)
  \/ \E r \in Ranges : CallUnmap(r[1], r[2])
  \/ CallUnmapHypervisor
  \/ CallDefrag
  \/ EnableInvalidation
  \/ MemoryStep
  \/ InvalidateStep
  \/ \E q \in PageNums : WalkStart(q)
  \/ WalkDescend
  \/ WalkHit
  \/ WalkFault
  \/ TlbEvict

MMUSpec == MMUInit /\ [][MMUNext]_mmuVars

(***************************************************************************)
(* Properties.                                                             *)
(***************************************************************************)
MMUTypeOK ==
  /\ TypeOK
  /\ \A k \in DOMAIN pending :
       pending[k] \in [op : {"write", "alloc", "free", "fence", "tlbi"}, f : Frames, i : Slots,
                       pte : Ptes, b : Nat, e : Nat]
  /\ tlb \subseteq [page : PageNums, level : 0..MAX_LEVEL, attrs : Attrs]
  /\ walk.busy \in BOOLEAN /\ walk.seenFree \in BOOLEAN
  /\ inv \in BOOLEAN

(* TLB coherence (spec 3 invariant 5 and the Stage2::invalidate_tlb        *)
(* contract): once a call has finished, every translation the VM's TLB     *)
(* holds is the one the table gives.  A walk may have cached the old       *)
(* translation of a page at any point of the call; only the invalidations  *)
(* of replace's break-before-make and identity_update's final flush, over  *)
(* the right ranges, can take it out again.                                *)
TLBCoherent == Idle => \A t \in tlb : \A q \in Covered(t) : Translation[q] = t.attrs

(* No table reachable from the roots is in the pool (spec 9 and replace: a *)
(* table is freed only once no descriptor refers to it).  The walker, or   *)
(* another CPU that allocates the frame, may otherwise use a table that    *)
(* is being reused.  About the order of the store that unlinks a table    *)
(* and mpool.free in replace and defrag.                                   *)
ReachableNeverFreed == \A t \in Tables : t.page \notin free

(* Break-before-make (spec testable property 8, the comment on replace):   *)
(* a valid descriptor of a table in use is never overwritten by a          *)
(* different valid one; it goes through absent (and a TLB flush) first.    *)
BreakBeforeMake ==
  [][\A f \in Frames \ free, i \in Slots :
       IsPresent(mem[f][i]) /\ IsPresent(mem'[f][i]) => mem'[f][i] = mem[f][i]]_mmuVars

(* A walk in flight never holds a pointer to a freed table (spec 3,       *)
(* invariant 5: no intermediate state without a matching TLB flush).  A    *)
(* table unlinked by a store of an absent descriptor is freed at once by   *)
(* replace, and the range is flushed only at the end of identity_update.  *)
WalkNeverInFreedTable == walk.busy => walk.f \notin free

(* A walk never reads a descriptor of a live table that populate_table has *)
(* not yet initialised (mm.rs, the release fence between filling the new   *)
(* table and storing the descriptor that points to it).  Without the fence *)
(* the walker may see the new table descriptor before the stores that fill *)
(* the table, and read the frame's stale contents as descriptors.          *)
(* Walks that met a freed frame are the concern of WalkNeverInFreedTable.  *)
WalkSeesInitialisedTable == walk.busy /\ ~walk.seenFree => WalkPte.kind # "junk"
====
