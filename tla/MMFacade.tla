------------------------------- MODULE MMFacade ------------------------------
(***************************************************************************)
(* The hypervisor's own page table behind the C boundary of mm.rs:         *)
(* HYPERVISOR_PAGE_TABLE, a SpinLock<PageTable<Stage1>> that starts null,  *)
(* mm_init (the boot CPU builds the table and maps text, rodata and data), *)
(* mm_cpu_init (each CPU points its MMU at the table), and mm_identity_map, *)
(* mm_unmap and mm_defrag under the lock.  The table is the one of          *)
(* PageTable (mem, free, root); the lock makes each locked call one step.   *)
(*                                                                         *)
(* A VM's stage-2 table (the mm_vm_* calls vm.c makes) draws its pages   *)
(* from the same pool: VM is PageTable over the same memory and pool, with *)
(* its own root and its own last request.                                *)
(*                                                                         *)
(* `boot` follows the callers' protocol: the boot CPU runs mm_init once,   *)
(* and the other entry points run only after it has returned true (they    *)
(* dereference the table, which is null before).  FacadeReinitSpec drops   *)
(* the "once", which the code itself does not enforce.                     *)
(***************************************************************************)
EXTENDS PageTable, TLC

CONSTANTS
  CPUs    \* CPUs that run mm_cpu_init

VARIABLES
  boot,     \* "cold" before mm_init, "up" after it returned true, "failed"
  cpuRoot,  \* CPU that has run mm_cpu_init -> root its MMU was initialised
            \* with (<<>> for the null table)
  vmRoot,   \* root frames of the VM's table
  vmReq     \* the last mm_vm_* call

facadeVars == <<mem, free, root, req, panicked, boot, cpuRoot, vmRoot, vmReq>>

VM == INSTANCE PageTable WITH root <- vmRoot, req <- vmReq

(***************************************************************************)
(* mm_init.                                                                *)
(***************************************************************************)
\* The three identity_map calls of mm_init on the table at rt; each result
\* is dropped, so the next map runs whatever the last one returned.
RECURSIVE MapLayout(_, _, _)

\* A plausible bug: the layout_*_end symbols taken as inclusive ends.
MapLayoutInclusiveEnd(m, rt, k) ==
  IF k > Len(Layout) \/ m.panic THEN m
  ELSE MapLayout([IdentityMap(m, rt, Layout[k][1], Layout[k][2] + 1, Layout[k][3])
                    EXCEPT !.ok = TRUE], rt, k + 1)

MapLayout(m, rt, k) ==
  IF k > Len(Layout) \/ m.panic THEN m
  ELSE MapLayout([IdentityMap(m, rt, Layout[k][1], Layout[k][2], Layout[k][3])
                    EXCEPT !.ok = TRUE], rt, k + 1)

\* mm_init: PageTable::new (some_or_return! false when the pool has no run
\* of root pages, leaving the slot null); otherwise the table is written to
\* HYPERVISOR_PAGE_TABLE, the segments are mapped, and mm_init returns what
\* arch_mm_init(root, true) returns.
MmInit ==
  /\ ~panicked
  /\ IF RootRuns = {}
     THEN /\ boot' = "failed"
          /\ req' = Request("mm_init", 0, 0, ABSENT_ATTRS, FALSE)
          /\ UNCHANGED <<mem, free, root, panicked>>
     ELSE /\ LET m == MapLayout(NewRoots(Machine, Min(RootRuns)), RootSeq(Min(RootRuns)), 1)
             IN /\ mem' = m.mem
                /\ free' = m.free
                /\ panicked' = m.panic
          /\ root' = RootSeq(Min(RootRuns))
          /\ \E ok \in BOOLEAN :
               /\ req' = Request("mm_init", 0, 0, ABSENT_ATTRS, ok)
               /\ boot' = IF ok THEN "up" ELSE "failed"
  /\ UNCHANGED <<cpuRoot, vmRoot, vmReq>>

\* mm_init as the boot CPU calls it: once.
MmInitOnce == boot = "cold" /\ MmInit

(***************************************************************************)
(* The other entry points, after a successful mm_init.                     *)
(***************************************************************************)
\* mm_cpu_init: arch_mm_init(root, false) with the root read without the
\* lock; the CPU translates through that table from now on.
MmCpuInit(c) ==
  /\ boot = "up"
  /\ cpuRoot' = (c :> root) @@ cpuRoot
  /\ UNCHANGED <<mem, free, root, req, panicked, boot, vmRoot, vmReq>>

MmIdentityMap(b, e, a) == boot = "up" /\ VmIdentityMap(b, e, a) /\ UNCHANGED <<boot, cpuRoot, vmRoot, vmReq>>

MmUnmap(b, e) == boot = "up" /\ VmUnmap(b, e) /\ UNCHANGED <<boot, cpuRoot, vmRoot, vmReq>>

MmDefrag == boot = "up" /\ VmDefrag /\ UNCHANGED <<boot, cpuRoot, vmRoot, vmReq>>

(***************************************************************************)
(* A VM's table, once the hypervisor is up (vm.c creates VMs after         *)
(* mm_init).  Each call holds the VM's lock, and the pool takes its own    *)
(* lock, so each call is one step between the hypervisor's.               *)
(***************************************************************************)
VmCall(A) == boot = "up" /\ A /\ UNCHANGED <<root, req, boot, cpuRoot>>

VmOps ==
  \/ VmCall(VM!VmInit)
  \/ VmCall(VM!VmFini)
  \/ \E r \in Ranges, a \in Attrs : VmCall(VM!VmIdentityMap(r[1], r[2], a))
  \/ \E r \in Ranges : VmCall(VM!VmUnmap(r[1], r[2]))
  \/ VmCall(VM!VmUnmapHypervisor)
  \/ VmCall(VM!VmDefrag)

FacadeInit ==
  /\ Init
  /\ VM!Init
  /\ boot = "cold"
  /\ cpuRoot = <<>>

FacadeOps ==
  \/ \E c \in CPUs : MmCpuInit(c)
  \/ \E r \in Ranges, a \in Attrs : MmIdentityMap(r[1], r[2], a)
  \/ \E r \in Ranges : MmUnmap(r[1], r[2])
  \/ MmDefrag
  \/ VmOps

FacadeNext == MmInitOnce \/ FacadeOps

FacadeSpec == FacadeInit /\ [][FacadeNext]_facadeVars

\* Callers that run mm_init again once it has returned.
FacadeReinitSpec == FacadeInit /\ [][MmInit \/ FacadeOps]_facadeVars

(***************************************************************************)
(* Properties.                                                             *)
(***************************************************************************)
FacadeTypeOK ==
  /\ TypeOK
  /\ boot \in {"cold", "up", "failed"}
  /\ DOMAIN cpuRoot \subseteq CPUs
  /\ \A c \in DOMAIN cpuRoot : cpuRoot[c] \in Seq(Frames)
  /\ VM!TypeOK

(* The hypervisor's table implements the abstract page-attribute memory,  *)
(* with mm_init's contract as the code gives it: each of text, rodata and *)
(* data is mapped with its mode or, when its identity_map ran out of      *)
(* pages, left absent, and the locked calls behave as on a VM table.      *)
RefinesAbstractHypervisorMM == Abs!Spec

(* mm_init reports success only when text, rodata and data are all mapped *)
(* with their modes (spec 4.5, and 7: out-of-memory is surfaced to the    *)
(* caller).  The code drops the result of each identity_map.              *)
MmInitMapsLayout ==
  [][req'.op = "mm_init" /\ req'.ok =>
       \A k \in 1..Len(Layout) :
         \A q \in Abs!Span(Layout[k][1], Layout[k][2]) : Translation'[q] = Layout[k][3]]_facadeVars

(* The pool is shared without loss or aliasing: every frame is in the pool,*)
(* in the hypervisor's table or in the VM's table, in exactly one of them, *)
(* and each table below a root has one owning descriptor.  Broken by a     *)
(* replace, collapse, defrag, drop or mm_init that frees what a table still *)
(* uses, which the other table may then allocate, or that loses a page.   *)
PoolPartitioned ==
  /\ TableFrames \cap VM!TableFrames = {}
  /\ (TableFrames \cup VM!TableFrames) \cap free = {}
  /\ TableFrames \cup VM!TableFrames \cup free = Frames
  /\ \A s1, s2 \in OwningSlots \cup VM!OwningSlots : s1 # s2 => Child(s1) # Child(s2)
  /\ \A s \in OwningSlots \cup VM!OwningSlots : Child(s) \notin Range(root) \cup Range(vmRoot)

(* The VM's table implements the abstract page-attribute memory while the *)
(* hypervisor's table maps, unmaps and defragments beside it: a VM call   *)
(* changes exactly what it asks for, or nothing when the shared pool runs *)
(* dry, and no hypervisor call changes the VM's translation.              *)
VmRefinesAbstractMM == VM!Abs!Spec
====
