----------------------------- MODULE AbstractMM -----------------------------
(***************************************************************************)
(* What a page table promises its callers (spec sections 4.4 and 4.6),     *)
(* stated over the attributes each page of the address space has, not over *)
(* descriptors.  `view` maps each page number to its attributes (or        *)
(* ABSENT_ATTRS); `req` is the last call with its arguments and result.    *)
(*   - identity_map(b, e, a): on success every page meeting [b, e) within  *)
(*     the table's address space has attributes a, the others keep theirs; *)
(*     on failure nothing changes (two-pass atomicity).                    *)
(*   - unmap(b, e): the same with ABSENT_ATTRS.                            *)
(*   - defrag: never changes any page's attributes.                        *)
(*   - unmap_hypervisor: on success every segment of Layout is absent; on  *)
(*     failure the segments before the failing one are, the rest keep      *)
(*     their attributes (each unmap is atomic, their sequence is not).     *)
(*   - mm_init: a new table in which each segment of Layout either has its *)
(*     attributes or, when its map failed, is absent; the result is the    *)
(*     architecture's and says nothing about the maps.                     *)
(*   - creation and destruction: every page absent.                        *)
(***************************************************************************)
EXTENDS Naturals, Sequences

CONSTANTS
  PAGE_SIZE,
  PageNums,       \* page numbers of the table's address space
  ABSENT_ATTRS,
  Layout          \* <<begin, end, attrs>> of the hypervisor's segments

VARIABLES view, req

absVars == <<view, req>>

AllAbsent == [q \in PageNums |-> ABSENT_ATTRS]

\* Pages meeting [b, e).
Span(b, e) == {q \in PageNums : (q + 1) * PAGE_SIZE > b /\ q * PAGE_SIZE < e}

Update(v, b, e, a) == [q \in PageNums |-> IF q \in Span(b, e) THEN a ELSE v[q]]

Init == view = AllAbsent

Create == req'.op = "init" /\ view' = AllAbsent
Destroy == req'.op = "fini" /\ view' = AllAbsent

Map ==
  /\ req'.op = "map"
  /\ view' = IF req'.ok THEN Update(view, req'.begin, req'.end, req'.attrs) ELSE view

Unmap ==
  /\ req'.op = "unmap"
  /\ view' = IF req'.ok THEN Update(view, req'.begin, req'.end, ABSENT_ATTRS) ELSE view

Defrag == req'.op = "defrag" /\ view' = view

\* The view after unmapping the first n segments of Layout.
RECURSIVE UnmapFirst(_, _)
UnmapFirst(v, n) ==
  IF n = 0 THEN v ELSE Update(UnmapFirst(v, n - 1), Layout[n][1], Layout[n][2], ABSENT_ATTRS)

UnmapHypervisor ==
  /\ req'.op = "unmap_hypervisor"
  /\ IF req'.ok THEN view' = UnmapFirst(view, Len(Layout))
     ELSE \E n \in 0..Len(Layout) - 1 : view' = UnmapFirst(view, n)

\* A new table with the segments of Layout numbered in `done` mapped.
RECURSIVE MapSegmentsIn(_, _)
MapSegmentsIn(done, n) ==
  IF n = 0 THEN AllAbsent
  ELSE IF n \in done
       THEN Update(MapSegmentsIn(done, n - 1), Layout[n][1], Layout[n][2], Layout[n][3])
       ELSE MapSegmentsIn(done, n - 1)

InitHypervisor ==
  /\ req'.op = "mm_init"
  /\ \E done \in SUBSET (1..Len(Layout)) : view' = MapSegmentsIn(done, Len(Layout))

Next == Create \/ Destroy \/ Map \/ Unmap \/ Defrag \/ UnmapHypervisor \/ InitHypervisor

Spec == Init /\ [][Next]_absVars
=============================================================================
