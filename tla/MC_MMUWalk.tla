----------------------------- MODULE MC_MMUWalk -----------------------------
(* A stage with two levels below the root (1 and 0), one root table of two *)
(* descriptors and blocks at both levels: a 4-page address space.  Three   *)
(* frames: the root and two tables.                                        *)
EXTENDS MMUWalk

CONSTANTS A1, A2

MC_Attrs == {A1, A2}
MC_Frames == 0..2
(* Ranges in the upper level-1 entry, whose split blocks end at the end  *)
(* of the address space: a single page, split out of a level-1 block or  *)
(* collapsing its table on unmap [2,3); the whole entry, replacing a      *)
(* table by a block or by absent [2,4); the neighbouring page, so one     *)
(* table holds two pages with different histories [3,4).                 *)
MC_Ranges == {<<2, 3>>, <<2, 4>>, <<3, 4>>}
(* Hypervisor segments: a page of the lower level-1 entry, then the two  *)
(* pages of the upper one, each splitting a block mapped over them.     *)
MC_Layout == <<<<0, 1, A1>>, <<2, 3, A2>>, <<3, 4, A1>>>>

(* `req` records the last call and no property of this module reads it.  *)
MC_View == <<mem, free, root, panicked, pending, tlb, walk, inv>>
=============================================================================
