----------------------------- MODULE MC_MMFacade -----------------------------
(* The hypervisor's table with the shape of MC_PageTable: levels 2, 1, 0,  *)
(* one root table of two descriptors, blocks at levels 0 and 1, 8 pages.   *)
EXTENDS MMFacade, TLC

CONSTANTS X, R, RW, C1, C2

MC_Attrs == {X, R, RW}
MC_CPUs == {C1, C2}
(* Four frames: the root and three tables, one short of what mapping the *)
(* whole layout takes, so mm_init's map of data runs out of pages.        *)
MC_Frames == 0..3
(* text a whole level-1 block, rodata a split page, data a block and a  *)
(* split page of the other root entry.                                   *)
MC_Layout == <<<<0, 2, X>>, <<2, 3, R>>, <<4, 7, RW>>>>
(* A page split out of text, one split out of the last level-1 block,  *)
(* data's root entry, and the whole space.                             *)
MC_Ranges == {<<1, 2>>, <<6, 7>>, <<4, 8>>, <<0, 8>>}

MC_View == <<mem, free, root, panicked, boot, cpuRoot, vmRoot>>
MC_Symmetry == Permutations(MC_CPUs)
=============================================================================
