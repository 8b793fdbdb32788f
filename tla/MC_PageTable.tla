---------------------------- MODULE MC_PageTable ----------------------------
(* A stage with three levels below the root (2, 1, 0), one root table of   *)
(* two descriptors, blocks allowed at levels 0 and 1 only, so a map of a   *)
(* level-2 entry must allocate tables: an 8-page address space.            *)
EXTENDS PageTable

CONSTANTS A1, A2

MC_Attrs == {A1, A2}
MC_Frames == 0..3
(* Ranges that take each path of map_level: a whole level-1 block [0,2),  *)
(* a single page split out of two levels [1,2), both edges split [1,7),    *)
(* a whole root entry [4,8), the whole address space [0,8), a range that  *)
(* starts on a level-1 boundary and splits at its end [2,7), and the      *)
(* reversed range [4,2), which each operation must leave without effect.  *)
MC_Ranges == {<<0, 2>>, <<1, 2>>, <<1, 7>>, <<2, 7>>, <<4, 8>>, <<0, 8>>, <<4, 2>>}

(* Inputs for two-address pages in a 32-address word: 31 is within a   *)
(* page of the end of the word, so round_up_to_page(31) wraps to 0.     *)
MC_WrapRanges == {<<0, 31>>, <<2, 6>>}

(* Hypervisor segments: text a whole level-1 block [0,2), rodata a page  *)
(* that splits a level-1 block [2,3), data a block and a split page      *)
(* [4,7), so each unmap may need a table page of its own.               *)
MC_Layout == <<<<0, 2, A1>>, <<2, 3, A2>>, <<4, 7, A1>>>>
(* Segments of a table of four descriptors per page and one root table. *)
MC_FarLayout == <<<<0, 1, A1>>, <<1, 2, A2>>, <<2, 4, A1>>>>

(* States are told apart by the page-table state alone: `req` records   *)
(* the last call and is read only in its primed form.                   *)
MC_View == <<mem, free, root, panicked>>
(* Inputs for a table of four descriptors per page and one root table:   *)
(* 8 is a page-aligned begin past the end of the address space (4).      *)
MC_FarRanges == {<<0, 4>>, <<8, 12>>}
=============================================================================
