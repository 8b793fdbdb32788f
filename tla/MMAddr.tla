------------------------------- MODULE MMAddr -------------------------------
(***************************************************************************)
(* Address arithmetic of the page-table engine: `mod addr` of              *)
(* src/hfo2/src/mm.rs and the rounding helpers it relies on.  Addresses    *)
(* are machine words: an addition wraps at WORD_MOD, as a release build of *)
(* usize arithmetic does.  PAGE_SIZE and PTE_PER_PAGE are powers of two,   *)
(* so the shifts and masks of the code are divisions and remainders here.  *)
(***************************************************************************)
EXTENDS Naturals

CONSTANTS
  PAGE_SIZE,      \* address units per page (1 << PAGE_BITS)
  PTE_PER_PAGE,   \* descriptors per raw table (1 << PAGE_LEVEL_BITS)
  WORD_MOD        \* 2^(bits of usize)

ASSUME PAGE_SIZE \in {2^k : k \in 0..4}
ASSUME PTE_PER_PAGE \in {2^k : k \in 1..3}
ASSUME WORD_MOD \in Nat /\ WORD_MOD > PAGE_SIZE

\* addr::entry_size: bytes covered by one descriptor at `level`.
EntrySize(level) == PAGE_SIZE * PTE_PER_PAGE ^ level

\* addr::round_down_to_page: addr & !(PAGE_SIZE - 1).
RoundDownToPage(a) == (a \div PAGE_SIZE) * PAGE_SIZE

\* addr::round_up_to_page: round_down_to_page(addr + PAGE_SIZE - 1); the
\* addition wraps.
RoundUpToPage(a) == RoundDownToPage((a + PAGE_SIZE - 1) % WORD_MOD)

\* addr::start_of_next_block: (addr + block_size) & !(block_size - 1).
StartOfNextBlock(a, size) == (((a + size) % WORD_MOD) \div size) * size

\* addr::level_end: first address past the table at `level` holding `a`.
LevelEnd(a, level) == ((a \div EntrySize(level + 1)) + 1) * EntrySize(level + 1)

\* addr::index: slot of `a` in a table at `level`.
Index(a, level) == (a \div EntrySize(level)) % PTE_PER_PAGE

\* cmp::min on addresses.
MinAddr(a, b) == IF a <= b THEN a ELSE b
=============================================================================
