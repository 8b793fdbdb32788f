CONSTANTS
  PAGE_SIZE = 1
  PTE_PER_PAGE = 2
  WORD_MOD = 16
  MAX_LEVEL = 2
  ROOT_TABLE_COUNT = 1
  BLOCK_LEVELS = {0, 1}
  X = X
  R = R
  RW = RW
  C1 = C1
  C2 = C2
  ABSENT_ATTRS = ABSENT_ATTRS
  NONE = NONE
  Attrs <- MC_Attrs
  CPUs <- MC_CPUs
  Frames <- MC_Frames
  Layout <- MC_Layout
  Ranges <- MC_Ranges
SPECIFICATION FacadeReinitSpec
INVARIANT
  PoolPartitioned
