CONSTANTS
  PAGE_SIZE = 1
  PTE_PER_PAGE = 4
  WORD_MOD = 16
  MAX_LEVEL = 0
  ROOT_TABLE_COUNT = 1
  BLOCK_LEVELS = {0}
  A1 = A1
  A2 = A2
  ABSENT_ATTRS = ABSENT_ATTRS
  NONE = NONE
  Attrs <- MC_Attrs
  Frames <- MC_Frames
  Layout <- MC_FarLayout
  Ranges <- MC_FarRanges
SPECIFICATION Spec
INVARIANT
  NoPanic
