CONSTANTS
  PAGE_SIZE = 2
  PTE_PER_PAGE = 2
  WORD_MOD = 32
  MAX_LEVEL = 2
  ROOT_TABLE_COUNT = 1
  BLOCK_LEVELS = {0, 1}
  A1 = A1
  A2 = A2
  ABSENT_ATTRS = ABSENT_ATTRS
  NONE = NONE
  Attrs <- MC_Attrs
  Frames <- MC_Frames
  Layout <- MC_Layout
  Ranges <- MC_WrapRanges
SPECIFICATION Spec
PROPERTY
  RefinesAbstractMM
