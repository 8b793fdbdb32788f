CONSTANTS
  PAGE_SIZE = 1
  PTE_PER_PAGE = 2
  WORD_MOD = 16
  MAX_LEVEL = 1
  ROOT_TABLE_COUNT = 1
  BLOCK_LEVELS = {0, 1}
  A1 = A1
  A2 = A2
  ABSENT_ATTRS = ABSENT_ATTRS
  NONE = NONE
  Attrs <- MC_Attrs
  Frames <- MC_Frames
  Layout <- MC_Layout
  Ranges <- MC_Ranges
SPECIFICATION MMUSpec
PROPERTY
  BreakBeforeMake
