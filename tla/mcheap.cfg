SPECIFICATION Spec
CONSTANTS
  VG_MIN_MALLOC_SZB = 4
  WORD = 2
  HP_OVERHEAD = 4
  RZ = 1
  SB_ADMIN = 4
  MIN_SBLOCK_SZB = 48
  PAGE = 48
  EXACT_LISTS = 2
  ListBounds <- MCBounds
  SWIZZLE = 1
  SBLOCKS_SIZE_INITIAL = 1
  Space <- MCSpace
  Sizes = {0, 7, 33}
  Aligns = {8}
  FreelistVols = {7}
  MaxBlocks = 3
  CustomAddrs = {300}
  CustomSzB = 5
INVARIANTS
  ArenaSane
  ChunksOwnBlocks
  ShadowMatches
  QueueWithinVolume
PROPERTIES
  GrowsOnlyWhenFull
  HeapSpec
CHECK_DEADLOCK FALSE
