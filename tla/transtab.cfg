SPECIFICATION Spec
CONSTANTS
  Addrs = {0, 1, 2}
  Blocks <- SomeBlocks
  Ranges <- SomeRanges
  Redirs <- SomeRedirs
  CodeSizes = {1, 2}
  N_SECTORS = 2
  N_TTES_PER_SECTOR = 3
  N_TTES_PER_SECTOR_USABLE = 2
  tc_sector_szQ = 3
  HASH_TT <- Hash
  VG_TT_FAST_SIZE = 2
  ECLASS_SIZE = 2
  ECLASS_MISC = 2
INVARIANTS
  FastCodeIsCurrent
  SearchFindsCurrentCode
  SectorSane
