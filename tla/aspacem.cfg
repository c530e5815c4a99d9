SPECIFICATION Spec
CHECK_DEADLOCK FALSE
CONSTANTS
  P = 14
  aspacem_minAddr = 2
  aspacem_maxAddr = 10
  NoFile = NoFile
  Files = {ExeFile, ImageFile}
  UserPages = {1, 2, 3, 4, 5, 6, 7, 8, 9, 10, 11, 12}
  Starts = {1, 5, 6, 10}
  Lens = {1, 2}
  Prots = {{"R", "W"}, {"R", "X"}}
  Offsets = {1}
  ExeFile = ExeFile
  ImageFile = ImageFile
  ExePage = 1
  BrkBase = 2
  DsegPages = 3
  StackEnd = 10
  StackPages = 3
  ImagePage = 11
  TrampolinePage = 12
  HALVES = 2
  ShmPages = 1
  CrossSegments = FALSE
  MaxOps = 3
  MaxTrans = 1
  MaxV = 2
INVARIANTS
  FromMarkedPages
  SegmentsSane
  MatchesKernel
  ValgrindKeepsItsPages
  NoStaleTranslation
  NothingClobbered
