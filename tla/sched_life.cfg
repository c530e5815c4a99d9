SPECIFICATION FairSpec
CONSTANTS
  N = 2
  Dispositions <- DefaultOnly
  RunLibcFreeres = TRUE
  MaxAsync = 1
  MaxSync = 0
  MaxCalls = 2
INVARIANTS
  TypeOK
  OneRunner
  EmptySlotIsUnused
  FatalSignalKnown
  VgkillOnlyForExiting
  ShutdownIsAlone
PROPERTIES
  MarkIsFinal
  MarkedThreadStops
  ReapEnds
  WaiterRuns
