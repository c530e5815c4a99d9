SPECIFICATION FairSpec
CONSTANTS
  Lwps = {11, 12, 13}
  Letters = 4
  SyncSignals = TRUE
INVARIANTS
  TypeOK
  OneToken
PROPERTIES
  LockSpec
  WaiterGetsToken
