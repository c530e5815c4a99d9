SPECIFICATION Spec
CONSTANTS
  DRD_N_THREADS = 4
  Addrs = {x}
  Mutexes = {m}
  BarrierCount = 2
  Participants = {1, 2, 3}
  Parents = {1}
  MaxSegments = 4
  MaxRecursion = 2
  MaxSyncs = 5
  MaxMade = 1
INVARIANTS
  BarrierSegmentsHeld
CHECK_DEADLOCK FALSE
