SPECIFICATION Spec
CONSTANTS
  N = 2
  Dispositions <- AllDispositions
  RunLibcFreeres = TRUE
  MaxAsync = 2
  MaxSync = 1
  MaxCalls = 1
INVARIANTS
  IInv
  HandlerFindsSyscall
  SyscallStartsIdle
  ExactlyOnce
