SPECIFICATION Spec
CONSTANTS
  Addrs = {0, 1, 2, 3}
  Blocks <- SomeBlocks
  Ranges <- SomeRanges
  CodeSizes = {1, 2}
  N_UNREDIR_TT = 3
  N_UNREDIR_TCQ = 5
INVARIANTS
  CodeIsCurrent
  OnePerAddress
