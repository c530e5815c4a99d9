SPECIFICATION FairSpec
CONSTANTS
  N = 2
  Dispositions <- DefaultOnly
  RunLibcFreeres = TRUE
  MaxAsync = 0
  MaxSync = 0
  MaxCalls = 1
PROPERTIES
  ExitGroupMarksAll
