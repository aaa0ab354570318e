CONSTANTS
  HALF = 4
  WIDTH = 4
  FPU = FALSE
  ApuResults = {}
  Operations <- MCOperations
  Followers <- MCFollowers
  MaxOps = 2
SPECIFICATION LiveSpec
INVARIANTS TypeOK ProductExact QuotientExact
PROPERTIES UnitsEnd
