CONSTANTS
  Register <- Registers
  Zero = 0
  Value <- Int
  Reset = 0
  Instrs <- MCInstrs
  Results = {0, 1}
  Tests <- MCTests
  DataWords <- MCData
SPECIFICATION FairRunSpec
INVARIANTS OperandsExact VerdictExact
PROPERTIES TestsEnd ImplementsMachine
CHECK_DEADLOCK FALSE
