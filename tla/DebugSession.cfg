CONSTANTS
  RepeatFactor = 20
  DM_HaltAddress <- MCDebugAddress
  MHartId = 992
  FlagHart = 992
  Flags <- MCFlags
  ReqCycles = 2
  HoldsRequest = TRUE
SPECIFICATION SessionSpec
PROPERTIES DebugTransparent
