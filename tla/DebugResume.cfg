CONSTANTS
  RepeatFactor = 20
  DM_HaltAddress <- TopHaltAddress
  MHartId = 0
  FlagHart = 992
  Flags <- TopFlags
  ReqCycles = 2
  HoldsRequest = FALSE
SPECIFICATION FairSpec
PROPERTIES Resumes
