CONSTANTS
  DEPTH = 3
  NWORDS = 3
  Zero = Zero
  Protected = {}
  N_HWLP = 1
  MaxCount = 2
  Compressed <- EndCompressed
  Targets <- LiveTargets
  LoopSetup <- EndSetup
  Junk <- MCJunk
SPECIFICATION LiveSpec
PROPERTIES InstrArrives
