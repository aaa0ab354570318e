CONSTANTS
  DEPTH = 3
  NWORDS = 8
  Zero = Zero
  Protected = {5}
  N_HWLP = 2
  MaxCount = 2
  Compressed <- NestedCompressed
  Targets <- NestedTargets
  LoopSetup <- NestedSetup
  Junk <- MCJunk
SPECIFICATION StreamStageSpec
INVARIANTS TypeOK OneOutstanding NoOverflow NoGap 
PROPERTIES ImplementsStream 
