CONSTANTS
  PULP_SECURE = FALSE
  NPC = 6
  Programs <- MCProgramsSmall
  Vector <- MCVectorSmall
SPECIFICATION FairSpec
PROPERTIES InterruptServed HaltServed
