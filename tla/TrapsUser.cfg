CONSTANTS
  PULP_SECURE = TRUE
  NPC = 10
  Programs <- MCProgramsUser
  Vector <- MCVectorUser
SPECIFICATION ProgramSpec
INVARIANTS TrapPrecise EnableExact
PROPERTIES ImplementsArchitecture
