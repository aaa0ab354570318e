CONSTANTS
  PULP_SECURE = FALSE
  NPC = 11
  Programs <- MCProgramsMepc
  Vector <- MCVector
SPECIFICATION ProgramSpec
INVARIANTS TrapPrecise
