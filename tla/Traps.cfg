CONSTANTS
  PULP_SECURE = FALSE
  NPC = 11
  Programs <- MCPrograms
  Vector <- MCVector
SPECIFICATION ProgramSpec
INVARIANTS TypeOK InOrder IrqHandshake TrapPrecise EnableExact StepsOne
PROPERTIES ImplementsArchitecture
