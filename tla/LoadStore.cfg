CONSTANTS
  NBYTES = 12
  Negative <- MCNegative
  Refused = {1}
  Accesses <- MCAccesses
  Stallable <- HeldInEx
SPECIFICATION TransferSpec
INVARIANTS TypeOK AnswerExpected TransferredOnce LoadsExact RefusalFinal
