CONSTANTS
  Commands <- MCCommands
  MaxSent = 3
  ReplyBuffer = 1
  TICK_DELAY = 1
  Texts <- MCTexts
  StopText <- MCStopText
  MaxWrites = 1
  ExitStatuses = {0, 1}
  MaxSb = 1
SPECIFICATION FairBenchSpec
INVARIANTS ReportExact
PROPERTIES JtagInOrder CommandsServed ReportArrives
CHECK_DEADLOCK FALSE
