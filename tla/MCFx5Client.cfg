SPECIFICATION FairSpec
CONSTANTS
  HeaderSize3E = 9
  HeaderSize4E = 13
  SizeOffset3E = 7
  SizeOffset4E = 11
  SerialOffset4E = 2
  IoBufSize = 49
  ResyncLimit = 64
  MaxValueCount = 1
  ClearValuesOnSetRequest = TRUE
  SerialRange = 4
  Cmds <- MCCmds
  ClientHeaders <- MCHeaders
  LateAnswers = FALSE
  Codes <- MCCodes
  Pieces <- MCPieces
  MaxCommands = 3
INVARIANTS TypeOK PrintsOwnAnswer PrintsWhatIsHeld
PROPERTIES EveryCommandEnds OneAfterTheOther
CHECK_DEADLOCK FALSE
