SPECIFICATION Spec
CONSTANTS
  HeaderSize3E = 9
  HeaderSize4E = 13
  SizeOffset3E = 7
  SizeOffset4E = 11
  SerialOffset4E = 2
  IoBufSize = 49
  ResyncLimit = 20
  MaxValueCount = 1
  ClearValuesOnSetRequest = TRUE
  SerialRange = 4
  Requests <- MCRequests
  LinkHeaders <- MC4E
  PlcWords <- MCWords
  Codes <- MCCodes
  Pieces <- MCPieces
  MaxRequests = 3
INVARIANTS TypeOK Undeceived AlignedAfterFrame AnswerIsCurrent ValuesAreTheAnswers LastAnswerNotLost
CHECK_DEADLOCK FALSE
