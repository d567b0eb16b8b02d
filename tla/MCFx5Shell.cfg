SPECIFICATION Spec
CONSTANTS
  HeaderSize3E = 9
  HeaderSize4E = 13
  SizeOffset3E = 7
  SizeOffset4E = 11
  SerialOffset4E = 2
  IoBufSize = 49
  ResyncLimit = 64
  MaxValueCount = 1
  ClearValuesOnSetRequest = TRUE
  SerialRange = 4
  U16Range = 20
  U32Range = 64
  ULongMax = 255
  ByteRange = 4
  NULL = NULL
  b1 = b1
  b2 = b2
  b3 = b3
  Blocks <- MCBlocks
  Sessions <- MCSessions
  Numbers <- MCNumbers
  ScriptArgs <- MCScriptArgs
INVARIANTS TypeOK Precedence StringsOwned EndReleases ExitCode
INVARIANTS AddressesReadBack RangesReadBack SetIsWhole StoresStayInside
CHECK_DEADLOCK FALSE
