SPECIFICATION Spec
CONSTANTS
  HeaderSize3E = 9
  HeaderSize4E = 13
  SizeOffset3E = 7
  SizeOffset4E = 11
  SerialOffset4E = 2
  IoBufSize = 49
  ResyncLimit = 8
  MaxValueCount = 1
  ClearValuesOnSetRequest = TRUE
  SerialRange = 2
  PoolSize = 1
  Callers = {t1, t2}
  NULL = NULL
  SomeSettings <- MCSettings
  SomeHeaders <- MCHeaders
  SomeTimers <- MCTimers
  SomeCommands <- MCCommands
  SomeDevices <- MCDevices
  SomeAddresses <- MCAddresses
  SomeCounts <- MCCounts
  SomeIndexes <- MCIndexes
  SomeWords <- MCWords
  SomeBufSizes <- MCBufSizes
  SomeChunks <- MCChunks
INVARIANTS TypeOK OneOwner CountWithinStore RequestsFit NoResidue NeedMoreIsStable
PROPERTIES FailuresChangeNothing ParseTakesBytes RefusedParseKeepsValues
SYMMETRY MCSymmetry
