SPECIFICATION Spec
CONSTANTS
  HeaderSize3E = 4
  HeaderSize4E = 6
  SizeOffset3E = 2
  SizeOffset4E = 4
  SerialOffset4E = 2
  IoBufSize = 9
  ResyncLimit = 2
  MaxBytes = 8
  Byte <- MCFitByte
  Serials <- MCSerials
INVARIANT AwaitedFrameFits
CHECK_DEADLOCK FALSE
