SPECIFICATION Spec
CONSTANTS
  Byte <- MCByte
  Capacity = 5
  IndexRange = 8
  MaxChunk = 5
INVARIANT PeekInOrder
