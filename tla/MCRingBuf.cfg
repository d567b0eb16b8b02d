SPECIFICATION Spec
CONSTANTS
  Byte <- MCByte
  Capacity = 4
  IndexRange = 8
  MaxChunk = 5
INVARIANTS TypeOK IndicesAgree PeekInOrder
PROPERTY Fifo
