SPECIFICATION Spec
CONSTANTS
  PayloadBits = 1
  TopBit = 2
  Length = 3
  FlushSize = 4
  Records <- MCRecords
  MaxRecords = 3
  FrameLengths <- MCFrameLengths
INVARIANT
  NoMoreThanPacked
CHECK_DEADLOCK FALSE
