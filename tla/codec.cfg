SPECIFICATION FairSpec
CONSTANTS
  PayloadBits = 1
  TopBit = 2
  Length = 3
  FlushSize = 4
  Records <- MCRecords
  MaxRecords = 4
  FrameLengths <- MCFrameLengths
INVARIANTS
  TypeOK
  RoundTrip
  BlocksInBounds
  NoOctets
PROPERTY
  StreamEnds
CHECK_DEADLOCK FALSE
