SPECIFICATION FairSpec
CONSTANTS
  Key <- MCKey
  NullKey = 0
  HashByte <- MCHashByte
  Inputs <- MCInputs
INVARIANTS
  TypeOK
  WritesRuns
  PacksBatches
PROPERTIES
  MergeIsDedup
  Returns
CHECK_DEADLOCK FALSE
