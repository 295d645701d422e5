SPECIFICATION Spec
CONSTANTS
  Key <- MCKey
  NullKey <- MCNull
  HashByte <- MCHashByte
  Hash <- MCHash
  BatchLimit = 1
  Setups <- MCCompressed
INVARIANTS
  VisitsSomething
CHECK_DEADLOCK FALSE
