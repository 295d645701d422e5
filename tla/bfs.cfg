SPECIFICATION FairSpec
CONSTANTS
  Key <- MCKey
  NullKey <- MCNull
  HashByte <- MCHashByte
  Hash <- MCHash
  BatchLimit = 1
  Setups <- MCSetups
INVARIANTS
  TypeOK
  EachKeyOnce
  ValuesNameParents
  FoundNext
  PathIsSolution
  ShortestSolution
PROPERTIES
  Returns
  Implements
CHECK_DEADLOCK FALSE
