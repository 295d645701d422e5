SPECIFICATION FairPackingSpec
CONSTANTS
  H = 9
  W = 10
  FruitCount = 1
  SnakeCount = 1
  SnakeMaxLen = 3
  GadgetCount = 3
  TeleporterCount = 1
  base_map <- Yard
  Terrain <- MCTerrain
  Exit <- MCExit
  Fruit <- MCFruit
  Teleporters <- MCTeleporters
  InitSnakes <- MCSnakes
  Shape <- MCShape
  ShapeRank <- MCShapeRank
  InitOffset <- MCOffset
  InitTail <- MCTail
  ByteBits = 8
  AccBits = 16
INVARIANTS
  TypeOK
  TailMatchesBody
  PackedLosesNothing
  NoOverlap
  AtRest
  PushLoopFindsLeast
  SupportLoopFindsFalling
  SnakesFitTheirArrays
PROPERTIES
  CanonicalizeKeepsBodies
  GadgetsMoveWhole
  PhysicsEnds
CHECK_DEADLOCK FALSE
