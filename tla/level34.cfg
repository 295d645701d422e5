SPECIFICATION SolverSpec
CONSTANTS
  H = 9
  W = 11
  FruitCount = 0
  SnakeCount = 2
  SnakeMaxLen = 2
  GadgetCount = 1
  TeleporterCount = 1
  base_map <- MCLevel34
  Terrain <- MCTerrain
  Exit <- MCExit
  Fruit <- MCFruit
  Teleporters <- MCTeleporters
  InitSnakes <- MCSnakes
  Shape <- MCShape
  ShapeRank <- MCShapeRank
  InitOffset <- MCOffset
  InitTail <- MCTail
  ByteBits = 8
  AccBits = 64
  HashByte <- MCHashByte
  Hash <- MCHash
  BatchLimit = 100
  Expected = 17
INVARIANTS
  InOpenTerrain
  RecomputeIsEnough
  StaysDefined
  OneKeyForEachPicture
PROPERTY
  TestPasses
