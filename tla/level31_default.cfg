SPECIFICATION Spec
CONSTANTS
  H = 13
  W = 17
  FruitCount = 0
  SnakeCount = 1
  SnakeMaxLen = 4
  GadgetCount = 0
  TeleporterCount = 1
  base_map <- MCLevel31
  Terrain <- MCTerrain
  Exit <- MCExit
  Fruit <- MCFruit
  Teleporters <- MCTeleporters
  InitSnakes <- MCSnakes
  Shape <- MCShape
  ShapeRank <- MCShapeRank
  InitOffset <- MCOffset
INVARIANTS
  DefaultStateUnreachable
CHECK_DEADLOCK FALSE
