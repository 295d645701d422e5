SPECIFICATION Spec
CONSTANTS
  H = 12
  W = 14
  FruitCount = 2
  SnakeCount = 2
  SnakeMaxLen = 4
  GadgetCount = 0
  TeleporterCount = 1
  base_map <- MCLevel44
  Terrain <- MCTerrain
  Exit <- MCExit
  Fruit <- MCFruit
  Teleporters <- MCTeleporters
  InitSnakes <- MCSnakes
  Shape <- MCShape
  ShapeRank <- MCShapeRank
  InitOffset <- MCOffset
INVARIANTS
  StaysDefined
CHECK_DEADLOCK FALSE
