---------------------------- MODULE MapContents ----------------------------
(***************************************************************************)
(* What a Map holds (snakebird.h, class Map), as constants, and what the   *)
(* puzzle takes for granted of it: what its constructor asserts, and the   *)
(* border that makes bounds checks unnecessary (snakebird.h:37-40).        *)
(***************************************************************************)
EXTENDS Setup, Sequences, FiniteSets, Functions

CONSTANTS
  Terrain,      \* Map::base_map_: what each cell of the map is made of
  Exit,         \* Map::exit_
  Fruit,        \* Map::fruit_: the cells that hold a fruit at the start
  Teleporters,  \* Map::teleporters_: pairs of cells
  InitSnakes,   \* Map::snakes_: the segments of each snake, head first
  Shape,        \* Gadget::i_: the cells of each gadget, relative to its first
  ShapeRank,    \* place of the shape in the order of Gadget::operator<
  InitOffset    \* Gadget::initial_offset_

Material == {"empty", "ground", "water", "spike"}

\* The border of the map (snakebird.h:37-40 asks for walls or hazards there).
Border == {i \in Coord : i < W \/ i >= MapSize - W \/ i % W = 0 \/ i % W = W - 1}

Steps == {apply_direction[dir] : dir \in Direction}

LegalTerrain ==
  /\ Terrain \in [Coord -> Material]
  /\ \A i \in Border : Terrain[i] # "empty"
  /\ Exit \in Coord \ {0}
  /\ Fruit \subseteq {i \in Coord : Terrain[i] = "empty"}
  /\ Cardinality(Fruit) = FruitCount
  /\ Teleporters \subseteq {i \in Coord : Terrain[i] = "empty"}
                             \X {i \in Coord : Terrain[i] = "empty"}
  /\ Cardinality(Teleporters) = TeleporterCount
  /\ \A t \in Teleporters : t[1] # t[2]

InitCells(o) == IF o \in Snakes THEN Range(InitSnakes[o])
                                ELSE {InitOffset[o] + d : d \in Shape[o]}

LegalObjects ==
  /\ InitSnakes \in [Snakes -> Seq(Coord)]
  /\ Shape \in [Gadgets -> SUBSET Nat]
  /\ InitOffset \in [Gadgets -> Coord]
  /\ ShapeRank \in [Gadgets -> Nat]
  /\ \A g \in Gadgets : 0 \in Shape[g]
  /\ \A g, h \in Gadgets :
       /\ ShapeRank[g] = ShapeRank[h] <=> Shape[g] = Shape[h]
       /\ g < h => ShapeRank[g] <= ShapeRank[h]  \* Map sorts its gadgets
  /\ \A s \in Snakes :
       /\ Len(InitSnakes[s]) >= 2
       /\ Len(InitSnakes[s]) + FruitCount <= SnakeMaxLen
       /\ \A i, j \in DOMAIN InitSnakes[s] : i # j => InitSnakes[s][i] # InitSnakes[s][j]
       /\ \A i \in 1 .. (Len(InitSnakes[s]) - 1) :
            InitSnakes[s][i] - InitSnakes[s][i + 1] \in Steps
  /\ \A o \in Objects : /\ InitCells(o) \subseteq {i \in Coord : Terrain[i] = "empty"}
                        /\ InitCells(o) \intersect Fruit = {}
  /\ \A o, p \in Objects : o # p => InitCells(o) \intersect InitCells(p) = {}

\* Every part of a gadget can be reached from its first by steps.
Connected(g) ==
  \A S \in SUBSET Shape[g] :
    0 \in S /\ (\A d \in S, e \in Shape[g] : e - d \in Steps => e \in S) => S = Shape[g]

\* No sparse gadget can come to a teleporter, which might take it halfway over
\* an edge of the map (snakebird.h:1194-1198).  Not assumed by the rules.
NothingSparseTeleports == Teleporters = {} \/ \A g \in Gadgets : Connected(g)

ASSUME TerrainAssumption == LegalTerrain

ASSUME ObjectsAssumption == LegalObjects

=============================================================================
