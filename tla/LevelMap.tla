------------------------------ MODULE LevelMap ------------------------------
(***************************************************************************)
(* The constructor of Map (snakebird.h): from the picture of a level, the  *)
(* terrain and everything that can move.  All of it is constant.  In the   *)
(* picture O is a fruit, * the exit, T a teleporter, R G B the heads of    *)
(* snakes, < > v ^ the rest of a snake pointing towards its head, digits   *)
(* the parts of gadgets, . solid ground, ~ water and # spikes.             *)
(***************************************************************************)
EXTENDS Setup, Sequences, FiniteSets, SequencesExt

CONSTANT base_map  \* the picture, a string of MapSize characters

char == [i \in Coord |-> SubSeq(base_map, i + 1, i + 1)]

CellsDrawn(chars) == {i \in Coord : char[i] \in chars}

\* The cells of a set in the order the constructor's loop meets them.
InMapOrder(cells) == SetToSortSeq(cells, <)

LevelTerrain ==
  [i \in Coord |-> CASE char[i] = "." -> "ground"
                     [] char[i] = "~" -> "water"
                     [] char[i] = "#" -> "spike"
                     [] OTHER         -> "empty"]

LevelExit == CHOOSE i \in Coord : char[i] = "*"

\* A level set up without fruit ignores the fruit of its picture.
LevelFruit == IF FruitCount = 0 THEN {} ELSE CellsDrawn({"O"})

\* The pairs of teleporter halves, the half met first on the left.
LevelTeleporters ==
  LET halves == InMapOrder(CellsDrawn({"T"}))
  IN  IF Len(halves) < 2 THEN {} ELSE {<<halves[1], halves[2]>>}

-----------------------------------------------------------------------------
(***************************************************************************)
(* Snakes.  trace_tail looks for the segment behind a segment to the left, *)
(* to the right, above and below, in this order, follows the first arrow   *)
(* that points back at it, and returns the directions of the arrows.       *)
(***************************************************************************)
\* Mutant: does not look below.
MutBehind(i) ==
  LET arrow == << <<i - 1, ">", "RIGHT">>, <<i + 1, "<", "LEFT">>, <<i - W, "v", "DOWN">> >>
      hits  == {k \in 1 .. 3 : arrow[k][1] \in Coord /\ char[arrow[k][1]] = arrow[k][2]}
  IN  IF hits = {} THEN {} ELSE {arrow[CHOOSE k \in hits : \A m \in hits : k <= m]}

Behind(i) ==
  LET arrow == << <<i - 1, ">", "RIGHT">>, <<i + 1, "<", "LEFT">>,
                  <<i - W, "v", "DOWN">>, <<i + W, "^", "UP">> >>
      hits  == {k \in 1 .. 4 : arrow[k][1] \in Coord /\ char[arrow[k][1]] = arrow[k][2]}
  IN  IF hits = {} THEN {} ELSE {arrow[CHOOSE k \in hits : \A m \in hits : k <= m]}

trace_tail[i \in Coord] ==
  IF Behind(i) = {} THEN <<>>
  ELSE LET b == CHOOSE b \in Behind(i) : TRUE IN <<b[3]>> \o trace_tail[b[1]]

Heads == InMapOrder(CellsDrawn({"R", "G", "B"}))

LevelTail == [s \in Snakes |-> trace_tail[Heads[s]]]

\* init_locations_from_tail
SnakeFrom(head, tail) ==
  LET segment[k \in 1 .. (Len(tail) + 1)] ==
        IF k = 1 THEN head ELSE segment[k - 1] - apply_direction[tail[k - 1]]
  IN  [k \in 1 .. (Len(tail) + 1) |-> segment[k]]

LevelSnakes == [s \in Snakes |-> SnakeFrom(Heads[s], LevelTail[s])]

-----------------------------------------------------------------------------
(***************************************************************************)
(* Gadgets.  A gadget is the cells of one digit; its first cell is its     *)
(* initial offset, and its shape the distances of its cells from it.       *)
(***************************************************************************)
Digit == <<"0", "1", "2", "3", "4", "5", "6", "7", "8", "9">>

PartsOf(d)       == CellsDrawn({Digit[d]})
FirstPart(d)     == CHOOSE i \in PartsOf(d) : \A j \in PartsOf(d) : i <= j
DistancesIn(d)   == {i - FirstPart(d) : i \in PartsOf(d)}

\* Gadget::operator<: fewer parts first, then the earlier first difference.
ShapeLess(A, B) ==
  \/ Cardinality(A) < Cardinality(B)
  \/ /\ Cardinality(A) = Cardinality(B)
     /\ \E x \in A \ B : \A y \in B \ A : x < y

\* The constructor sorts the gadgets by shape before a state refers to them.
GadgetOrder ==
  SetToSortSeq(1 .. GadgetCount,
               LAMBDA d, e : \/ ShapeLess(DistancesIn(d), DistancesIn(e))
                             \/ DistancesIn(d) = DistancesIn(e) /\ d < e)

LevelShape == [g \in Gadgets |-> DistancesIn(GadgetOrder[g - SnakeCount])]

LevelOffset == [g \in Gadgets |-> FirstPart(GadgetOrder[g - SnakeCount])]

\* Where a gadget's shape stands in the order of Gadget::operator<.
LevelShapeRank ==
  [g \in Gadgets |-> Cardinality({h \in Gadgets : ShapeLess(LevelShape[h], LevelShape[g])})]

-----------------------------------------------------------------------------
(***************************************************************************)
(* What the constructor asserts of a picture.                              *)
(***************************************************************************)
LegalPicture ==
  /\ Len(base_map) = MapSize
  /\ FruitCount = 0 \/ Cardinality(CellsDrawn({"O"})) = FruitCount
  /\ Cardinality(CellsDrawn({"R", "G", "B"})) = SnakeCount
  /\ Cardinality(CellsDrawn({"T"})) = 2 * TeleporterCount
  /\ Cardinality(CellsDrawn({"*"})) = 1
  /\ \A d \in 1 .. GadgetCount : PartsOf(d) # {}
  /\ \A d \in (GadgetCount + 1) .. 10 : PartsOf(d) = {}

ASSUME PictureAssumption == LegalPicture

=============================================================================
