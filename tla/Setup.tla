------------------------------- MODULE Setup -------------------------------
(***************************************************************************)
(* A puzzle scenario (snakebird.h, struct Setup): the template parameters  *)
(* every other class is specialised with, and the linear coordinates of    *)
(* the map.  The map has H rows of W spaces, stored row by row; moving one *)
(* space in a direction adds a fixed delta to a coordinate.                *)
(***************************************************************************)
EXTENDS Integers

CONSTANTS
  H,               \* rows of the map
  W,               \* columns of the map
  FruitCount,      \* initial fruit on the board
  SnakeCount,      \* initial snakes on the board
  SnakeMaxLen,     \* capacity of Snake::i_
  GadgetCount,     \* other pushable objects on the board
  TeleporterCount  \* teleporter pairs on the map

(***************************************************************************)
(* Every level has snakes of at least two segments, and none has more than *)
(* one teleporter pair (snakebird.h:1112-1117 says that more is a guess).  *)
(***************************************************************************)
LegalSetup ==
  /\ H \in Nat \ {0} /\ W \in Nat /\ W >= 3
  /\ FruitCount \in Nat
  /\ SnakeCount \in Nat \ {0}
  /\ SnakeMaxLen \in Nat /\ SnakeMaxLen >= 2
  /\ GadgetCount \in Nat
  /\ TeleporterCount \in {0, 1}

ASSUME SetupAssumption == LegalSetup

MapSize  == H * W
ObjCount == SnakeCount + GadgetCount

\* A row-major coordinate into the map.
Coord == 0 .. (MapSize - 1)

(***************************************************************************)
(* Object ids, as ObjMap draws them: the snakes first, then the gadgets.   *)
(***************************************************************************)
Snakes  == 1 .. SnakeCount
Gadgets == (SnakeCount + 1) .. ObjCount
Objects == Snakes \union Gadgets

Direction == {"UP", "RIGHT", "DOWN", "LEFT"}

apply_direction ==
  [UP |-> -W, RIGHT |-> 1, DOWN |-> W, LEFT |-> -1]

=============================================================================
