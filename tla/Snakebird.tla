----------------------------- MODULE Snakebird -----------------------------
(***************************************************************************)
(* The rules of the puzzle: class State of snakebird.h.  A player moves a  *)
(* snake (do_valid_moves), then process_gravity runs exits, teleporters    *)
(* and falling, round after round, until nothing changes, and canonicalize *)
(* gives interchangeable objects a fixed order.  The loop of               *)
(* process_gravity is modelled step by step; the variable phase is its     *)
(* program counter.                                                        *)
(*                                                                         *)
(* Map is constant, see module MapContents.  GadgetState also carries      *)
(* template_, which is the gadget's own index in every state that          *)
(* do_valid_moves is called on, and is left out.                           *)
(***************************************************************************)
EXTENDS MapContents

kGadgetDeleted == 0

VARIABLES
  snakes,            \* the segments of each snake, head first; <<>> once it has exited
  gadgets,           \* offset of each gadget; kGadgetDeleted once it is destroyed
  fruit,             \* the cells of the fruit still on the map
  phase,             \* where process_gravity is; "moves" when it is not running
  orig_tele_mask,    \* <<teleporter half, object>> overlaps that are not new
  recompute_falling  \* the objects that may still be falling

vars == <<snakes, gadgets, fruit, phase, orig_tele_mask, recompute_falling>>

Phase == {"moves", "exits", "teleports", "gravity", "lost", "undefined"}

-----------------------------------------------------------------------------
(***************************************************************************)
(* What is where: the queries of class ObjMap.                             *)
(***************************************************************************)
GadgetCells(g) ==
  IF gadgets[g] = kGadgetDeleted THEN {} ELSE {gadgets[g] + d : d \in Shape[g]}

CellsOf(o) == IF o \in Snakes THEN Range(snakes[o]) ELSE GadgetCells(o)

InPlay(o) == CellsOf(o) # {}

ObjectsAt(i) == {o \in Objects : i \in CellsOf(o)}

no_object_at(i) == ObjectsAt(i) = {} /\ i \notin fruit

empty_terrain_at(i) == Terrain[i] = "empty"

\* Every object of S, and only those, shifted by delta.
TranslatedSnakes(S, delta) ==
  [s \in Snakes |-> IF s \in S THEN [i \in DOMAIN snakes[s] |-> snakes[s][i] + delta]
                               ELSE snakes[s]]

TranslatedGadgets(S, delta) ==
  [g \in Gadgets |-> IF g \in S THEN gadgets[g] + delta ELSE gadgets[g]]

-----------------------------------------------------------------------------
(***************************************************************************)
(* Teleporters are edge triggered: an overlap only counts when it was not  *)
(* there in the round before.                                              *)
(***************************************************************************)
TeleporterCells == {t[1] : t \in Teleporters} \union {t[2] : t \in Teleporters}

OtherSide(c) == CHOOSE d \in TeleporterCells : <<c, d>> \in Teleporters \/ <<d, c>> \in Teleporters

teleporter_overlap == {x \in TeleporterCells \X Objects : x[1] \in CellsOf(x[2])}

\* Mutant: level triggered.
MutNewOverlap == teleporter_overlap

NewOverlap == teleporter_overlap \ orig_tele_mask

\* Mutant: both halves take an object the same way.
MutJump(x) == (CHOOSE t \in Teleporters : TRUE)[2] - (CHOOSE t \in Teleporters : TRUE)[1]

\* How far an overlap takes its object.
Jump(x) == OtherSide(x[1]) - x[1]

\* The whole object would land on empty terrain where no object is now,
\* not even itself.
Fits(o, delta) ==
  \A i \in CellsOf(o) : /\ i + delta \in Coord
                        /\ empty_terrain_at(i + delta)
                        /\ no_object_at(i + delta)

\* The parts of an object in the order try_snake_teleport and
\* try_gadget_teleport test them.
TestedFirst(o, i, j) ==
  IF o \in Snakes THEN \E m, n \in DOMAIN snakes[o] : m < n /\ snakes[o][m] = i /\ snakes[o][n] = j
                  ELSE i < j

\* The test of o reaches a cell off the map before a blocked one stops it.
TestsOffMap(o, delta) ==
  \E i \in CellsOf(o) :
     /\ i + delta \notin Coord
     /\ \A j \in CellsOf(o) :
          TestedFirst(o, j, i) => /\ j + delta \in Coord
                                  /\ empty_terrain_at(j + delta)
                                  /\ no_object_at(j + delta)

\* Mutant: try_snake_teleport and try_gadget_teleport always move the object.
MutTeleporting == NewOverlap

Teleporting == {x \in NewOverlap : Fits(x[2], Jump(x))}

-----------------------------------------------------------------------------
(***************************************************************************)
(* Pushing.  push_map is the map without the pusher's last segment, which  *)
(* will have moved on when the pushed objects arrive.                      *)
(***************************************************************************)
PushMapCells(pusher, o) ==
  IF o = pusher THEN {snakes[o][i] : i \in 1 .. (Len(snakes[o]) - 1)} ELSE CellsOf(o)

PushMapObjectsAt(pusher, i) == {o \in Objects : i \in PushMapCells(pusher, o)}

\* Mutant: nothing is in the way of a pushed object.
MutObstructing(pusher, o, delta) == {}

\* The objects in the way of object o.
Obstructing(pusher, o, delta) ==
  {p \in Objects \ {o} : \E i \in CellsOf(o) : i + delta \in PushMapCells(pusher, p)}

\* Mutant: only fruit stops a pushed object.
Mut_can_be_pushed(o, delta) == \A i \in CellsOf(o) : i + delta \notin fruit

\* snake_can_be_pushed and gadget_can_be_pushed: no wall, hazard or fruit.
can_be_pushed(o, delta) ==
  \A i \in CellsOf(o) : empty_terrain_at(i + delta) /\ i + delta \notin fruit

\* The sets of objects that could move together to let the pusher's head move
\* by delta: what is in front of it and, with each member, what obstructs it.
PushableSets(pusher, delta) ==
  LET front == PushMapObjectsAt(pusher, snakes[pusher][1] + delta)
  IN  {P \in SUBSET {o \in Objects \ {pusher} : InPlay(o) /\ can_be_pushed(o, delta)} :
         /\ front \subseteq P
         /\ \A o \in P : Obstructing(pusher, o, delta) \subseteq P}

\* is_valid_push adds only what has to move to what is in front of the pusher.
is_valid_push(pusher, delta, pushed) ==
  /\ pushed \in PushableSets(pusher, delta)
  /\ \A P \in PushableSets(pusher, delta) : pushed \subseteq P

-----------------------------------------------------------------------------
(***************************************************************************)
(* Falling.  An object is supported when it is out of play, when it did    *)
(* not fall in the round before, when it stands on something fixed, or     *)
(* when it stands on a supported object.  So a set of objects falls when   *)
(* its members stand on nothing but each other.                            *)
(***************************************************************************)
Grounded(o) ==
  \E i \in CellsOf(o) : \/ Terrain[i + W] = "ground"
                        \/ o \in Gadgets /\ Terrain[i + W] = "spike"
                        \/ i + W \in fruit

StandsOn(o) == {p \in Objects \ {o} : \E i \in CellsOf(o) : i + W \in CellsOf(p)}

\* The objects not supported, when those outside candidates are known to be.
Falling(candidates) ==
  UNION {F \in SUBSET {o \in candidates : InPlay(o) /\ ~Grounded(o)} :
           \A o \in F : StandsOn(o) \subseteq F}

Hits(o, delta, materials) == \E i \in CellsOf(o) : Terrain[i + delta] \in materials

\* snake_intersects_hazard, gadget_intersects_hazard, after a fall of S.
PerishingSnakes(S)  == {s \in S \intersect Snakes : Hits(s, W, {"water", "spike"})}
DestroyedGadgets(S) == {g \in S \intersect Gadgets : Hits(g, W, {"water"})}

-----------------------------------------------------------------------------
(***************************************************************************)
(* canonicalize sorts the snakes by place and the gadgets by shape, then   *)
(* by offset.  A snake that has exited is left with its head at 0.         *)
(***************************************************************************)
HeadCell(s) == IF snakes[s] = <<>> THEN 0 ELSE snakes[s][1]

SnakeBefore(s, t) == HeadCell(s) < HeadCell(t)

\* Mutant: gadgets sorted by offset alone.
MutGadgetBefore(g, h) == gadgets[g] < gadgets[h]

GadgetBefore(g, h) ==
  \/ ShapeRank[g] < ShapeRank[h]
  \/ ShapeRank[g] = ShapeRank[h] /\ gadgets[g] < gadgets[h]

\* Mutant: the snakes stay in the order they were in.
MutSortsSnakes(p) == p = [s \in Snakes |-> s]

\* p lists the snakes, or the gadgets, in an order that does not contradict this.
SortsSnakes(p) ==
  /\ p \in Bijection(Snakes, Snakes)
  /\ \A s, t \in Snakes : s < t => ~SnakeBefore(p[t], p[s])

SortsGadgets(p) ==
  /\ p \in Bijection(Gadgets, Gadgets)
  /\ \A g, h \in Gadgets : g < h => ~GadgetBefore(p[h], p[g])

-----------------------------------------------------------------------------
(***************************************************************************)
(* The three ways a snake can move (do_valid_moves).  Each starts the      *)
(* physics: every object may fall, and the overlaps that were there before *)
(* the move are not new.                                                   *)
(***************************************************************************)
\* Mutant: only snakes are taken to fall after a move.
MutStartPhysics ==
  /\ orig_tele_mask' = teleporter_overlap
  /\ recompute_falling' = Snakes
  /\ phase' = "exits"

StartPhysics ==
  /\ orig_tele_mask' = teleporter_overlap
  /\ recompute_falling' = Objects
  /\ phase' = "exits"

\* Mutant: copied front to back, so that every copy is of the old head.
MutAdvanced(s, delta) ==
  [i \in DOMAIN snakes[s] |-> IF i = 1 THEN snakes[s][1] + delta ELSE snakes[s][1]]

\* Snake::move: the head moves, every other segment takes the place of the
\* one before it.
Advanced(s, delta) ==
  [i \in DOMAIN snakes[s] |-> IF i = 1 THEN snakes[s][1] + delta ELSE snakes[s][i - 1]]

\* Snake::grow: a new head, no other segment moves.
Grown(s, delta) ==
  [i \in 1 .. (Len(snakes[s]) + 1) |->
     IF i = 1 THEN snakes[s][1] + delta ELSE snakes[s][i - 1]]

\* Mutant: the fruit is not consumed.
MutGrow(s, delta) ==
  /\ snakes[s][1] + delta \in fruit
  /\ snakes' = [snakes EXCEPT ![s] = Grown(s, delta)]
  /\ StartPhysics
  /\ UNCHANGED <<gadgets, fruit>>

Grow(s, delta) ==
  LET to == snakes[s][1] + delta
  IN  /\ to \in fruit
      /\ snakes' = [snakes EXCEPT ![s] = Grown(s, delta)]
      /\ fruit' = fruit \ {to}
      /\ StartPhysics
      /\ UNCHANGED gadgets

Move(s, delta) ==
  LET to == snakes[s][1] + delta
  IN  /\ no_object_at(to) /\ empty_terrain_at(to)
      /\ snakes' = [snakes EXCEPT ![s] = Advanced(s, delta)]
      /\ StartPhysics
      /\ UNCHANGED <<gadgets, fruit>>

Push(s, delta) ==
  LET to == snakes[s][1] + delta
  IN  /\ PushMapObjectsAt(s, to) # {} /\ to \notin fruit
      /\ \E pushed \in PushableSets(s, delta) :
           /\ is_valid_push(s, delta, pushed)
           /\ snakes' = [TranslatedSnakes(pushed, delta) EXCEPT ![s] = Advanced(s, delta)]
           /\ gadgets' = TranslatedGadgets(pushed, delta)
      /\ StartPhysics
      /\ UNCHANGED fruit

PlayerMove ==
  /\ phase = "moves"
  /\ \E s \in Snakes, delta \in Steps :
       /\ snakes[s] # <<>>
       /\ Grow(s, delta) \/ Move(s, delta) \/ Push(s, delta)

-----------------------------------------------------------------------------
(***************************************************************************)
(* One round of process_gravity.                                           *)
(***************************************************************************)
HeadAtExit(s) == snakes[s] # <<>> /\ snakes[s][1] = Exit

\* check_exits: nobody leaves before the last fruit is eaten.
CheckExits ==
  /\ phase = "exits"
  /\ snakes' = [s \in Snakes |-> IF fruit = {} /\ HeadAtExit(s) THEN <<>> ELSE snakes[s]]
  /\ phase' = "teleports"
  /\ UNCHANGED <<gadgets, fruit, orig_tele_mask, recompute_falling>>

\* process_teleports moves what fits, against the map as it was before any
\* of them moved, and the round starts over.
Teleport ==
  /\ phase = "teleports"
  /\ Teleporting # {}
  /\ LET through  == {x[2] : x \in Teleporting}
         delta(o) == Jump(CHOOSE x \in Teleporting : x[2] = o)
     IN  /\ snakes' = [s \in Snakes |->
                         IF s \in through THEN TranslatedSnakes({s}, delta(s))[s] ELSE snakes[s]]
         /\ gadgets' = [g \in Gadgets |->
                         IF g \in through THEN gadgets[g] + delta(g) ELSE gadgets[g]]
  /\ orig_tele_mask' = teleporter_overlap'
  /\ phase' = "exits"
  /\ UNCHANGED <<fruit, recompute_falling>>

NoTeleport ==
  /\ phase = "teleports"
  /\ Teleporting = {}
  /\ orig_tele_mask' = teleporter_overlap
  /\ phase' = "gravity"
  /\ UNCHANGED <<snakes, gadgets, fruit, recompute_falling>>

\* The code has no bounds check: a cell off the map is read as whatever lies
\* next to the arrays in memory.  Either that stops the teleport, as Fits has
\* it, or the object goes on to leave the map and nothing more is modelled.
TeleportOffMap ==
  /\ phase = "teleports"
  /\ \E x \in NewOverlap : TestsOffMap(x[2], Jump(x))
  /\ phase' = "undefined"
  /\ UNCHANGED <<snakes, gadgets, fruit, orig_tele_mask, recompute_falling>>

\* What a fall does to the objects.
Drop(falling) ==
  /\ snakes' = TranslatedSnakes(falling, W)
  /\ gadgets' = [g \in Gadgets |-> IF g \in DestroyedGadgets(falling) THEN kGadgetDeleted
                                   ELSE TranslatedGadgets(falling, W)[g]]

\* Mutant: no look at the exits after a fall.
MutFallToTeleports ==
  LET falling == Falling(recompute_falling)
  IN  /\ phase = "gravity"
      /\ falling # {}
      /\ PerishingSnakes(falling) = {}
      /\ Drop(falling)
      /\ recompute_falling' = falling
      /\ phase' = "teleports"
      /\ UNCHANGED <<fruit, orig_tele_mask>>

\* Everything unsupported drops by one row; gadgets that reach water are gone.
Fall ==
  LET falling == Falling(recompute_falling)
  IN  /\ phase = "gravity"
      /\ falling # {}
      /\ PerishingSnakes(falling) = {}
      /\ Drop(falling)
      /\ recompute_falling' = falling
      /\ phase' = "exits"
      /\ UNCHANGED <<fruit, orig_tele_mask>>

\* Mutant: whether a snake perished is not looked at.
MutPerish ==
  LET falling == Falling(recompute_falling)
  IN  /\ phase = "gravity"
      /\ PerishingSnakes(falling) # {}
      /\ snakes' = TranslatedSnakes(falling, W)
      /\ gadgets' = TranslatedGadgets(falling, W)
      /\ recompute_falling' = falling
      /\ phase' = "exits"
      /\ UNCHANGED <<fruit, orig_tele_mask>>

\* A snake drops into a hazard and process_gravity returns false, before any
\* gadget that dropped with it is destroyed.  The state is left like that,
\* and no callback ever sees it.
Perish ==
  LET falling == Falling(recompute_falling)
  IN  /\ phase = "gravity"
      /\ PerishingSnakes(falling) # {}
      /\ snakes' = TranslatedSnakes(falling, W)
      /\ gadgets' = TranslatedGadgets(falling, W)
      /\ phase' = "lost"
      /\ UNCHANGED <<fruit, orig_tele_mask, recompute_falling>>

\* Nothing falls any more: canonicalize, and the state is one to move from.
Settle ==
  /\ phase = "gravity"
  /\ Falling(recompute_falling) = {}
  /\ \E p \in [Snakes -> Snakes] :
       SortsSnakes(p) /\ snakes' = [s \in Snakes |-> snakes[p[s]]]
  /\ \E p \in [Gadgets -> Gadgets] :
       SortsGadgets(p) /\ gadgets' = [g \in Gadgets |-> gadgets[p[g]]]
  /\ orig_tele_mask' = {}
  /\ recompute_falling' = {}
  /\ phase' = "moves"
  /\ UNCHANGED fruit

Physics ==
  CheckExits \/ Teleport \/ NoTeleport \/ TeleportOffMap \/ Fall \/ Perish \/ Settle

-----------------------------------------------------------------------------
Init ==
  /\ snakes = InitSnakes
  /\ gadgets = InitOffset
  /\ fruit = Fruit
  /\ phase = "moves"
  /\ orig_tele_mask = {}
  /\ recompute_falling = {}

Next == PlayerMove \/ Physics

Spec == Init /\ [][Next]_vars

win == \A s \in Snakes : snakes[s] = <<>>

-----------------------------------------------------------------------------
(***************************************************************************)
(* Properties.                                                             *)
(***************************************************************************)
\* Every variable holds a value of its kind, in every state.
TypeOK ==
  /\ snakes \in [Snakes -> Seq(Coord)]
  /\ gadgets \in [Gadgets -> Coord]
  /\ fruit \subseteq Fruit
  /\ phase \in Phase
  /\ orig_tele_mask \subseteq TeleporterCells \X Objects
  /\ recompute_falling \subseteq Objects

\* No two things are ever in the same place: not two objects, not an object
\* and a fruit, not two segments of a snake.  ObjMap draws everything in one
\* array, where the last one drawn would hide the others.
NoOverlap ==
  /\ \A o, p \in Objects : o # p => CellsOf(o) \intersect CellsOf(p) = {}
  /\ \A o \in Objects : CellsOf(o) \intersect fruit = {}
  /\ \A s \in Snakes : \A i, j \in DOMAIN snakes[s] : i # j => snakes[s][i] # snakes[s][j]

OpenTerrain == {i \in Coord : Terrain[i] = "empty"}

\* Everything in play is on empty terrain inside the map, whatever is pushed,
\* falls or teleports, in every state but one that is given up because a
\* snake has dropped into a hazard.  The code checks no array bound and relies
\* on this; and it relies on such a state never being used again.
InOpenTerrain ==
  phase # "lost" => \A o \in Objects : CellsOf(o) \subseteq OpenTerrain

\* No move, push, fall or teleport takes a gadget halfway over an edge of the
\* map (snakebird.h:1194-1198): all its parts move by the same number of
\* columns, so that its shape stays what was drawn.  InOpenTerrain does not
\* say so, since a part that comes out at the other side is in the open too.
\* (When "moves" begins canonicalize has given the gadgets other names.)
Column(i) == i % W

KeepsShape(g, delta) ==
  \A i, j \in CellsOf(g) : Column(i + delta) - Column(i) = Column(j + delta) - Column(j)

GadgetsMoveWhole ==
  [][\A g \in Gadgets :
       phase' # "moves" /\ InPlay(g) /\ InPlay(g)' => KeepsShape(g, gadgets'[g] - gadgets[g])]_vars

\* Consecutive segments of a snake are one step apart, which is what lets
\* unpack rebuild the segments from the head and the directions in tail_.
SnakesConnected ==
  \A s \in Snakes : \A i \in 1 .. (Len(snakes[s]) - 1) : snakes[s][i] - snakes[s][i + 1] \in Steps

\* A snake that ate all the fruit that is left would still fit Snake::i_,
\* which grow extends without a check.
SnakesFitTheirArrays ==
  \A s \in Snakes : Len(snakes[s]) + Cardinality(fruit) <= SnakeMaxLen

\* Looking only at the objects that fell in the round before, as
\* process_gravity does, finds every object that is falling.
RecomputeIsEnough ==
  phase = "gravity" => Falling(recompute_falling) = Falling(Objects)

\* Between moves nothing is left to do: nothing would fall, and no snake is
\* at an exit it could leave through.
AtRest ==
  phase = "moves" => /\ Falling(Objects) = {}
                     /\ fruit = {} => \A s \in Snakes : HeadCell(s) # Exit

\* At most one object goes through a teleporter in a round, so moving several
\* against one stale map (process_teleports) cannot make them collide.
OneTeleportAtATime ==
  phase = "teleports" => Cardinality(Teleporting) <= 1

\* No teleport looks at a cell off the map (snakebird.h:37-40: the border
\* is what makes bounds checks unnecessary).
StaysDefined == phase # "undefined"

Bodies ==
  {<<"snake", snakes[s]>> : s \in Snakes} \union {<<"gadget", GadgetCells(g)>> : g \in Gadgets}

\* canonicalize renames objects and changes nothing that can be seen: every
\* place that held a snake's body or a gadget's still holds it.
CanonicalizeKeepsBodies ==
  [][phase = "gravity" /\ phase' = "moves" => Bodies' = Bodies]_vars

\* The state that State's default constructor makes is not reachable from any
\* other state, as BreadthFirstSearch asks of its template parameter
\* (search.h:82-83).
DefaultStateUnreachable ==
  ~ (win /\ fruit = Fruit /\ \A g \in Gadgets : gadgets[g] = kGadgetDeleted)

\* The physics comes to an end after every move.
PhysicsEnds == phase # "moves" ~> phase \in {"moves", "lost", "undefined"}

=============================================================================
