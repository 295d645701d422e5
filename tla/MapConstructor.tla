--------------------------- MODULE MapConstructor ---------------------------
(***************************************************************************)
(* The constructor of Map (snakebird.h) as the loop it is: the picture is  *)
(* read character by character, and what is drawn is written to the next   *)
(* place of an array, before any check that there is one.  Module LevelMap *)
(* says what a picture means; here it is read, for the picture of every    *)
(* level program.                                                          *)
(***************************************************************************)
EXTENDS Integers, SequencesExt, FiniteSets, Functions

CONSTANT Programs  \* [Setup, base_map]: template parameters and picture

VARIABLES
  program,          \* the one that runs
  i,                \* the next character
  base_map_,        \* the terrain read so far, as a sequence
  exit_,            \* 0 before it is found
  fruit_,           \* a sequence, like teleporters_, snakes_ and gadgets_
  half_teleporter,  \* the first teleporter half, or 0
  teleporters_,
  snakes_,          \* the segments of each snake
  gadgets_,         \* [initial_offset_, i_] of each gadget, by digit until they are sorted
  pc                \* "read" or "done"

found == <<exit_, fruit_, half_teleporter, teleporters_, snakes_, gadgets_>>
vars  == <<program, i, base_map_, found, pc>>

Level ==
  INSTANCE LevelMap WITH
    H <- program.Setup[1], W <- program.Setup[2], FruitCount <- program.Setup[3],
    SnakeCount <- program.Setup[4], SnakeMaxLen <- program.Setup[5],
    GadgetCount <- program.Setup[6], TeleporterCount <- program.Setup[7],
    base_map <- program.base_map

Init ==
  /\ program \in Programs
  /\ i = 0 /\ base_map_ = <<>>
  /\ exit_ = 0 /\ fruit_ = <<>> /\ half_teleporter = 0 /\ teleporters_ = <<>> /\ snakes_ = <<>>
  /\ gadgets_ = [d \in 1 .. program.Setup[6] |-> [initial_offset_ |-> 0, i_ |-> <<>>]]
  /\ pc = "read"

\* The next character is one of these, on this terrain.
Read(chars, material) ==
  /\ pc = "read" /\ i < Level!MapSize
  /\ Level!char[i] \in chars
  /\ base_map_' = Append(base_map_, material)
  /\ i' = i + 1
  /\ UNCHANGED <<program, pc>>

ReadFruit ==
  /\ Read({"O"}, "empty")
  /\ fruit_' = IF program.Setup[3] = 0 THEN fruit_ ELSE Append(fruit_, i)
  /\ UNCHANGED <<exit_, half_teleporter, teleporters_, snakes_, gadgets_>>

ReadExit ==
  /\ Read({"*"}, "empty")
  /\ exit_' = i
  /\ UNCHANGED <<fruit_, half_teleporter, teleporters_, snakes_, gadgets_>>

ReadTeleporter ==
  /\ Read({"T"}, "empty")
  /\ IF half_teleporter # 0
       THEN /\ teleporters_' = Append(teleporters_, <<half_teleporter, i>>)
            /\ UNCHANGED half_teleporter
       ELSE half_teleporter' = i /\ UNCHANGED teleporters_
  /\ UNCHANGED <<exit_, fruit_, snakes_, gadgets_>>

ReadHead ==
  /\ Read({"R", "G", "B"}, "empty")
  /\ snakes_' = Append(snakes_, Level!SnakeFrom(i, Level!trace_tail[i]))
  /\ UNCHANGED <<exit_, fruit_, half_teleporter, teleporters_, gadgets_>>

\* Mutant: offsets count from the start of the map.
MutReadPart ==
  /\ Read(Range(Level!Digit), "empty")
  /\ LET d == CHOOSE d \in DOMAIN Level!Digit : Level!Digit[d] = Level!char[i]
         first == IF gadgets_[d].i_ = <<>> THEN i ELSE gadgets_[d].initial_offset_
     IN  gadgets_' = [gadgets_ EXCEPT ![d] = [initial_offset_ |-> first, i_ |-> Append(@.i_, i)]]
  /\ UNCHANGED <<exit_, fruit_, half_teleporter, teleporters_, snakes_>>

ReadPart ==
  /\ Read(Range(Level!Digit), "empty")
  /\ LET d == CHOOSE d \in DOMAIN Level!Digit : Level!Digit[d] = Level!char[i]
         first == IF gadgets_[d].i_ = <<>> THEN i ELSE gadgets_[d].initial_offset_
     IN  gadgets_' =
           [gadgets_ EXCEPT ![d] = [initial_offset_ |-> first, i_ |-> Append(@.i_, i - first)]]
  /\ UNCHANGED <<exit_, fruit_, half_teleporter, teleporters_, snakes_>>

ReadTail == Read({">", "<", "^", "v"}, "empty") /\ UNCHANGED found

ReadTerrain ==
  /\ \/ Read({" "}, "empty") \/ Read({"."}, "ground") \/ Read({"~"}, "water") \/ Read({"#"}, "spike")
  /\ UNCHANGED found

\* Gadget::operator<
Less(a, b) ==
  \/ Len(a) < Len(b)
  \/ /\ Len(a) = Len(b)
     /\ \E k \in DOMAIN a : a[k] < b[k] /\ \A m \in 1 .. (k - 1) : a[m] = b[m]

\* p lists the gadgets in an order std::sort may leave them in.
Sorted(p) ==
  /\ p \in Bijection(DOMAIN gadgets_, DOMAIN gadgets_)
  /\ \A d, e \in DOMAIN gadgets_ : d < e => ~Less(gadgets_[p[e]].i_, gadgets_[p[d]].i_)

SortGadgets ==
  /\ pc = "read" /\ i = Level!MapSize
  /\ \E p \in [DOMAIN gadgets_ -> DOMAIN gadgets_] :
       Sorted(p) /\ gadgets_' = [d \in DOMAIN gadgets_ |-> gadgets_[p[d]]]
  /\ pc' = "done"
  /\ UNCHANGED <<program, i, base_map_, exit_, fruit_, half_teleporter, teleporters_, snakes_>>

Next ==
  \/ ReadFruit \/ ReadExit \/ ReadTeleporter \/ ReadHead \/ ReadPart \/ ReadTail \/ ReadTerrain
  \/ SortGadgets

Spec == Init /\ [][Next]_vars

-----------------------------------------------------------------------------
(***************************************************************************)
(* Properties.                                                             *)
(***************************************************************************)
Rank(g) == Cardinality({h \in DOMAIN gadgets_ : Less(gadgets_[h].i_, gadgets_[g].i_)})

Contents ==
  INSTANCE MapContents WITH
    H <- program.Setup[1], W <- program.Setup[2], FruitCount <- program.Setup[3],
    SnakeCount <- program.Setup[4], SnakeMaxLen <- program.Setup[5],
    GadgetCount <- program.Setup[6], TeleporterCount <- program.Setup[7],
    Terrain     <- [c \in Level!Coord |-> base_map_[c + 1]],
    Exit        <- exit_,
    Fruit       <- Range(fruit_),
    Teleporters <- Range(teleporters_),
    InitSnakes  <- snakes_,
    Shape       <- [g \in Level!Gadgets |-> Range(gadgets_[g - program.Setup[4]].i_)],
    ShapeRank   <- [g \in Level!Gadgets |-> Rank(g - program.Setup[4])],
    InitOffset  <- [g \in Level!Gadgets |-> gadgets_[g - program.Setup[4]].initial_offset_]

\* Every level the repository comes with is one that the rules of the puzzle
\* are safe on: surrounded by walls (snakebird.h:37-40), with no more in it
\* than its template parameters make room for, its gadgets in order, and
\* everything in a space of its own.  It is what module Snakebird and the
\* theorems about it assume.  Where there are teleporters no gadget has a gap,
\* so that the solutions do not abuse the teleports halfway over an edge of the
\* map (snakebird.h:1194-1198).  And the widest field of a packed state, tail_,
\* is one that Packer is sure to read back (bit-packer.h:104).
LevelsAreSafe ==
  pc = "done" =>
    /\ Contents!LegalSetup
    /\ Contents!LegalTerrain
    /\ Contents!LegalObjects
    /\ Contents!NothingSparseTeleports
    /\ 2 * (program.Setup[5] - 1) <= 56

\* The loop reads what is drawn: no segment of a snake is lost or taken for
\* one of another snake's, where bodies touch, and no array is written past
\* its end on the way.
ReadsWhatIsDrawn ==
  /\ Len(fruit_) <= program.Setup[3] /\ Len(snakes_) <= program.Setup[4]
  /\ Len(teleporters_) <= program.Setup[7]
  /\ \A g \in DOMAIN gadgets_ : Len(gadgets_[g].i_) <= 8
  /\ pc = "done" =>
       /\ Level!LegalPicture
       /\ UNION {Range(snakes_[s]) : s \in DOMAIN snakes_}
            = Level!CellsDrawn({"R", "G", "B", ">", "<", "^", "v"})
       /\ snakes_ = Level!LevelSnakes
       /\ Range(teleporters_) = Level!LevelTeleporters
       /\ exit_ = Level!LevelExit /\ Range(fruit_) = Level!LevelFruit
       /\ \A g \in DOMAIN gadgets_ :
            LET h == g + program.Setup[4]
            IN  Range(gadgets_[g].i_) = Level!LevelShape[h]

=============================================================================
