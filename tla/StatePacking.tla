---------------------------- MODULE StatePacking ----------------------------
(***************************************************************************)
(* How a State is packed into bits (snakebird.h: Snake, State, PackedState *)
(* and, for the bytes, bit-packer.h).  The bits have no segments: a snake  *)
(* is packed as its head, its length, and tail_, the directions it took.   *)
(* State keeps tail_ beside the segments, and every move has to update     *)
(* both, so it is a variable here beside those of module Snakebird.        *)
(*                                                                         *)
(* Numbers are sets of positions of 1 bits, as in module BitPacker.        *)
(***************************************************************************)
EXTENDS Snakebird, Binary, SequencesExt, FiniteSetsExt

CONSTANTS
  ByteBits,  \* 8
  AccBits,   \* 64
  InitTail   \* Snake::tail_ of Map::snakes_, as a sequence: the last move first

ASSUME TailAssumption ==
  /\ InitTail \in [Snakes -> Seq(Direction)]
  /\ \A s \in Snakes :
       /\ Len(InitTail[s]) = Len(InitSnakes[s]) - 1
       /\ \A i \in DOMAIN InitTail[s] :
            InitSnakes[s][i] - InitSnakes[s][i + 1] = apply_direction[InitTail[s][i]]

VARIABLE tail_  \* Snake::tail_ of each snake

packing_vars == <<vars, tail_>>

kDirBits == 2

DirBits == [UP |-> {}, RIGHT |-> {0}, DOWN |-> {1}, LEFT |-> {0, 1}]

\* The two bits of the i'th direction; the last move is number 0.
DirPlace(i) == (kDirBits * i) .. (kDirBits * i + kDirBits - 1)

ShiftedIn(tail, dir) == {b + kDirBits : b \in tail} \union DirBits[dir]

\* Snake::tail
DirectionAt(tail, i) ==
  CHOOSE dir \in Direction : {kDirBits * i + b : b \in DirBits[dir]} = tail \intersect DirPlace(i)

\* Mutant: the direction before the oldest is cleared.
MutTailMoved(s, dir) == ShiftedIn(tail_[s] \ DirPlace(Len(snakes[s]) - 1), dir)

\* Snake::move forgets the oldest direction, Snake::grow keeps all.
TailMoved(s, dir) == ShiftedIn(tail_[s] \ DirPlace(Len(snakes[s]) - 2), dir)

TailGrown(s, dir) == ShiftedIn(tail_[s], dir)

-----------------------------------------------------------------------------
(***************************************************************************)
(* The steps of module Snakebird, with what they do to tail_.              *)
(***************************************************************************)
InitPacking ==
  /\ Init
  /\ tail_ = [s \in Snakes |->
                UNION {{kDirBits * (i - 1) + b : b \in DirBits[InitTail[s][i]]} : i \in DOMAIN InitTail[s]}]

\* A move of snake s that is made in direction dir.
MoveIn(s, dir) ==
  LET delta == apply_direction[dir]
  IN  /\ phase = "moves"
      /\ snakes[s] # <<>>
      /\ \/ Grow(s, delta) /\ tail_' = [tail_ EXCEPT ![s] = TailGrown(s, dir)]
         \/ (Move(s, delta) \/ Push(s, delta)) /\ tail_' = [tail_ EXCEPT ![s] = TailMoved(s, dir)]

PackingExits ==
  /\ CheckExits
  /\ tail_' = [s \in Snakes |-> IF snakes'[s] = <<>> THEN {} ELSE tail_[s]]

\* translate moves all segments and leaves tail_ alone.
PackingRound ==
  /\ Teleport \/ NoTeleport \/ TeleportOffMap \/ Fall \/ Perish
  /\ UNCHANGED tail_

\* Snakes that come first equal are equal, tail_ and all: they have exited.
PackingSettle ==
  /\ Settle
  /\ \E p \in [Snakes -> Snakes] :
       /\ SortsSnakes(p)
       /\ snakes' = [s \in Snakes |-> snakes[p[s]]]
       /\ tail_' = [s \in Snakes |-> tail_[p[s]]]

PhysicsStep == PackingExits \/ PackingRound \/ PackingSettle

NextPacking == (\E s \in Snakes, dir \in Direction : MoveIn(s, dir)) \/ PhysicsStep

PackingSpec == InitPacking /\ [][NextPacking]_packing_vars

\* process_gravity is a loop that runs to its end before anything else does.
FairPackingSpec == PackingSpec /\ WF_packing_vars(PhysicsStep)

-----------------------------------------------------------------------------
(***************************************************************************)
(* The fields of a packed state: for each snake tail_, head and length;    *)
(* the fruit, a bit each in the order of the map; for each gadget its      *)
(* offset.                                                                 *)
(***************************************************************************)
kIndexBits == integer_length(MapSize)
kLenBits   == integer_length(SnakeMaxLen)
kTailBits  == (SnakeMaxLen - 1) * kDirBits

packed_bits ==
  (kTailBits + kIndexBits + kLenBits) * SnakeCount + FruitCount + kIndexBits * GadgetCount

\* The last part is the widest field that refill is sure to have room for.
ASSUME WidthAssumption ==
  /\ ByteBits \in Nat \ {0} /\ AccBits \in Nat
  /\ {kTailBits, kIndexBits, kLenBits, FruitCount} \subseteq 0 .. (AccBits - ByteBits)

P == INSTANCE BitPacker WITH Bits <- packed_bits

fruit_bits(cells) == {Cardinality({d \in Fruit : d < c}) : c \in cells}

Field(data, width) == [data |-> data, width |-> width]

\* Mutant: the head does not fit.
MutSnakeFields(s) ==
  << Field(tail_[s], kTailBits), Field(BitsOf(HeadCell(s)), kIndexBits - 1),
     Field(BitsOf(Len(snakes[s])), kLenBits) >>

SnakeFields(s) ==
  << Field(tail_[s], kTailBits), Field(BitsOf(HeadCell(s)), kIndexBits),
     Field(BitsOf(Len(snakes[s])), kLenBits) >>

Fields ==
  FlattenSeq([s \in Snakes |-> SnakeFields(s)])
  \o << Field(fruit_bits(fruit), FruitCount) >>
  \o [i \in 1 .. GadgetCount |-> Field(BitsOf(gadgets[SnakeCount + i]), kIndexBits)]

\* The bytes of PackedState(st).
Packed == P!PackFields(Fields)

\* init_locations_from_tail
Located(tail, head, len) ==
  LET segment[i \in 1 .. len] ==
        IF i = 1 THEN head ELSE segment[i - 1] - apply_direction[DirectionAt(tail, i - 2)]
  IN  [i \in 1 .. len |-> segment[i]]

FieldWidths ==
  FlattenSeq([s \in Snakes |-> <<kTailBits, kIndexBits, kLenBits>>])
  \o << FruitCount >>
  \o [i \in 1 .. GadgetCount |-> kIndexBits]

\* State(const Packed&)
Unpacked(bytes) ==
  LET value == P!UnpackFields(bytes, FieldWidths)
      tail(s) == value[3 * s - 2]
  IN  [snakes  |-> [s \in Snakes |->
                      Located(tail(s), NumberOf(value[3 * s - 1], kIndexBits), NumberOf(value[3 * s], kLenBits))],
       tail_   |-> [s \in Snakes |-> tail(s)],
       fruit   |-> {c \in Fruit : fruit_bits({c}) \subseteq value[3 * SnakeCount + 1]},
       gadgets |-> [g \in Gadgets |->
                      NumberOf(value[3 * SnakeCount + 1 + (g - SnakeCount)], kIndexBits)]]

-----------------------------------------------------------------------------
(***************************************************************************)
(* PackedState::operator<.  Bytes are compared eight at a time, then four, *)
(* then one, each time as one number with its least byte first: it         *)
(* compares the numbers that have the bits in this order.                  *)
(***************************************************************************)
ChunkSize(byte) ==
  LET eights == 8 * (P!Bytes \div 8)
      fours  == 4 * (P!Bytes \div 4)
  IN  IF byte < eights THEN 8 ELSE IF byte < fours THEN 4 ELSE 1

Significance(bit) ==
  LET byte  == bit \div ByteBits
      first == ChunkSize(byte) * (byte \div ChunkSize(byte))
  IN  ByteBits * (P!Bytes - first - ChunkSize(byte)) + (bit - ByteBits * first)

\* A packed state as the number that operator< compares.
KeyFrom(bytes) == NumberOf({Significance(b) : b \in bytes}, ByteBits * P!Bytes)

BytesOf(key) == {b \in P!mask_n_bits(packed_bits) : IsSet(Significance(b), key)}

-----------------------------------------------------------------------------
(***************************************************************************)
(* Properties.                                                             *)
(***************************************************************************)
\* tail_ and the segments describe the same body, in every step of every move
\* (Snake::tail_, "describes the shape of the snake, independent of its
\* location"), and tail_ has no bits beyond those of the directions it holds.
TailMatchesBody ==
  \A s \in Snakes :
    /\ tail_[s] \subseteq 0 .. (kDirBits * (Len(snakes[s]) - 1) - 1)
    /\ \A i \in 1 .. (Len(snakes[s]) - 1) :
         snakes[s][i] - snakes[s][i + 1] = apply_direction[DirectionAt(tail_[s], i - 1)]

\* A state that is packed and unpacked is the same state: no field spills into
\* another, also where the accumulator is flushed between two fields that
\* share a byte, and read across that place in other portions.
PackedLosesNothing ==
  phase = "moves" =>
    Unpacked(Packed) = [snakes |-> snakes, tail_ |-> tail_, fruit |-> fruit, gadgets |-> gadgets]

=============================================================================
