------------------------- MODULE StatePackingProofs -------------------------
(***************************************************************************)
(* Proofs about StatePacking: keeping tail_ beside the segments takes      *)
(* nothing from module Snakebird and adds nothing to it, the two describe  *)
(* the same body, and a state that is packed is the state that is unpacked.*)
(***************************************************************************)
EXTENDS StatePacking, SnakebirdProofs

\* With tail_ hidden, StatePacking does what Snakebird does: each move of
\* do_valid_moves and each step of process_gravity is one there, so whatever is
\* proved of Snakebird's variables holds of a state that is packed.
THEOREM PackingImplements == PackingSpec => Spec
  <1>1. InitPacking => Init
    BY DEF InitPacking
  <1>2. [NextPacking]_packing_vars => [Next]_vars
    <2>1. ASSUME NEW s \in Snakes, NEW dir \in Direction, MoveIn(s, dir)
          PROVE  Next
      BY <2>1 DEF MoveIn, Next, PlayerMove, Steps
    <2>2. PhysicsStep => Next
      BY DEF PhysicsStep, PackingExits, PackingRound, PackingSettle, Next, Physics
    <2>3. UNCHANGED packing_vars => UNCHANGED vars
      BY DEF packing_vars
    <2>4. QED
      BY <2>1, <2>2, <2>3 DEF NextPacking
  <1>3. QED
    BY <1>1, <1>2, PTL DEF PackingSpec, Spec

-----------------------------------------------------------------------------
(***************************************************************************)
(* The directions in tail_, by their bits.                                 *)
(***************************************************************************)
\* The i'th direction of tail is d.
Holds(tail, i, d) == \A b \in {0, 1} : kDirBits * i + b \in tail <=> b \in DirBits[d]

LEMMA DirBitsType ==
  /\ DirBits.UP = {} /\ DirBits.RIGHT = {0} /\ DirBits.DOWN = {1} /\ DirBits.LEFT = {0, 1}
  /\ \A d \in Direction : DirBits[d] \subseteq {0, 1}
  /\ \A d, e \in Direction : DirBits[d] = DirBits[e] => d = e
  <1>1. DirBits.UP = {} /\ DirBits.RIGHT = {0} /\ DirBits.DOWN = {1} /\ DirBits.LEFT = {0, 1}
    BY DEF DirBits
  <1>2. QED
    BY <1>1 DEF Direction

LEMMA DirectionFound ==
  ASSUME NEW T, NEW i \in Nat, NEW d \in Direction, Holds(T, i, d)
  PROVE  DirectionAt(T, i) = d
  <1> DEFINE Bits(e) == {kDirBits * i + b : b \in DirBits[e]}
  <1>1. DirPlace(i) = {kDirBits * i, kDirBits * i + 1}
    BY DEF DirPlace, kDirBits
  <1>2. Bits(d) = T \intersect DirPlace(i)
    BY <1>1, DirBitsType DEF Holds, kDirBits
  <1>3. ASSUME NEW e \in Direction, Bits(e) = Bits(d)
        PROVE  e = d
    <2>1. \A b \in {0, 1} : b \in DirBits[e] <=> kDirBits * i + b \in Bits(e)
      BY DirBitsType DEF kDirBits
    <2>2. \A b \in {0, 1} : b \in DirBits[d] <=> kDirBits * i + b \in Bits(d)
      BY DirBitsType DEF kDirBits
    <2> HIDE DEF Bits
    <2>3. \A b \in {0, 1} : b \in DirBits[e] <=> b \in DirBits[d]
      BY <1>3, <2>1, <2>2
    <2>4. DirBits[e] \subseteq {0, 1} /\ DirBits[d] \subseteq {0, 1}
      BY DirBitsType
    <2>5. DirBits[e] = DirBits[d]
      BY <2>3, <2>4
    <2>6. QED
      BY <2>5, DirBitsType
  <1>4. DirectionAt(T, i) = CHOOSE e \in Direction : Bits(e) = T \intersect DirPlace(i)
    BY DEF DirectionAt
  <1> HIDE DEF Bits
  <1>5. QED
    BY <1>2, <1>3, <1>4

LEMMA ShiftedFacts ==
  ASSUME NEW T \in SUBSET Nat, NEW dir \in Direction
  PROVE  /\ Holds(ShiftedIn(T, dir), 0, dir)
         /\ \A i \in Nat, d \in Direction : Holds(T, i, d) => Holds(ShiftedIn(T, dir), i + 1, d)
         /\ \A m \in Nat : T \subseteq 0 .. (m - 1) => ShiftedIn(T, dir) \subseteq 0 .. (m + 1)
  <1>1. \A c \in Nat : c \in ShiftedIn(T, dir) <=> c - 2 \in T \/ c \in DirBits[dir]
    BY DirBitsType DEF ShiftedIn, kDirBits
  <1>2. Holds(ShiftedIn(T, dir), 0, dir)
    BY <1>1 DEF Holds, kDirBits
  <1>3. ASSUME NEW i \in Nat, NEW d \in Direction, Holds(T, i, d)
        PROVE  Holds(ShiftedIn(T, dir), i + 1, d)
    <2> SUFFICES ASSUME NEW b \in {0, 1}
                 PROVE  kDirBits * (i + 1) + b \in ShiftedIn(T, dir) <=> b \in DirBits[d]
      BY DEF Holds
    <2> DEFINE c == kDirBits * (i + 1) + b
    <2>1. c \in Nat /\ c - 2 = kDirBits * i + b
      BY DEF kDirBits
    <2>2. c \notin DirBits[dir]
      BY DirBitsType DEF kDirBits
    <2>3. c - 2 \in T <=> b \in DirBits[d]
      BY <1>3, <2>1 DEF Holds
    <2> HIDE DEF c
    <2>4. c \in ShiftedIn(T, dir) <=> c - 2 \in T
      BY <1>1, <2>1, <2>2
    <2>5. QED
      BY <2>3, <2>4 DEF c
  <1>4. ASSUME NEW m \in Nat, T \subseteq 0 .. (m - 1)
        PROVE  ShiftedIn(T, dir) \subseteq 0 .. (m + 1)
    BY <1>4, DirBitsType DEF ShiftedIn, kDirBits
  <1>5. QED
    BY <1>2, <1>3, <1>4

LEMMA ClearedFacts ==
  ASSUME NEW T \in SUBSET Nat, NEW k \in Nat, T \subseteq 0 .. (kDirBits * (k + 1) - 1)
  PROVE  /\ T \ DirPlace(k) \in SUBSET Nat
         /\ T \ DirPlace(k) \subseteq 0 .. (kDirBits * k - 1)
         /\ \A i \in 0 .. (k - 1), d \in Direction : Holds(T, i, d) => Holds(T \ DirPlace(k), i, d)
  <1>1. DirPlace(k) = {2 * k, 2 * k + 1}
    BY DEF DirPlace, kDirBits
  <1>2. QED
    BY <1>1 DEF Holds, kDirBits

-----------------------------------------------------------------------------
(***************************************************************************)
(* A tail_ that describes a body, and what the moves make of it.           *)
(***************************************************************************)
Describes(tail, body) ==
  /\ body = <<>> \/ Len(body) >= 2
  /\ tail \in SUBSET Nat /\ tail \subseteq 0 .. (kDirBits * (Len(body) - 1) - 1)
  /\ \A i \in 1 .. (Len(body) - 1) :
       \E d \in Direction : body[i] - body[i + 1] = apply_direction[d] /\ Holds(tail, i - 1, d)

LEMMA GrownDescribed ==
  ASSUME NEW s \in Snakes, snakes[s] \in Seq(Coord), snakes[s] # <<>>, NEW dir \in Direction,
         snakes[s][1] + apply_direction[dir] \in Coord, apply_direction[dir] \in Int,
         NEW T, Describes(T, snakes[s])
  PROVE  Describes(ShiftedIn(T, dir), Grown(s, apply_direction[dir]))
  <1> DEFINE b == snakes[s]
             delta == apply_direction[dir]
             g == Grown(s, delta)
             n == Len(b)
             S == ShiftedIn(T, dir)
  <1>1. n \in Nat /\ n >= 2 /\ b \in [1 .. n -> Coord] /\ Len(g) = n + 1 /\ g \in Seq(Coord)
    BY LenProperties, GrownBody DEF Describes
  <1>2. g[1] = b[1] + delta /\ \A i \in 2 .. (n + 1) : g[i] = b[i - 1]
    BY <1>1 DEF Grown
  <1>3. \A i \in 1 .. n : b[i] \in Int
    BY <1>1 DEF Coord
  <1>4. T \in SUBSET Nat /\ T \subseteq 0 .. (2 * (n - 1) - 1)
    BY DEF Describes, kDirBits
  <1>5. \A i \in 1 .. (n - 1) : \E d \in Direction : b[i] - b[i + 1] = apply_direction[d] /\ Holds(T, i - 1, d)
    BY DEF Describes
  <1>6. S \subseteq 0 .. (2 * n - 1)
    <2>1. 2 * (n - 1) \in Nat /\ 2 * (n - 1) + 1 = 2 * n - 1
      BY <1>1
    <2>2. QED
      BY <1>4, <2>1, ShiftedFacts
  <1>7. Holds(S, 0, dir) /\ \A i \in Nat, d \in Direction : Holds(T, i, d) => Holds(S, i + 1, d)
    BY <1>4, ShiftedFacts
  <1> HIDE DEF b, g, n, S, delta
  <1>8. ASSUME NEW i \in 1 .. n
        PROVE  \E d \in Direction : g[i] - g[i + 1] = apply_direction[d] /\ Holds(S, i - 1, d)
    <2>1. CASE i = 1
      <3>1. g[2] = b[1] /\ b[1] \in Int
        BY <1>1, <1>2, <1>3
      <3>2. g[i] - g[i + 1] = delta /\ i - 1 = 0
        BY <1>2, <2>1, <3>1 DEF delta
      <3>3. QED
        BY <1>7, <3>2 DEF delta
    <2>2. CASE i # 1
      <3>1. i - 1 \in 1 .. (n - 1) /\ g[i] = b[i - 1] /\ g[i + 1] = b[(i - 1) + 1]
        BY <1>1, <1>2, <2>2
      <3>2. PICK d \in Direction :
              b[i - 1] - b[(i - 1) + 1] = apply_direction[d] /\ Holds(T, (i - 1) - 1, d)
        BY <1>5, <3>1
      <3>3. (i - 1) - 1 \in Nat /\ (i - 1) - 1 + 1 = i - 1
        BY <3>1
      <3>4. Holds(S, i - 1, d)
        BY <1>7, <3>2, <3>3
      <3>5. QED
        BY <3>1, <3>2, <3>4
    <2>3. QED
      BY <2>1, <2>2
  <1>9. Len(g) >= 2 /\ S \in SUBSET Nat /\ S \subseteq 0 .. (kDirBits * (Len(g) - 1) - 1)
        /\ Len(g) - 1 = n
    BY <1>1, <1>6 DEF kDirBits
  <1>10. Describes(S, g)
    BY <1>8, <1>9 DEF Describes
  <1>11. QED
    BY <1>10 DEF S, g, delta

LEMMA AdvancedDescribed ==
  ASSUME NEW s \in Snakes, snakes[s] \in Seq(Coord), snakes[s] # <<>>, NEW dir \in Direction,
         snakes[s][1] + apply_direction[dir] \in Coord, apply_direction[dir] \in Int,
         Describes(tail_[s], snakes[s])
  PROVE  Describes(TailMoved(s, dir), Advanced(s, apply_direction[dir]))
  <1> DEFINE b == snakes[s]
             delta == apply_direction[dir]
             a == Advanced(s, delta)
             n == Len(b)
             C == tail_[s] \ DirPlace(n - 2)
             S == ShiftedIn(C, dir)
  <1>1. n \in Nat /\ n >= 2 /\ b \in [1 .. n -> Coord] /\ Len(a) = n /\ a \in Seq(Coord)
    BY LenProperties, AdvancedBody DEF Describes
  <1>2. a[1] = b[1] + delta /\ \A i \in 2 .. n : a[i] = b[i - 1]
    BY <1>1 DEF Advanced
  <1>3. \A i \in 1 .. n : b[i] \in Int
    BY <1>1, SMTT(60) DEF Coord
  <1>4. /\ C \in SUBSET Nat /\ C \subseteq 0 .. (kDirBits * (n - 2) - 1)
        /\ \A i \in 0 .. ((n - 2) - 1), d \in Direction : Holds(tail_[s], i, d) => Holds(C, i, d)
    <2>1. n - 2 \in Nat /\ (n - 2) + 1 = n - 1
      BY <1>1
    <2>2. tail_[s] \in SUBSET Nat /\ tail_[s] \subseteq 0 .. (kDirBits * ((n - 2) + 1) - 1)
      BY <2>1 DEF Describes
    <2>3. QED
      BY <2>1, <2>2, ClearedFacts
  <1>5. \A i \in 1 .. (n - 1) :
          \E d \in Direction : b[i] - b[i + 1] = apply_direction[d] /\ Holds(tail_[s], i - 1, d)
    BY DEF Describes
  <1>6. S \subseteq 0 .. (2 * (n - 1) - 1)
    <2>1. 2 * (n - 2) \in Nat /\ 2 * (n - 2) + 1 = 2 * (n - 1) - 1
      BY <1>1
    <2>2. C \subseteq 0 .. (2 * (n - 2) - 1)
      BY <1>4 DEF kDirBits
    <2>3. QED
      BY <1>4, <2>1, <2>2, ShiftedFacts
  <1>7. Holds(S, 0, dir) /\ \A i \in Nat, d \in Direction : Holds(C, i, d) => Holds(S, i + 1, d)
    BY <1>4, ShiftedFacts
  <1>8. TailMoved(s, dir) = S
    BY DEF TailMoved
  <1> HIDE DEF b, a, n, S, C, delta
  <1>9. ASSUME NEW i \in 1 .. (n - 1)
        PROVE  \E d \in Direction : a[i] - a[i + 1] = apply_direction[d] /\ Holds(S, i - 1, d)
    <2>1. CASE i = 1
      <3>1. a[2] = b[1] /\ b[1] \in Int
        <4>1. 2 \in 2 .. n /\ 1 \in 1 .. n /\ 2 - 1 = 1
          BY <1>1
        <4>2. a[2] = b[2 - 1]
          BY <1>2, <4>1
        <4>3. QED
          BY <1>3, <4>1, <4>2
      <3>2. a[i] - a[i + 1] = delta /\ i - 1 = 0
        BY <1>2, <2>1, <3>1 DEF delta
      <3>3. QED
        BY <1>7, <3>2 DEF delta
    <2>2. CASE i # 1
      <3>1. i - 1 \in 1 .. (n - 1) /\ a[i] = b[i - 1] /\ a[i + 1] = b[(i - 1) + 1]
        BY <1>1, <1>2, <2>2
      <3>2. PICK d \in Direction :
              b[i - 1] - b[(i - 1) + 1] = apply_direction[d] /\ Holds(tail_[s], (i - 1) - 1, d)
        BY <1>5, <3>1
      <3>3. (i - 1) - 1 \in 0 .. ((n - 2) - 1) /\ (i - 1) - 1 \in Nat /\ (i - 1) - 1 + 1 = i - 1
        BY <1>1, <2>2
      <3>4. Holds(C, (i - 1) - 1, d)
        BY <1>4, <3>2, <3>3
      <3>5. Holds(S, i - 1, d)
        BY <1>7, <3>3, <3>4
      <3>6. QED
        BY <3>1, <3>2, <3>5
    <2>3. QED
      BY <2>1, <2>2
  <1>10. Len(a) >= 2 /\ S \in SUBSET Nat /\ S \subseteq 0 .. (kDirBits * (Len(a) - 1) - 1)
         /\ Len(a) = n
    BY <1>1, <1>6 DEF kDirBits
  <1>11. Describes(S, a)
    BY <1>9, <1>10 DEF Describes
  <1>12. QED
    BY <1>8, <1>11 DEF a, delta

\* Snake::translate moves all segments alike.
LEMMA TranslatedDescribed ==
  ASSUME Inv, NEW S, NEW delta \in Int, NEW s \in Snakes, NEW T, Describes(T, snakes[s]),
         s \in S => \A i \in CellsOf(s) : i + delta \in Coord
  PROVE  Describes(T, TranslatedSnakes(S, delta)[s])
  <1> DEFINE b == snakes[s]
             c == TranslatedSnakes(S, delta)[s]
  <1>1. /\ Len(b) \in Nat /\ b \in [1 .. Len(b) -> Coord] /\ DOMAIN b = 1 .. Len(b)
        /\ Len(c) = Len(b) /\ c \in Seq(Coord)
    BY InvFacts, LenProperties, ShiftedSnake DEF Inv
  <1>2. CASE s \notin S
    <2>1. c = b
      BY <1>2 DEF TranslatedSnakes
    <2>2. QED
      BY <2>1
  <1>3. CASE s \in S
    <2>1. \A i \in 1 .. Len(b) : c[i] = b[i] + delta /\ b[i] \in Int
      BY <1>1, <1>3 DEF TranslatedSnakes, Coord
    <2>2. b = <<>> => c = <<>>
      BY <1>1, EmptySeq
    <2> HIDE DEF c
    <2>3. \A i \in 1 .. (Len(b) - 1) : c[i] - c[i + 1] = b[i] - b[i + 1]
      <3> TAKE i \in 1 .. (Len(b) - 1)
      <3>1. i \in 1 .. Len(b) /\ i + 1 \in 1 .. Len(b)
        BY <1>1
      <3>2. QED
        BY <2>1, <3>1
    <2>4. Describes(T, c)
      BY <1>1, <2>2, <2>3 DEF Describes
    <2>5. QED
      BY <2>4 DEF c
  <1>4. QED
    BY <1>2, <1>3

-----------------------------------------------------------------------------
(***************************************************************************)
(* The invariant: every tail_ describes its snake.                         *)
(***************************************************************************)
TailInv ==
  /\ tail_ \in [Snakes -> SUBSET Nat]
  /\ \A s \in Snakes : Describes(tail_[s], snakes[s])

\* A tail that describes a snake is a set of bits.
LEMMA DescribedIsBits ==
  ASSUME NEW T, NEW b, Describes(T, b)
  PROVE  T \in SUBSET Nat
  BY DEF Describes

LEMMA TailsAreBits ==
  ASSUME NEW tails, tails = [s \in Snakes |-> tails[s]],
         NEW bodies, \A s \in Snakes : Describes(tails[s], bodies[s])
  PROVE  tails \in [Snakes -> SUBSET Nat]
  <1>1. \A s \in Snakes : tails[s] \in SUBSET Nat
    BY DescribedIsBits
  <1>2. QED
    BY <1>1

LEMMA ExitedDescribed == Describes({}, <<>>)
  BY DEF Describes, kDirBits

LEMMA TailInvInit == InitPacking => TailInv
  <1> SUFFICES ASSUME InitPacking, NEW s \in Snakes
               PROVE  Describes(tail_[s], snakes[s])
    <2>1. InitPacking => tail_ = [x \in Snakes |-> tail_[x]]
      BY DEF InitPacking
    <2>2. QED
      BY <2>1, TailsAreBits DEF TailInv
  <1> DEFINE b == InitSnakes[s]
             t == InitTail[s]
             n == Len(b)
             D(i) == {kDirBits * (i - 1) + c : c \in DirBits[t[i]]}
             T == UNION {D(i) : i \in DOMAIN t}
  <1>1. snakes[s] = b /\ tail_[s] = T
    BY DEF InitPacking, Init
  <1>2. n \in Nat /\ n >= 2 /\ b \in Seq(Coord)
    BY ObjectsAssumption, LenProperties DEF LegalObjects
  <1>3. /\ t \in Seq(Direction) /\ Len(t) = n - 1 /\ DOMAIN t = 1 .. (n - 1)
        /\ \A i \in 1 .. (n - 1) : t[i] \in Direction
        /\ \A i \in 1 .. (n - 1) : b[i] - b[i + 1] = apply_direction[t[i]]
    <2>1. t \in Seq(Direction) /\ Len(t) = n - 1
      BY TailAssumption
    <2>2. DOMAIN t = 1 .. (n - 1) /\ t \in [1 .. (n - 1) -> Direction]
      BY <2>1, LenProperties
    <2>3. QED
      BY <2>1, <2>2, TailAssumption
  <1> HIDE DEF b, t, n
  <1>4. \A v : v \in T <=> \E j \in 1 .. (n - 1) : \E c \in DirBits[t[j]] : v = kDirBits * (j - 1) + c
    <2> TAKE v
    <2>1. \A j : v \in D(j) <=> \E c \in DirBits[t[j]] : v = kDirBits * (j - 1) + c
      OBVIOUS
    <2> HIDE DEF D
    <2>2. v \in T <=> \E j \in DOMAIN t : v \in D(j)
      OBVIOUS
    <2>3. QED
      BY <1>3, <2>1, <2>2
  <1> HIDE DEF T
  <1>5. T \subseteq 0 .. (2 * (n - 1) - 1)
    <2> SUFFICES ASSUME NEW v \in T PROVE v \in 0 .. (2 * (n - 1) - 1)
      OBVIOUS
    <2>1. PICK j \in 1 .. (n - 1) : \E c \in DirBits[t[j]] : v = kDirBits * (j - 1) + c
      BY <1>4
    <2>2. PICK c \in DirBits[t[j]] : v = kDirBits * (j - 1) + c
      BY <2>1
    <2>3. c \in {0, 1}
      BY <1>3, DirBitsType
    <2>4. QED
      BY <1>2, <2>2, <2>3 DEF kDirBits
  <1>6. ASSUME NEW i \in 1 .. (n - 1)
        PROVE  Holds(T, i - 1, t[i])
    <2> SUFFICES ASSUME NEW x \in {0, 1}
                 PROVE  kDirBits * (i - 1) + x \in T <=> x \in DirBits[t[i]]
      BY DEF Holds
    <2>1. ASSUME x \in DirBits[t[i]] PROVE kDirBits * (i - 1) + x \in T
      BY <1>4, <2>1
    <2>2. ASSUME kDirBits * (i - 1) + x \in T PROVE x \in DirBits[t[i]]
      <3>1. PICK j \in 1 .. (n - 1) :
              \E c \in DirBits[t[j]] : kDirBits * (i - 1) + x = kDirBits * (j - 1) + c
        BY <1>4, <2>2
      <3>2. PICK c \in DirBits[t[j]] : kDirBits * (i - 1) + x = kDirBits * (j - 1) + c
        BY <3>1
      <3>3. c \in {0, 1}
        BY <1>3, DirBitsType
      <3>4. i = j /\ x = c
        BY <1>2, <3>2, <3>3 DEF kDirBits
      <3>5. QED
        BY <3>4
    <2>3. QED
      BY <2>1, <2>2
  <1>7. Describes(T, b)
    <2>1. T \in SUBSET Nat /\ T \subseteq 0 .. (kDirBits * (n - 1) - 1)
      BY <1>2, <1>5 DEF kDirBits
    <2>2. ASSUME NEW i \in 1 .. (n - 1)
          PROVE  \E d \in Direction : b[i] - b[i + 1] = apply_direction[d] /\ Holds(T, i - 1, d)
      BY <1>3, <1>6
    <2>3. QED
      BY <1>2, <2>1, <2>2 DEF Describes, n
  <1>8. QED
    BY <1>1, <1>7

LEMMA MoveInTailInv ==
  ASSUME Inv, TailInv, NEW s \in Snakes, NEW dir \in Direction, MoveIn(s, dir)
  PROVE  TailInv'
  <1> DEFINE delta == apply_direction[dir]
  <1>1. delta \in Steps /\ delta \in Int /\ snakes[s] # <<>> /\ snakes[s][1] + delta \in Coord
    BY HeadFacts DEF MoveIn, Steps
  <1>2. /\ tail_ \in [Snakes -> SUBSET Nat] /\ \A t \in Snakes : Describes(tail_[t], snakes[t])
        /\ snakes \in [Snakes -> Seq(Coord)]
    BY DEF TailInv, Inv, TypeOK
  <1>3. CASE Grow(s, delta) /\ tail_' = [tail_ EXCEPT ![s] = TailGrown(s, dir)]
    <2>1. snakes' = [snakes EXCEPT ![s] = Grown(s, delta)]
      BY <1>3 DEF Grow
    <2>2. Describes(TailGrown(s, dir), Grown(s, delta))
      BY <1>1, <1>2, GrownDescribed DEF TailGrown
    <2> HIDE DEF delta
    <2>3. TailGrown(s, dir) \in SUBSET Nat
      BY <2>2, DescribedIsBits
    <2>4. QED
      BY <1>2, <1>3, <2>1, <2>2, <2>3 DEF TailInv
  <1>4. Describes(TailMoved(s, dir), Advanced(s, delta))
    BY <1>1, <1>2, AdvancedDescribed
  <1>5. TailMoved(s, dir) \in SUBSET Nat
    BY <1>4, DescribedIsBits
  <1>6. CASE Move(s, delta) /\ tail_' = [tail_ EXCEPT ![s] = TailMoved(s, dir)]
    <2>1. snakes' = [snakes EXCEPT ![s] = Advanced(s, delta)]
      BY <1>6 DEF Move
    <2> HIDE DEF delta
    <2>2. QED
      BY <1>2, <1>4, <1>6, <1>5, <2>1 DEF TailInv
  <1>7. CASE Push(s, delta) /\ tail_' = [tail_ EXCEPT ![s] = TailMoved(s, dir)]
    <2>1. PICK S \in PushableSets(s, delta) :
            snakes' = [TranslatedSnakes(S, delta) EXCEPT ![s] = Advanced(s, delta)]
      BY <1>7 DEF Push
    <2>2. tail_' \in [Snakes -> SUBSET Nat]
      BY <1>2, <1>7, <1>5
    <2>3. ASSUME NEW t \in Snakes PROVE Describes(tail_'[t], snakes'[t])
      <3>1. CASE t = s
        <4>1. tail_'[t] = TailMoved(s, dir) /\ snakes'[t] = Advanced(s, delta)
          BY <1>2, <1>7, <2>1, <3>1 DEF TranslatedSnakes
        <4>2. QED
          BY <1>4, <4>1
      <3>2. CASE t # s
        <4>1. tail_'[t] = tail_[t] /\ snakes'[t] = TranslatedSnakes(S, delta)[t]
          BY <1>2, <1>7, <2>1, <3>2 DEF TranslatedSnakes
        <4>2. t \in S => \A i \in CellsOf(t) : i + delta \in Coord
          BY <1>1, PushableFacts DEF OpenTerrain
        <4>3. Describes(tail_[t], TranslatedSnakes(S, delta)[t])
          BY <1>1, <1>2, <4>2, TranslatedDescribed
        <4>4. QED
          BY <4>1, <4>3
      <3>3. QED
        BY <3>1, <3>2
    <2>4. QED
      BY <2>2, <2>3 DEF TailInv
  <1>8. QED
    BY <1>3, <1>6, <1>7 DEF MoveIn

LEMMA PhysicsTailInv == Inv /\ TailInv /\ PhysicsStep => TailInv'
  <1> SUFFICES ASSUME Inv, TailInv, PhysicsStep
               PROVE  TailInv'
    OBVIOUS
  <1>1. DOMAIN tail_ = Snakes /\ \A s \in Snakes : Describes(tail_[s], snakes[s])
    BY DEF TailInv
  <1>2. CASE PackingExits
    <2>1. tail_' = [x \in Snakes |-> tail_'[x]]
      BY <1>2 DEF PackingExits
    <2>2. ASSUME NEW s \in Snakes PROVE Describes(tail_'[s], snakes'[s])
      <3>1. /\ snakes'[s] = snakes[s] \/ snakes'[s] = <<>>
            /\ tail_'[s] = IF snakes'[s] = <<>> THEN {} ELSE tail_[s]
        BY <1>2 DEF PackingExits, CheckExits
      <3>2. QED
        BY <1>1, <3>1, ExitedDescribed
    <2>3. QED
      BY <2>1, <2>2, TailsAreBits DEF TailInv
  <1>3. ASSUME UNCHANGED tail_, NEW S, NEW delta \in Int, snakes' = TranslatedSnakes(S, delta),
               \A s \in S : \A i \in CellsOf(s) : i + delta \in Coord
        PROVE  TailInv'
    <2>1. \A s \in Snakes : Describes(tail_[s], TranslatedSnakes(S, delta)[s])
      BY <1>1, <1>3, TranslatedDescribed
    <2>2. QED
      BY <1>1, <1>3, <2>1 DEF TailInv
  <1>4. CASE UNCHANGED <<tail_, snakes>>
    BY <1>1, <1>4 DEF TailInv
  <1>5. CASE Teleport /\ UNCHANGED tail_
    <2>1. PICK a \in Objects, delta \in Int :
             /\ \A i \in CellsOf(a) : i + delta \in OpenTerrain
             /\ snakes' = TranslatedSnakes({a}, delta)
      BY <1>5, TeleportStep
    <2>2. QED
      BY <1>3, <1>5, <2>1 DEF OpenTerrain
  <1>6. CASE (Fall \/ Perish) /\ UNCHANGED tail_
    <2>1. snakes' = TranslatedSnakes(Falling(recompute_falling), W)
      BY <1>6 DEF Fall, Drop, Perish
    <2>2. Falling(recompute_falling) \subseteq Objects
      BY DEF Falling, Inv, TypeOK
    <2>3. \A s \in Falling(recompute_falling) : \A i \in CellsOf(s) : i + W \in Coord
      BY <2>2, InvFacts, StepInMap, DownIsAStep
    <2>4. W \in Int
      BY MapSizeType
    <2>5. QED
      BY <1>3, <1>6, <2>1, <2>3, <2>4
  <1>7. CASE PackingSettle
    <2>1. PICK p \in [Snakes -> Snakes] :
            snakes' = [s \in Snakes |-> snakes[p[s]]] /\ tail_' = [s \in Snakes |-> tail_[p[s]]]
      BY <1>7 DEF PackingSettle
    <2>2. QED
      BY <1>1, <2>1 DEF TailInv
  <1>8. QED
    BY <1>2, <1>4, <1>5, <1>6, <1>7
    DEF PhysicsStep, PackingRound, NoTeleport, TeleportOffMap

LEMMA LostIsLeftPacking == phase = "lost" => ~NextPacking
  <1> SUFFICES ASSUME phase = "lost" PROVE ~NextPacking
    OBVIOUS
  <1>1. \A s \in Snakes, dir \in Direction : ~MoveIn(s, dir)
    BY DEF MoveIn
  <1>2. ~PackingExits /\ ~PackingSettle
    BY DEF PackingExits, CheckExits, PackingSettle, Settle
  <1>3. ~PackingRound
    BY DEF PackingRound, Teleport, NoTeleport, TeleportOffMap, Fall, Perish
  <1>4. QED
    BY <1>1, <1>2, <1>3 DEF NextPacking, PhysicsStep

LEMMA TailInvNext == IInv /\ TailInv /\ [NextPacking]_packing_vars => TailInv'
  <1>1. ASSUME TailInv, UNCHANGED packing_vars PROVE TailInv'
    BY <1>1 DEF packing_vars, vars, TailInv
  <1>2. QED
    BY <1>1, LostIsLeftPacking, IInvIsInv, MoveInTailInv, PhysicsTailInv DEF NextPacking

LEMMA TailInvMatches == TailInv => TailMatchesBody
  <1> SUFFICES ASSUME TailInv, NEW s \in Snakes
               PROVE  /\ tail_[s] \subseteq 0 .. (kDirBits * (Len(snakes[s]) - 1) - 1)
                      /\ \A i \in 1 .. (Len(snakes[s]) - 1) :
                           snakes[s][i] - snakes[s][i + 1]
                             = apply_direction[DirectionAt(tail_[s], i - 1)]
    BY DEF TailMatchesBody
  <1>1. Describes(tail_[s], snakes[s])
    BY DEF TailInv
  <1>2. ASSUME NEW i \in 1 .. (Len(snakes[s]) - 1)
        PROVE  snakes[s][i] - snakes[s][i + 1] = apply_direction[DirectionAt(tail_[s], i - 1)]
    <2>1. PICK d \in Direction :
            snakes[s][i] - snakes[s][i + 1] = apply_direction[d] /\ Holds(tail_[s], i - 1, d)
      BY <1>1 DEF Describes
    <2>2. i - 1 \in Nat
      OBVIOUS
    <2>3. DirectionAt(tail_[s], i - 1) = d
      BY <2>1, <2>2, DirectionFound
    <2>4. QED
      BY <2>1, <2>3
  <1>3. QED
    BY <1>1, <1>2 DEF Describes

\* The two copies of a snake's body, segments and directions, never disagree,
\* on any level and through every move, push, fall, teleport and exit: a packed
\* snake is the snake.
THEOREM TailDescribesBody == PackingSpec => []TailMatchesBody
  <1>1. PackingSpec => []IInv
    BY PackingImplements, Invariance, PTL
  <1>2. PackingSpec => InitPacking /\ [][NextPacking]_packing_vars
    BY DEF PackingSpec
  <1>3. PackingSpec => []TailInv
    BY <1>1, <1>2, TailInvInit, TailInvNext, PTL
  <1>4. QED
    BY <1>3, TailInvMatches, PTL

-----------------------------------------------------------------------------
(***************************************************************************)
(* The bit packer: the types of its accumulator, and how far it shifts.    *)
(***************************************************************************)
\* What a packer may be, written or read, by its types alone.
Packers == [bytes_ : SUBSET Int, acc_ : SUBSET Int, acc_bits_ : Int, at_ : Int]

\* The widths fit the accumulator even with most of a byte left in it.
LEMMA WidthFacts ==
  /\ ByteBits \in Nat \ {0} /\ AccBits \in Nat /\ AccBits >= ByteBits
  /\ {kTailBits, kIndexBits, kLenBits, FruitCount} \subseteq 0 .. (AccBits - ByteBits)
  <1>1. /\ ByteBits \in Nat \ {0} /\ AccBits \in Nat
        /\ {kTailBits, kIndexBits, kLenBits, FruitCount} \subseteq 0 .. (AccBits - ByteBits)
    BY WidthAssumption
  <1>2. FruitCount \in 0 .. (AccBits - ByteBits)
    BY <1>1
  <1>3. QED
    BY <1>1, <1>2

\* Shifting numbers gives numbers.
LEMMA ShiftTypes ==
  ASSUME NEW S \in SUBSET Int, NEW n \in Int
  PROVE  P!ShiftLeft(S, n) \in SUBSET Int /\ P!ShiftRight(S, n) \in SUBSET Int
  <1>1. \A b \in S : b + n \in Int /\ b - n \in Int
    OBVIOUS
  <1>2. P!ShiftLeft(S, n) \in SUBSET Int
    BY <1>1 DEF P!ShiftLeft
  <1>3. P!ShiftRight(S, n) \in SUBSET Int
    BY <1>1 DEF P!ShiftRight
  <1>4. QED
    BY <1>2, <1>3

\* Packer, flush and deposit give packers.
LEMMA PackerTypes ==
  /\ \A S \in SUBSET Int : P!Packer(S) \in Packers
  /\ \A p \in Packers : P!flush(p) \in Packers
  /\ \A p \in Packers, data \in SUBSET Int, width \in Int : P!deposit(p, data, width) \in Packers
  <1>1. \A S \in SUBSET Int : P!Packer(S) \in Packers
    BY DEF P!Packer, Packers
  <1>2. ASSUME NEW p \in Packers PROVE P!flush(p) \in Packers
    <2>1. p.bytes_ \in SUBSET Int /\ p.acc_ \in SUBSET Int /\ p.acc_bits_ \in Int /\ p.at_ \in Int
      BY DEF Packers
    <2>2. P!ShiftLeft(p.acc_, p.at_) \in SUBSET Int
      BY <2>1, ShiftTypes
    <2>3. QED
      BY <2>1, <2>2 DEF P!flush, Packers
  <1>3. ASSUME NEW p \in Packers, NEW data \in SUBSET Int, NEW width \in Int
        PROVE  P!deposit(p, data, width) \in Packers
    <2>1. PICK q \in Packers : q = IF p.acc_bits_ + width > AccBits THEN P!flush(p) ELSE p
      BY <1>2
    <2>2. P!ShiftLeft(data, q.acc_bits_) \in SUBSET Int
      BY ShiftTypes DEF Packers
    <2>3. P!deposit(p, data, width) =
            [bytes_    |-> q.bytes_,
             acc_      |-> q.acc_ \union (P!ShiftLeft(data, q.acc_bits_) \intersect P!mask_n_bits(AccBits)),
             acc_bits_ |-> q.acc_bits_ + width,
             at_       |-> q.at_]
      BY <2>1 DEF P!deposit
    <2>4. QED
      BY <2>2, <2>3 DEF Packers
  <1>4. QED
    BY <1>1, <1>2, <1>3

\* The bytes of a state have room for its bits.
LEMMA PackedBitsType ==
  /\ packed_bits \in Nat /\ P!Bytes \in Nat
  /\ packed_bits <= ByteBits * P!Bytes
  <1>1. kTailBits \in Nat /\ kIndexBits \in Nat /\ kLenBits \in Nat /\ FruitCount \in Nat
        /\ SnakeCount \in Nat /\ GadgetCount \in Nat
    BY WidthFacts, SetupAssumption DEF LegalSetup
  <1>2. packed_bits \in Nat
    BY <1>1 DEF packed_bits
  <1> DEFINE a == packed_bits + ByteBits - 1
  <1>3. a \in Nat
    BY <1>2, WidthFacts
  <1>4. P!Bytes = a \div ByteBits
    BY DEF P!Bytes
  <1> HIDE DEF a
  <1>5. a \div ByteBits \in Nat /\ a % ByteBits \in 0 .. ByteBits - 1
        /\ a = ByteBits * (a \div ByteBits) + (a % ByteBits)
    BY <1>3, WidthFacts, DivisionFacts
  <1> DEFINE q == a \div ByteBits
             m == ByteBits * q
  <1>6. m \in Nat
    BY <1>5, WidthFacts
  <1>7. a <= m + ByteBits - 1
    BY <1>5, <1>6, WidthFacts
  <1> HIDE DEF m
  <1>8. packed_bits <= m
    BY <1>2, <1>6, <1>7, WidthFacts DEF a
  <1>9. QED
    BY <1>2, <1>4, <1>5, <1>8 DEF m

\* How many bytes refill reads.
BytesRead(p) ==
  LET room == (AccBits - p.acc_bits_) \div ByteBits
  IN  IF room < P!Bytes - p.at_ THEN room ELSE P!Bytes - p.at_

\* refill and extract give packers, and extract a set of bits.
LEMMA ReaderTypes ==
  ASSUME NEW p \in Packers, NEW width \in Int
  PROVE  /\ P!refill(p) \in Packers /\ P!Refilled(p, width) \in Packers
         /\ P!Extracted(p, width) \in Packers /\ P!extract(p, width) \in SUBSET Int
  <1>1. p.bytes_ \in SUBSET Int /\ p.acc_ \in SUBSET Int /\ p.acc_bits_ \in Int /\ p.at_ \in Int
    BY DEF Packers
  <1>2. BytesRead(p) \in Int
    BY <1>1, WidthFacts, PackedBitsType DEF BytesRead
  <1> DEFINE n == BytesRead(p)
             in == p.bytes_ \intersect P!mask_n_bits(ByteBits * (p.at_ + n))
             read == P!ShiftRight(in, ByteBits * p.at_)
  <1>3. P!refill(p) = [bytes_    |-> p.bytes_,
                       acc_      |-> p.acc_ \union P!ShiftLeft(read, p.acc_bits_),
                       acc_bits_ |-> p.acc_bits_ + ByteBits * n,
                       at_       |-> p.at_ + n]
    BY DEF P!refill, BytesRead
  <1>4. ByteBits * p.at_ \in Int /\ ByteBits * n \in Int
    BY <1>1, <1>2, WidthFacts
  <1>5. in \in SUBSET Int
    BY <1>1
  <1> HIDE DEF n, in
  <1>6. P!ShiftLeft(read, p.acc_bits_) \in SUBSET Int
    <2>1. read \in SUBSET Int
      BY <1>4, <1>5, ShiftTypes
    <2> HIDE DEF read
    <2>2. QED
      BY <1>1, <2>1, ShiftTypes
  <1> HIDE DEF read
  <1>7. P!refill(p) \in Packers
    BY <1>1, <1>2, <1>3, <1>4, <1>6 DEF Packers, n
  <1>8. PICK q \in Packers : q = P!Refilled(p, width)
    BY <1>7 DEF P!Refilled
  <1>9. q.acc_ \in SUBSET Int /\ q.acc_bits_ \in Int
    BY DEF Packers
  <1>10. P!ShiftRight(q.acc_, width) \in SUBSET Int
    BY <1>9, ShiftTypes
  <1>11. P!Extracted(p, width) =
           [bytes_    |-> q.bytes_,
            acc_      |-> P!ShiftRight(q.acc_, width),
            acc_bits_ |-> q.acc_bits_ - width,
            at_       |-> q.at_]
    BY <1>8 DEF P!Extracted
  <1>12. P!Extracted(p, width) \in Packers
    BY <1>9, <1>10, <1>11 DEF Packers
  <1>13. P!extract(p, width) \in SUBSET Int
    BY <1>8, <1>9 DEF P!extract
  <1>14. QED
    BY <1>7, <1>8, <1>12, <1>13

-----------------------------------------------------------------------------
(***************************************************************************)
(* PackFields and UnpackFields, one field at a time.                       *)
(***************************************************************************)
\* The packers that PackFields goes through.
PackerChain(f, fields, n) ==
  /\ f[0] = P!Packer({})
  /\ \A i \in 1 .. n : f[i] = P!deposit(f[i - 1], fields[i].data, fields[i].width)

\* PackFields deposits the fields in order, and flushes once at the end.
LEMMA PackingFollows ==
  ASSUME NEW fields, NEW n \in Nat, Len(fields) = n,
         \A i \in 1 .. n : fields[i].data \in SUBSET Int /\ fields[i].width \in Int
  PROVE  \E f : PackerChain(f, fields, n) /\ P!PackFields(fields) = P!flush(f[n]).bytes_
  <1> DEFINE base == P!Packer({})
             Put(p, i) == P!deposit(p, fields[i].data, fields[i].width)
             Body(f) == [i \in 0 .. n |-> IF i = 0 THEN base ELSE Put(f[i - 1], i)]
             step == [x \in Nat \X Packers |-> IF x[1] \in 1 .. n THEN Put(x[2], x[1]) ELSE x[2]]
             h == CHOOSE f : f = Body(f)
  <1>1. P!PackFields(fields) = P!flush(h[n]).bytes_
    BY DEF P!PackFields
  <1>2. \E f : f = Body(f)
    <2>1. base \in Packers
      BY PackerTypes
    <2>2. \A i \in 1 .. n, p \in Packers : Put(p, i) \in Packers
      BY PackerTypes
    <2> HIDE DEF base, Put
    <2>3. step \in [Nat \X Packers -> Packers]
      BY <2>2
    <2>4. PICK g : Follows(g, n, Packers, base, step)
      <3> HIDE DEF step
      <3>1. QED
        BY <2>1, <2>3, FollowsExists
    <2>5. ASSUME NEW i \in 0 .. n PROVE g[i] = IF i = 0 THEN base ELSE Put(g[i - 1], i)
      <3>1. CASE i = 0
        BY <2>4, <3>1 DEF Follows
      <3>2. CASE i # 0
        <4>1. i \in 1 .. n /\ i - 1 \in 0 .. n /\ i \in Nat
          BY <3>2
        <4>2. g[i] = step[<<i, g[i - 1]>>] /\ g[i - 1] \in Packers
          BY <2>4, <4>1 DEF Follows
        <4>3. QED
          BY <3>2, <4>1, <4>2
      <3>3. QED
        BY <3>1, <3>2
    <2>6. g = [i \in 0 .. n |-> g[i]]
      BY <2>4 DEF Follows
    <2>7. g = Body(g)
      BY <2>5, <2>6
    <2>8. QED
      BY <2>7
  <1>3. h = Body(h)
    <2> HIDE DEF Body
    <2>1. QED
      BY <1>2
  <1> HIDE DEF h, base, Put
  <1>4. h[0] = base /\ \A i \in 1 .. n : h[i] = Put(h[i - 1], i)
    <2>1. 0 \in 0 .. n /\ \A i \in 1 .. n : i \in 0 .. n /\ i # 0
      OBVIOUS
    <2>2. QED
      BY <1>3, <2>1
  <1>5. PackerChain(h, fields, n)
    BY <1>4 DEF PackerChain, base, Put
  <1>6. QED
    BY <1>1, <1>5

\* The readings that UnpackFields goes through.
ReadingChain(f, bytes, widths, n) ==
  /\ f[0] = [packer |-> P!Packer(bytes), values |-> <<>>]
  /\ \A i \in 1 .. n :
       f[i] = [packer |-> P!Extracted(f[i - 1].packer, widths[i]),
               values |-> Append(f[i - 1].values, P!extract(f[i - 1].packer, widths[i]))]

\* UnpackFields extracts the fields in order.
LEMMA UnpackingFollows ==
  ASSUME NEW bytes \in SUBSET Int, NEW widths, NEW n \in Nat, Len(widths) = n,
         \A i \in 1 .. n : widths[i] \in Int
  PROVE  \E f : ReadingChain(f, bytes, widths, n) /\ P!UnpackFields(bytes, widths) = f[n].values
  <1> DEFINE Readings == [packer : Packers, values : Seq(SUBSET Int)]
             base == [packer |-> P!Packer(bytes), values |-> <<>>]
             Get(r, i) == [packer |-> P!Extracted(r.packer, widths[i]),
                           values |-> Append(r.values, P!extract(r.packer, widths[i]))]
             Body(f) == [i \in 0 .. n |-> IF i = 0 THEN base ELSE Get(f[i - 1], i)]
             step == [x \in Nat \X Readings |-> IF x[1] \in 1 .. n THEN Get(x[2], x[1]) ELSE x[2]]
             h == CHOOSE f : f = Body(f)
  <1>1. P!UnpackFields(bytes, widths) = h[n].values
    BY DEF P!UnpackFields
  <1>2. \E f : f = Body(f)
    <2>1. base \in Readings
      BY PackerTypes
    <2>2. ASSUME NEW i \in 1 .. n, NEW r \in Readings PROVE Get(r, i) \in Readings
      <3>1. r.packer \in Packers /\ r.values \in Seq(SUBSET Int) /\ widths[i] \in Int
        OBVIOUS
      <3>2. P!Extracted(r.packer, widths[i]) \in Packers /\ P!extract(r.packer, widths[i]) \in SUBSET Int
        BY <3>1, ReaderTypes
      <3>3. Append(r.values, P!extract(r.packer, widths[i])) \in Seq(SUBSET Int)
        BY <3>1, <3>2, AppendProperties
      <3>4. QED
        BY <3>2, <3>3
    <2> HIDE DEF base, Get, Readings
    <2>3. step \in [Nat \X Readings -> Readings]
      BY <2>2
    <2>4. PICK g : Follows(g, n, Readings, base, step)
      <3> HIDE DEF step
      <3>1. QED
        BY <2>1, <2>3, FollowsExists
    <2>5. ASSUME NEW i \in 0 .. n PROVE g[i] = IF i = 0 THEN base ELSE Get(g[i - 1], i)
      <3>1. CASE i = 0
        BY <2>4, <3>1 DEF Follows
      <3>2. CASE i # 0
        <4>1. i \in 1 .. n /\ i - 1 \in 0 .. n /\ i \in Nat
          BY <3>2
        <4>2. g[i] = step[<<i, g[i - 1]>>] /\ g[i - 1] \in Readings
          BY <2>4, <4>1 DEF Follows
        <4>3. QED
          BY <3>2, <4>1, <4>2
      <3>3. QED
        BY <3>1, <3>2
    <2>6. g = [i \in 0 .. n |-> g[i]]
      BY <2>4 DEF Follows
    <2>7. g = Body(g)
      BY <2>5, <2>6
    <2>8. QED
      BY <2>7
  <1>3. h = Body(h)
    <2> HIDE DEF Body
    <2>1. QED
      BY <1>2
  <1> HIDE DEF h, base, Get
  <1>4. h[0] = base /\ \A i \in 1 .. n : h[i] = Get(h[i - 1], i)
    <2>1. 0 \in 0 .. n /\ \A i \in 1 .. n : i \in 0 .. n /\ i # 0
      OBVIOUS
    <2>2. QED
      BY <1>3, <2>1
  <1>5. ReadingChain(h, bytes, widths, n)
    BY <1>4 DEF ReadingChain, base, Get
  <1>6. QED
    BY <1>1, <1>5

-----------------------------------------------------------------------------
(***************************************************************************)
(* One step of each: what the accumulator and the bytes hold after it.     *)
(***************************************************************************)
\* Packer p holds these bits, of total many: some in its bytes, the others in
\* the accumulator.
Writing(p, bits, total) ==
  /\ p.acc_bits_ \in 0 .. AccBits /\ p.at_ \in Nat
  /\ p.acc_ \subseteq 0 .. (p.acc_bits_ - 1)
  /\ p.at_ + p.acc_bits_ = total
  /\ p.bytes_ \union P!ShiftLeft(p.acc_, p.at_) = bits

\* flush moves what the accumulator holds to the bytes, and loses none of it.
LEMMA FlushWrites ==
  ASSUME NEW p, NEW bits, NEW total, Writing(p, bits, total)
  PROVE  Writing(P!flush(p), bits, total) /\ P!flush(p).acc_bits_ = 0 /\ P!flush(p).bytes_ = bits
  <1> DEFINE end == p.at_ + p.acc_bits_
             bytes == (end + ByteBits - 1) \div ByteBits
             written == IF p.acc_bits_ = 0 THEN {} ELSE P!mask_n_bits(ByteBits * bytes)
             acc == P!ShiftLeft(p.acc_, p.at_)
             all == p.bytes_ \union (acc \intersect written)
  <1>1. P!flush(p) = [bytes_ |-> all, acc_ |-> {}, acc_bits_ |-> 0, at_ |-> end]
    BY DEF P!flush
  <1>2. p.acc_bits_ \in 0 .. AccBits /\ p.at_ \in Nat /\ p.acc_ \subseteq 0 .. (p.acc_bits_ - 1)
        /\ AccBits \in Nat /\ ByteBits \in Nat \ {0} /\ end = total /\ p.bytes_ \union acc = bits
    BY WidthFacts DEF Writing
  <1>3. \A b \in acc : b \in Nat /\ b < end
    BY <1>2 DEF P!ShiftLeft
  <1>4. end <= ByteBits * bytes /\ ByteBits * bytes \in Nat
    <2> DEFINE a == end + ByteBits - 1
               m == ByteBits * (a \div ByteBits)
    <2>1. a \in Nat
      BY <1>2
    <2>2. a \div ByteBits \in Nat /\ a % ByteBits \in 0 .. ByteBits - 1 /\ a = m + (a % ByteBits)
      <3> HIDE DEF a
      <3>1. QED
        BY <1>2, <2>1, DivisionFacts
    <2>3. m \in Nat
      <3> HIDE DEF a
      <3>1. QED
        BY <1>2, <2>2
    <2>4. end \in Nat
      BY <1>2
    <2> HIDE DEF m, end
    <2>5. end <= m
      BY <1>2, <2>2, <2>3, <2>4
    <2>6. QED
      BY <2>3, <2>5 DEF m
  <1>5. acc \subseteq written
    <2>1. CASE p.acc_bits_ = 0
      BY <1>2, <2>1 DEF P!ShiftLeft
    <2>2. CASE p.acc_bits_ # 0
      <3>1. written = 0 .. (ByteBits * bytes - 1)
        BY <2>2 DEF P!mask_n_bits
      <3>2. end \in Nat
        BY <1>2
      <3> HIDE DEF written, acc, end, bytes
      <3>3. QED
        BY <1>3, <1>4, <3>1, <3>2
    <2>3. QED
      BY <2>1, <2>2
  <1>6. all = bits
    <2> HIDE DEF acc, written
    <2>1. QED
      BY <1>2, <1>5
  <1>7. P!ShiftLeft({}, end) = {}
    BY DEF P!ShiftLeft
  <1> HIDE DEF all
  <1>8. QED
    BY <1>1, <1>2, <1>6, <1>7 DEF Writing

\* deposit writes the field after what is written, flushing first when it must.
LEMMA DepositWrites ==
  ASSUME NEW p, NEW bits, NEW total, Writing(p, bits, total),
         NEW width \in 0 .. AccBits, NEW data, data \subseteq 0 .. (width - 1)
  PROVE  Writing(P!deposit(p, data, width), bits \union P!ShiftLeft(data, total), total + width)
  <1>0. AccBits \in Nat
    BY WidthFacts
  <1>1. PICK q : q = IF p.acc_bits_ + width > AccBits THEN P!flush(p) ELSE p
    OBVIOUS
  <1>2. Writing(q, bits, total) /\ q.acc_bits_ + width <= AccBits
    <2>1. CASE p.acc_bits_ + width > AccBits
      BY <1>0, <1>1, <2>1, FlushWrites
    <2>2. CASE ~(p.acc_bits_ + width > AccBits)
      BY <1>0, <1>1, <2>2 DEF Writing
    <2>3. QED
      BY <2>1, <2>2
  <1>3. /\ q.acc_bits_ \in 0 .. AccBits /\ q.at_ \in Nat
        /\ q.acc_ \subseteq 0 .. (q.acc_bits_ - 1) /\ q.at_ + q.acc_bits_ = total
        /\ q.bytes_ \union P!ShiftLeft(q.acc_, q.at_) = bits
    BY <1>2 DEF Writing
  <1> DEFINE new == P!ShiftLeft(data, q.acc_bits_)
             acc == q.acc_ \union new
  <1>4. new \subseteq 0 .. (q.acc_bits_ + width - 1)
    BY <1>3 DEF P!ShiftLeft
  <1>5. new \intersect P!mask_n_bits(AccBits) = new
    <2>1. new \subseteq 0 .. (AccBits - 1)
      BY <1>0, <1>2, <1>3, <1>4
    <2> HIDE DEF new
    <2>2. QED
      BY <2>1 DEF P!mask_n_bits
  <1>6. P!deposit(p, data, width) =
          [bytes_ |-> q.bytes_, acc_ |-> acc, acc_bits_ |-> q.acc_bits_ + width, at_ |-> q.at_]
    BY <1>1, <1>5 DEF P!deposit
  <1>7. acc \subseteq 0 .. (q.acc_bits_ + width - 1)
    BY <1>3, <1>4
  <1>8. P!ShiftLeft(acc, q.at_) = P!ShiftLeft(q.acc_, q.at_) \union P!ShiftLeft(data, total)
    <2>1. P!ShiftLeft(acc, q.at_) = P!ShiftLeft(q.acc_, q.at_) \union P!ShiftLeft(new, q.at_)
      BY DEF P!ShiftLeft
    <2>2. \A b \in data : (b + q.acc_bits_) + q.at_ = b + total
      BY <1>3
    <2>3. P!ShiftLeft(new, q.at_) = P!ShiftLeft(data, total)
      BY <2>2 DEF P!ShiftLeft
    <2>4. QED
      BY <2>1, <2>3
  <1> HIDE DEF acc
  <1>9. q.bytes_ \union P!ShiftLeft(acc, q.at_) = bits \union P!ShiftLeft(data, total)
    BY <1>3, <1>8
  <1>10. q.acc_bits_ + width \in 0 .. AccBits /\ q.at_ + (q.acc_bits_ + width) = total + width
    BY <1>0, <1>2, <1>3
  <1>11. QED
    BY <1>3, <1>6, <1>7, <1>9, <1>10 DEF Writing

\* Packer p has these bytes, and has read first many of their bits: what is in
\* the accumulator is what comes next.
Reading(p, bits, first) ==
  /\ p.bytes_ = bits
  /\ p.acc_bits_ \in 0 .. AccBits /\ p.at_ \in 0 .. P!Bytes
  /\ ByteBits * p.at_ = first + p.acc_bits_
  /\ p.acc_ = {b \in 0 .. (p.acc_bits_ - 1) : first + b \in bits}

\* refill takes whole bytes in after what is left, as many as a field can need.
LEMMA RefillReads ==
  ASSUME NEW p, NEW bits \in SUBSET Nat, NEW first \in Nat, Reading(p, bits, first),
         NEW width \in 0 .. (AccBits - ByteBits), first + width <= packed_bits
  PROVE  Reading(P!Refilled(p, width), bits, first) /\ width <= P!Refilled(p, width).acc_bits_
  <1>1. AccBits \in Nat /\ ByteBits \in Nat \ {0} /\ P!Bytes \in Nat /\ packed_bits \in Nat
        /\ packed_bits <= ByteBits * P!Bytes
    BY WidthFacts, PackedBitsType
  <1>2. /\ p.bytes_ = bits /\ p.acc_bits_ \in 0 .. AccBits /\ p.at_ \in 0 .. P!Bytes
        /\ ByteBits * p.at_ = first + p.acc_bits_
        /\ p.acc_ = {b \in 0 .. (p.acc_bits_ - 1) : first + b \in bits}
    BY DEF Reading
  <1>3. CASE ~(p.acc_bits_ < width)
    <2>1. P!Refilled(p, width) = p
      BY <1>3 DEF P!Refilled
    <2>2. QED
      BY <1>1, <1>2, <1>3, <2>1
  <1>4. CASE p.acc_bits_ < width
    <2> DEFINE free == AccBits - p.acc_bits_
               room == free \div ByteBits
               n == BytesRead(p)
               from == ByteBits * p.at_
               more == ByteBits * n
               read == P!ShiftRight(p.bytes_ \intersect P!mask_n_bits(ByteBits * (p.at_ + n)), from)
               acc == p.acc_ \union P!ShiftLeft(read, p.acc_bits_)
    <2>1. P!Refilled(p, width) =
            [bytes_ |-> p.bytes_, acc_ |-> acc, acc_bits_ |-> p.acc_bits_ + more, at_ |-> p.at_ + n]
      BY <1>4 DEF P!Refilled, P!refill, BytesRead
    <2>2. free \in Nat
      BY <1>1, <1>2
    <2>3. room \in Nat /\ free % ByteBits \in 0 .. ByteBits - 1 /\ free = ByteBits * room + (free % ByteBits)
      <3> HIDE DEF free
      <3>1. QED
        BY <1>1, <2>2, DivisionFacts
    <2>4. n = IF room < P!Bytes - p.at_ THEN room ELSE P!Bytes - p.at_
      BY DEF BytesRead
    <2> HIDE DEF n, room, free
    <2>5. n \in Nat /\ n <= room /\ p.at_ + n \in 0 .. P!Bytes /\ (n = room \/ n = P!Bytes - p.at_)
      BY <1>1, <1>2, <2>3, <2>4
    <2>6. /\ more \in Nat /\ from \in Nat /\ ByteBits * room \in Nat /\ more <= ByteBits * room
          /\ ByteBits * (p.at_ + n) = from + more
          /\ n = P!Bytes - p.at_ => more = ByteBits * P!Bytes - from
      <3>1. p.at_ \in Nat /\ P!Bytes \in Nat /\ ByteBits \in Nat /\ n \in Nat /\ room \in Nat
        BY <1>1, <1>2, <2>3, <2>5
      <3>2. ByteBits * n \in Nat /\ ByteBits * p.at_ \in Nat /\ ByteBits * room \in Nat
        BY <3>1
      <3>3. ByteBits * (p.at_ + n) = ByteBits * p.at_ + ByteBits * n
        BY <3>1
      <3>4. ByteBits * n <= ByteBits * room
        <4>1. PICK d \in Nat : room = n + d
          BY <2>5, <3>1
        <4>2. ByteBits * room = ByteBits * n + ByteBits * d /\ ByteBits * d \in Nat
          BY <3>1, <4>1
        <4>3. QED
          BY <3>2, <4>2
      <3>5. n = P!Bytes - p.at_ => p.at_ + n = P!Bytes
        BY <3>1
      <3> DEFINE B == P!Bytes
      <3>6. n = P!Bytes - p.at_ => ByteBits * P!Bytes = ByteBits * p.at_ + ByteBits * n
        BY <3>3, <3>5
      <3>7. QED
        BY <3>2, <3>3, <3>4, <3>6
    <2>7. p.acc_bits_ + more \in 0 .. AccBits
      BY <1>1, <1>2, <2>2, <2>3, <2>6 DEF free
    <2>8. width <= p.acc_bits_ + more
      <3>1. CASE n = room
        BY <1>1, <1>2, <2>2, <2>3, <2>6, <3>1 DEF free
      <3>2. CASE n = P!Bytes - p.at_
        <4> DEFINE all == ByteBits * P!Bytes
        <4>1. more = all - from /\ from = first + p.acc_bits_ /\ packed_bits <= all /\ all \in Nat
          BY <1>1, <1>2, <2>6, <3>2
        <4> HIDE DEF all, from, more
        <4>2. QED
          BY <1>1, <1>2, <2>6, <4>1
      <3>3. QED
        BY <2>5, <3>1, <3>2
    <2>9. \A b \in Int : b \in read <=> b \in 0 .. (more - 1) /\ from + b \in bits
      <3> TAKE b \in Int
      <3>1. P!mask_n_bits(ByteBits * (p.at_ + n)) = 0 .. (from + more - 1)
        BY <2>6 DEF P!mask_n_bits
      <3> DEFINE in == p.bytes_ \intersect P!mask_n_bits(ByteBits * (p.at_ + n))
      <3>2. \A c : c \in in <=> c \in bits /\ c \in 0 .. (from + more - 1)
        BY <1>2, <3>1
      <3>3. b \in read <=> \E c \in in : c >= from /\ b = c - from
        BY DEF P!ShiftRight
      <3> HIDE DEF in, read, from, more
      <3>4. ASSUME b \in read PROVE b \in 0 .. (more - 1) /\ from + b \in bits
        <4>1. PICK c \in in : c >= from /\ b = c - from
          BY <3>3, <3>4
        <4>2. c \in bits /\ c \in 0 .. (from + more - 1) /\ from + b = c
          BY <2>6, <3>2, <4>1
        <4>3. QED
          BY <2>6, <4>1, <4>2
      <3>5. ASSUME b \in 0 .. (more - 1), from + b \in bits PROVE b \in read
        <4>1. from + b \in in /\ from + b >= from /\ b = (from + b) - from
          BY <2>6, <3>2, <3>5
        <4>2. QED
          BY <3>3, <4>1
      <3>6. QED
        BY <3>4, <3>5
    <2>10. read \subseteq Int
      <3>1. p.bytes_ \subseteq Int /\ from \in Int
        BY <1>2, <2>6
      <3> HIDE DEF from
      <3>2. QED
        BY <3>1 DEF P!ShiftRight
    <2>11. acc = {b \in 0 .. (p.acc_bits_ + more - 1) : first + b \in bits}
      <3>1. \A b : b \in P!ShiftLeft(read, p.acc_bits_) <=> \E c \in read : b = c + p.acc_bits_
        BY DEF P!ShiftLeft
      <3> HIDE DEF read
      <3>2. p.acc_bits_ \in Nat /\ from = first + p.acc_bits_ /\ more \in Nat
        BY <1>2, <2>6
      <3> HIDE DEF from, more
      <3>3. ASSUME NEW b \in P!ShiftLeft(read, p.acc_bits_)
            PROVE  b \in 0 .. (p.acc_bits_ + more - 1) /\ first + b \in bits
        <4>1. PICK c \in read : b = c + p.acc_bits_
          BY <3>1
        <4>2. c \in 0 .. (more - 1) /\ from + c \in bits
          BY <2>9, <2>10
        <4>3. from + c = first + b
          BY <3>2, <4>1, <4>2
        <4>4. QED
          BY <3>2, <4>1, <4>2, <4>3
      <3>4. ASSUME NEW b \in 0 .. (p.acc_bits_ + more - 1), first + b \in bits, ~(b < p.acc_bits_)
            PROVE  b \in P!ShiftLeft(read, p.acc_bits_)
        <4> DEFINE c == b - p.acc_bits_
        <4>1. c \in 0 .. (more - 1) /\ from + c = first + b /\ b = c + p.acc_bits_
          BY <3>2, <3>4
        <4>2. c \in read
          BY <2>9, <3>4, <4>1
        <4>3. QED
          BY <3>1, <4>1, <4>2
      <3>5. \A b : b \in p.acc_ <=> b \in 0 .. (p.acc_bits_ - 1) /\ first + b \in bits
        BY <1>2
      <3>6. \A b \in 0 .. (p.acc_bits_ - 1) : b \in 0 .. (p.acc_bits_ + more - 1)
        BY <3>2
      <3>7. \A b \in 0 .. (p.acc_bits_ + more - 1) : b < p.acc_bits_ => b \in 0 .. (p.acc_bits_ - 1)
        BY <3>2
      <3>8. \A b : b \in acc <=> b \in p.acc_ \/ b \in P!ShiftLeft(read, p.acc_bits_)
        OBVIOUS
      <3> HIDE DEF acc
      <3>9. QED
        BY <3>3, <3>4, <3>5, <3>6, <3>7, <3>8
    <2>12. ByteBits * (p.at_ + n) = first + (p.acc_bits_ + more)
      <3> HIDE DEF more
      <3>1. QED
        BY <1>2, <2>6
    <2> HIDE DEF acc, more
    <2>13. PICK q : q = P!Refilled(p, width)
      OBVIOUS
    <2>14. q.bytes_ = bits /\ q.acc_ = acc /\ q.acc_bits_ = p.acc_bits_ + more /\ q.at_ = p.at_ + n
      BY <1>2, <2>1, <2>13
    <2>15. q.acc_bits_ \in 0 .. AccBits /\ width <= q.acc_bits_ /\ q.at_ \in 0 .. P!Bytes
      BY <2>5, <2>7, <2>8, <2>14
    <2>16. ByteBits * q.at_ = first + q.acc_bits_
      BY <2>12, <2>14
    <2>17. q.acc_ = {b \in 0 .. (q.acc_bits_ - 1) : first + b \in bits}
      <3>1. \A b : b \in q.acc_ <=> b \in 0 .. (p.acc_bits_ + more - 1) /\ first + b \in bits
        BY <2>11, <2>14
      <3>2. p.acc_bits_ + more - 1 = q.acc_bits_ - 1
        BY <1>2, <2>6, <2>14
      <3>3. QED
        BY <3>1, <3>2
    <2>18. QED
      BY <2>13, <2>14, <2>15, <2>16, <2>17 DEF Reading
  <1>5. QED
    BY <1>3, <1>4

\* extract gives the next width bits, and reads on from behind them.
LEMMA ExtractReads ==
  ASSUME NEW p, NEW bits \in SUBSET Nat, NEW first \in Nat, Reading(p, bits, first),
         NEW width \in 0 .. (AccBits - ByteBits), first + width <= packed_bits
  PROVE  /\ P!extract(p, width) = {b \in 0 .. (width - 1) : first + b \in bits}
         /\ Reading(P!Extracted(p, width), bits, first + width)
  <1>1. PICK q : q = P!Refilled(p, width)
    OBVIOUS
  <1>2. Reading(q, bits, first) /\ width <= q.acc_bits_
    BY <1>1, RefillReads
  <1>3. /\ q.bytes_ = bits /\ q.acc_bits_ \in 0 .. AccBits /\ q.at_ \in 0 .. P!Bytes
        /\ ByteBits * q.at_ = first + q.acc_bits_
        /\ q.acc_ = {b \in 0 .. (q.acc_bits_ - 1) : first + b \in bits}
        /\ AccBits \in Nat /\ width \in Nat
    BY <1>2, WidthFacts DEF Reading
  <1>4. P!extract(p, width) = {b \in 0 .. (width - 1) : first + b \in bits}
    <2>1. P!extract(p, width) = q.acc_ \intersect (0 .. (width - 1))
      BY <1>1 DEF P!extract, P!mask_n_bits
    <2>2. \A b \in 0 .. (width - 1) : b \in 0 .. (q.acc_bits_ - 1)
      BY <1>2, <1>3
    <2>3. QED
      BY <1>3, <2>1, <2>2
  <1> DEFINE acc == P!ShiftRight(q.acc_, width)
             left == q.acc_bits_ - width
  <1>5. P!Extracted(p, width) = [bytes_ |-> q.bytes_, acc_ |-> acc, acc_bits_ |-> left, at_ |-> q.at_]
    BY <1>1 DEF P!Extracted
  <1>6. left \in 0 .. AccBits
    BY <1>2, <1>3
  <1>7. acc = {b \in 0 .. (left - 1) : (first + width) + b \in bits}
    <2>1. \A b : b \in acc <=> \E c \in q.acc_ : c >= width /\ b = c - width
      BY DEF P!ShiftRight
    <2>2. \A c : c \in q.acc_ <=> c \in 0 .. (q.acc_bits_ - 1) /\ first + c \in bits
      BY <1>3
    <2> HIDE DEF acc
    <2>3. ASSUME NEW b \in acc PROVE b \in 0 .. (left - 1) /\ (first + width) + b \in bits
      <3>1. PICK c \in q.acc_ : c >= width /\ b = c - width
        BY <2>1
      <3>2. c \in 0 .. (q.acc_bits_ - 1) /\ first + c \in bits
        BY <2>2
      <3>3. (first + width) + b = first + c
        BY <1>3, <3>1, <3>2
      <3>4. QED
        BY <1>3, <3>1, <3>2, <3>3
    <2>4. ASSUME NEW b \in 0 .. (left - 1), (first + width) + b \in bits PROVE b \in acc
      <3>1. b + width \in 0 .. (q.acc_bits_ - 1) /\ first + (b + width) = (first + width) + b
            /\ b + width >= width /\ b = (b + width) - width
        BY <1>3, <1>6
      <3>2. QED
        BY <2>1, <2>2, <2>4, <3>1
    <2>5. QED
      BY <2>3, <2>4
  <1>8. ByteBits * q.at_ = (first + width) + left
    BY <1>3
  <1> HIDE DEF acc, left
  <1>9. Reading(P!Extracted(p, width), bits, first + width)
    BY <1>3, <1>5, <1>6, <1>7, <1>8 DEF Reading
  <1>10. QED
    BY <1>4, <1>9

-----------------------------------------------------------------------------
(***************************************************************************)
(* Fields that lie apart: what PackFields writes, UnpackFields reads.      *)
(***************************************************************************)
\* Fields that can be packed, their widths, and the places where they begin.
Legal(fields, widths, off, n) ==
  /\ n \in Nat /\ Len(fields) = n /\ Len(widths) = n
  /\ off \in [0 .. n -> Nat] /\ off[0] = 0 /\ off[n] <= packed_bits
  /\ \A i \in 1 .. n :
       /\ widths[i] \in 0 .. (AccBits - ByteBits) /\ fields[i].width = widths[i]
       /\ fields[i].data \subseteq 0 .. (widths[i] - 1)
       /\ off[i] = off[i - 1] + widths[i]

\* The bits of the first k fields.
Laid(fields, off, k) == {b \in Nat : \E i \in 1 .. k : b - off[i - 1] \in fields[i].data}

\* The parts of Legal, one field at a time.
LEMMA LegalFacts ==
  ASSUME NEW fields, NEW widths, NEW off, NEW n, Legal(fields, widths, off, n)
  PROVE  /\ n \in Nat /\ \A k \in 0 .. n : off[k] \in Nat
         /\ \A k \in 1 .. n :
              /\ k - 1 \in 0 .. n /\ k \in 0 .. n
              /\ widths[k] \in 0 .. (AccBits - ByteBits) /\ widths[k] \in 0 .. AccBits /\ widths[k] \in Nat
              /\ fields[k].data \subseteq 0 .. (widths[k] - 1)
              /\ off[k] = off[k - 1] + widths[k]
  <1>1. n \in Nat /\ (\A k \in 0 .. n : off[k] \in Nat) /\ AccBits \in Nat /\ ByteBits \in Nat
    BY WidthFacts DEF Legal
  <1>2. ASSUME NEW k \in 1 .. n
        PROVE  /\ widths[k] \in 0 .. (AccBits - ByteBits)
               /\ fields[k].data \subseteq 0 .. (widths[k] - 1)
               /\ off[k] = off[k - 1] + widths[k]
    BY DEF Legal
  <1>3. \A k \in 1 .. n : k - 1 \in 0 .. n /\ k \in 0 .. n
    BY <1>1
  <1>4. \A w \in 0 .. (AccBits - ByteBits) : w \in 0 .. AccBits /\ w \in Nat
    BY <1>1
  <1>5. QED
    BY <1>1, <1>2, <1>3, <1>4

\* Later fields begin later.
LEMMA OffsetsRise ==
  ASSUME NEW fields, NEW widths, NEW off, NEW n, Legal(fields, widths, off, n),
         NEW i \in 0 .. n
  PROVE  \A k \in 0 .. n : i <= k => off[i] <= off[k]
  <1> DEFINE T == {k \in 0 .. n : i <= k => off[i] <= off[k]}
  <1>1. n \in Nat /\ \A k \in 0 .. n : off[k] \in Nat
    BY DEF Legal
  <1>2. 0 \in T
    BY <1>1
  <1>3. ASSUME NEW k \in 1 .. n, k - 1 \in T PROVE k \in T
    <2> SUFFICES ASSUME i <= k, i # k PROVE off[i] <= off[k]
      BY <1>1
    <2>1. i <= k - 1 /\ k - 1 \in 0 .. n /\ k \in 0 .. n
      BY <1>1
    <2>2. off[i] <= off[k - 1]
      BY <1>3, <2>1
    <2>3. off[k] = off[k - 1] + widths[k] /\ widths[k] \in Nat
      BY WidthFacts DEF Legal
    <2>4. QED
      BY <1>1, <2>1, <2>2, <2>3
  <1> HIDE DEF T
  <1>4. \A k \in 0 .. n : k \in T
    BY <1>1, <1>2, <1>3, InductionUpTo
  <1>5. QED
    BY <1>4 DEF T

\* Where a field lies there is nothing else.
LEMMA LaidApart ==
  ASSUME NEW fields, NEW widths, NEW off, NEW n, Legal(fields, widths, off, n),
         NEW i \in 1 .. n, NEW b \in 0 .. (widths[i] - 1)
  PROVE  off[i - 1] + b \in Laid(fields, off, n) <=> b \in fields[i].data
  <1>1. n \in Nat /\ \A k \in 0 .. n : off[k] \in Nat
    BY DEF Legal
  <1>2. \A k \in 1 .. n : /\ k - 1 \in 0 .. n /\ k \in 0 .. n /\ off[k] = off[k - 1] + widths[k]
                          /\ widths[k] \in Nat /\ fields[k].data \subseteq 0 .. (widths[k] - 1)
    BY LegalFacts
  <1>3. off[i - 1] + b \in Nat /\ (off[i - 1] + b) - off[i - 1] = b
    BY <1>1, <1>2
  <1>4. ASSUME b \in fields[i].data PROVE off[i - 1] + b \in Laid(fields, off, n)
    BY <1>3, <1>4 DEF Laid
  <1>5. ASSUME off[i - 1] + b \in Laid(fields, off, n) PROVE b \in fields[i].data
    <2>1. PICK k \in 1 .. n : (off[i - 1] + b) - off[k - 1] \in fields[k].data
      BY <1>5 DEF Laid
    <2>2. (off[i - 1] + b) - off[k - 1] \in 0 .. (widths[k] - 1)
      BY <1>2, <2>1
    <2>3. ~(i < k)
      <3> SUFFICES ASSUME i < k PROVE FALSE
        OBVIOUS
      <3>1. i <= k - 1 /\ i \in 0 .. n /\ k - 1 \in 0 .. n
        BY <1>1
      <3>2. off[i] <= off[k - 1]
        BY <3>1, OffsetsRise
      <3>3. off[i] = off[i - 1] + widths[i] /\ off[i - 1] \in Nat /\ off[k - 1] \in Nat /\ widths[i] \in Nat
        BY <1>1, <1>2
      <3>4. QED
        BY <2>2, <3>2, <3>3
    <2>4. ~(k < i)
      <3> SUFFICES ASSUME k < i PROVE FALSE
        OBVIOUS
      <3>1. k <= i - 1 /\ k \in 0 .. n /\ i - 1 \in 0 .. n
        BY <1>1
      <3>2. off[k] <= off[i - 1]
        BY <3>1, OffsetsRise
      <3>3. off[k] = off[k - 1] + widths[k] /\ off[k - 1] \in Nat /\ off[i - 1] \in Nat /\ widths[k] \in Nat
        BY <1>1, <1>2
      <3>4. QED
        BY <2>2, <3>2, <3>3
    <2>5. k = i
      BY <2>3, <2>4
    <2>6. QED
      BY <1>3, <2>1, <2>5
  <1>6. QED
    BY <1>4, <1>5

\* PackFields writes each field at its place, and nothing else.
LEMMA PacksAll ==
  ASSUME NEW fields, NEW widths, NEW off, NEW n, Legal(fields, widths, off, n)
  PROVE  P!PackFields(fields) = Laid(fields, off, n)
  <1>1. /\ n \in Nat /\ \A k \in 0 .. n : off[k] \in Nat
        /\ AccBits \in Nat /\ ByteBits \in Nat
    BY WidthFacts DEF Legal
  <1>2. \A k \in 1 .. n : /\ k - 1 \in 0 .. n /\ k \in 0 .. n /\ off[k] = off[k - 1] + widths[k]
                          /\ widths[k] \in 0 .. AccBits
                          /\ fields[k].data \subseteq 0 .. (widths[k] - 1)
    BY LegalFacts
  <1>3. \A k \in 1 .. n : /\ fields[k].data \in SUBSET Int /\ fields[k].width \in Int
                          /\ fields[k].width = widths[k]
    <2> TAKE k \in 1 .. n
    <2>1. fields[k].width = widths[k]
      BY DEF Legal
    <2>2. QED
      BY <1>1, <1>2, <2>1
  <1>4. PICK f : PackerChain(f, fields, n) /\ P!PackFields(fields) = P!flush(f[n]).bytes_
    BY <1>1, <1>3, PackingFollows DEF Legal
  <1> DEFINE L(k) == Laid(fields, off, k)
             T == {k \in 0 .. n : Writing(f[k], L(k), off[k])}
  <1>5. 0 \in T
    <2>1. f[0] = [bytes_ |-> {}, acc_ |-> {}, acc_bits_ |-> 0, at_ |-> 0]
      BY <1>4 DEF PackerChain, P!Packer
    <2>2. L(0) = {}
      BY DEF Laid
    <2>3. P!ShiftLeft({}, 0) = {}
      BY DEF P!ShiftLeft
    <2>4. off[0] = 0
      BY DEF Legal
    <2> HIDE DEF L
    <2>5. Writing(f[0], {}, 0)
      BY <1>1, <2>1, <2>3 DEF Writing
    <2>6. QED
      BY <1>1, <2>2, <2>4, <2>5
  <1>6. ASSUME NEW k \in 1 .. n, k - 1 \in T PROVE k \in T
    <2>1. f[k] = P!deposit(f[k - 1], fields[k].data, widths[k])
      BY <1>3, <1>4 DEF PackerChain
    <2>2. Writing(f[k - 1], L(k - 1), off[k - 1])
      BY <1>6
    <2>3. L(k) = L(k - 1) \union P!ShiftLeft(fields[k].data, off[k - 1])
      <3>1. \A b : b \in P!ShiftLeft(fields[k].data, off[k - 1]) <=>
                     b \in Nat /\ b - off[k - 1] \in fields[k].data
        <4>1. \A b : b \in P!ShiftLeft(fields[k].data, off[k - 1]) <=>
                       \E c \in fields[k].data : b = c + off[k - 1]
          BY DEF P!ShiftLeft
        <4>2. off[k - 1] \in Nat /\ \A c \in fields[k].data : c \in Nat
          BY <1>1, <1>2
        <4>3. QED
          BY <4>1, <4>2
      <3>2. \A i : i \in 1 .. k <=> i \in 1 .. (k - 1) \/ i = k
        BY <1>1
      <3>3. QED
        BY <3>1, <3>2 DEF Laid
    <2> HIDE DEF L
    <2>4. Writing(P!deposit(f[k - 1], fields[k].data, widths[k]),
                  L(k - 1) \union P!ShiftLeft(fields[k].data, off[k - 1]), off[k - 1] + widths[k])
      BY <1>2, <2>2, DepositWrites
    <2>5. QED
      BY <1>2, <2>1, <2>3, <2>4
  <1> HIDE DEF T
  <1>7. \A k \in 0 .. n : k \in T
    BY <1>1, <1>5, <1>6, InductionUpTo
  <1>8. Writing(f[n], L(n), off[n])
    BY <1>1, <1>7 DEF T
  <1>9. QED
    BY <1>4, <1>8, FlushWrites

\* UnpackFields gives each field back.
LEMMA UnpacksAll ==
  ASSUME NEW fields, NEW widths, NEW off, NEW n, Legal(fields, widths, off, n)
  PROVE  \A i \in 1 .. n : P!UnpackFields(P!PackFields(fields), widths)[i] = fields[i].data
  <1> DEFINE bytes == Laid(fields, off, n)
  <1>0. P!PackFields(fields) = bytes
    BY PacksAll
  <1>1. /\ n \in Nat /\ \A k \in 0 .. n : off[k] \in Nat
        /\ AccBits \in Nat /\ ByteBits \in Nat /\ packed_bits \in Nat
    BY WidthFacts, PackedBitsType DEF Legal
  <1>2. \A k \in 1 .. n : /\ k - 1 \in 0 .. n /\ k \in 0 .. n /\ off[k] = off[k - 1] + widths[k]
                          /\ widths[k] \in 0 .. (AccBits - ByteBits) /\ widths[k] \in Int
                          /\ fields[k].data \subseteq 0 .. (widths[k] - 1)
    BY LegalFacts
  <1>3. \A k \in 1 .. n : off[k] <= packed_bits
    <2> TAKE k \in 1 .. n
    <2>1. k \in 0 .. n /\ n \in 0 .. n /\ k <= n
      BY <1>1
    <2>2. off[k] <= off[n] /\ off[n] <= packed_bits
      BY <2>1, OffsetsRise DEF Legal
    <2>3. QED
      BY <1>1, <2>1, <2>2
  <1>4. bytes \in SUBSET Nat
    BY DEF Laid
  <1>5. \A k \in 1 .. n : fields[k].data = {b \in 0 .. (widths[k] - 1) : off[k - 1] + b \in bytes}
    <2> TAKE k \in 1 .. n
    <2>1. \A b \in 0 .. (widths[k] - 1) : off[k - 1] + b \in bytes <=> b \in fields[k].data
      BY LaidApart
    <2> HIDE DEF bytes
    <2>2. QED
      BY <1>2, <2>1
  <1> HIDE DEF bytes
  <1>6. PICK f : ReadingChain(f, bytes, widths, n) /\ P!UnpackFields(bytes, widths) = f[n].values
    <2>1. bytes \in SUBSET Int
      BY <1>4
    <2>2. Len(widths) = n /\ n \in Nat /\ \A i \in 1 .. n : widths[i] \in Int
      BY <1>1, <1>2 DEF Legal
    <2>3. QED
      BY <2>1, <2>2, UnpackingFollows
  <1> DEFINE Values(v, k) == v \in Seq(SUBSET Nat) /\ Len(v) = k /\ \A i \in 1 .. k : v[i] = fields[i].data
             T == {k \in 0 .. n : Reading(f[k].packer, bytes, off[k]) /\ Values(f[k].values, k)}
  <1>7. 0 \in T
    <2>1. f[0] = [packer |-> [bytes_ |-> bytes, acc_ |-> {}, acc_bits_ |-> 0, at_ |-> 0], values |-> <<>>]
      BY <1>6 DEF ReadingChain, P!Packer
    <2>2. off[0] = 0
      BY DEF Legal
    <2>3. P!Bytes \in Nat /\ ByteBits * 0 = 0
      BY <1>1, PackedBitsType
    <2>4. Reading(f[0].packer, bytes, off[0])
      <3>1. PICK p : p = f[0].packer
        OBVIOUS
      <3>2. p.bytes_ = bytes /\ p.acc_ = {} /\ p.acc_bits_ = 0 /\ p.at_ = 0
        BY <2>1, <3>1
      <3>3. p.acc_ = {b \in 0 .. (p.acc_bits_ - 1) : 0 + b \in bytes}
        BY <3>2
      <3>4. Reading(p, bytes, 0)
        BY <1>1, <2>3, <3>2, <3>3 DEF Reading
      <3>5. QED
        BY <2>2, <3>1, <3>4
    <2>5. Values(f[0].values, 0)
      BY <2>1
    <2> HIDE DEF Values
    <2>6. QED
      BY <1>1, <2>4, <2>5
  <1>8. ASSUME NEW k \in 1 .. n, k - 1 \in T PROVE k \in T
    <2> DEFINE p == f[k - 1].packer
               v == f[k - 1].values
    <2>1. Reading(p, bytes, off[k - 1]) /\ Values(v, k - 1)
      BY <1>8
    <2>2. f[k] = [packer |-> P!Extracted(p, widths[k]), values |-> Append(v, P!extract(p, widths[k]))]
      BY <1>6 DEF ReadingChain
    <2>3. off[k - 1] \in Nat /\ off[k - 1] + widths[k] <= packed_bits
      BY <1>1, <1>2, <1>3
    <2> HIDE DEF p, v
    <2>4. /\ P!extract(p, widths[k]) = {b \in 0 .. (widths[k] - 1) : off[k - 1] + b \in bytes}
          /\ Reading(P!Extracted(p, widths[k]), bytes, off[k - 1] + widths[k])
      BY <1>2, <1>4, <2>1, <2>3, ExtractReads
    <2>5. P!extract(p, widths[k]) = fields[k].data /\ fields[k].data \in SUBSET Nat
      BY <1>2, <1>5, <2>4
    <2>6. Values(Append(v, fields[k].data), k)
      <3>1. v \in Seq(SUBSET Nat) /\ Len(v) = k - 1 /\ \A i \in 1 .. (k - 1) : v[i] = fields[i].data
        BY <2>1
      <3>2. /\ Append(v, fields[k].data) \in Seq(SUBSET Nat) /\ Len(Append(v, fields[k].data)) = k
            /\ \A i \in 1 .. (k - 1) : Append(v, fields[k].data)[i] = v[i]
            /\ Append(v, fields[k].data)[k] = fields[k].data
        BY <2>5, <3>1, AppendProperties
      <3>3. QED
        BY <3>1, <3>2
    <2> HIDE DEF Values
    <2>7. f[k].packer = P!Extracted(p, widths[k]) /\ f[k].values = Append(v, fields[k].data)
      BY <2>2, <2>5
    <2>8. QED
      BY <1>2, <2>4, <2>6, <2>7
  <1> HIDE DEF T
  <1>9. \A k \in 0 .. n : k \in T
    BY <1>1, <1>7, <1>8, InductionUpTo
  <1>10. Values(f[n].values, n)
    <2> HIDE DEF Values
    <2>1. QED
      BY <1>1, <1>9 DEF T
  <1>11. QED
    BY <1>0, <1>6, <1>10

-----------------------------------------------------------------------------
(***************************************************************************)
(* The list of fields of a state: three for each snake, one for the fruit  *)
(* and one for each gadget.                                                *)
(***************************************************************************)
\* A sequence of triples, put together up to the k'th.
Joined(v, triples, k, X) ==
  /\ v \in Seq(X) /\ Len(v) = 3 * k
  /\ \A i \in 1 .. k : /\ v[3 * i - 2] = triples[i][1]
                       /\ v[3 * i - 1] = triples[i][2]
                       /\ v[3 * i]     = triples[i][3]

\* Where the elements of two sequences are when one follows the other.
LEMMA ConcatParts ==
  ASSUME NEW X, NEW s \in Seq(X), NEW t \in Seq(X)
  PROVE  /\ s \o t \in Seq(X) /\ Len(s \o t) = Len(s) + Len(t)
         /\ \A i \in 1 .. Len(s) : (s \o t)[i] = s[i]
         /\ \A i \in 1 .. Len(t) : (s \o t)[Len(s) + i] = t[i]
  <1> DEFINE w == s \o t
  <1>1. /\ w \in Seq(X) /\ Len(w) = Len(s) + Len(t)
        /\ \A i \in 1 .. (Len(s) + Len(t)) : w[i] = IF i <= Len(s) THEN s[i] ELSE t[i - Len(s)]
    BY ConcatProperties
  <1>2. Len(s) \in Nat /\ Len(t) \in Nat
    BY LenProperties
  <1> HIDE DEF w
  <1>3. \A i \in 1 .. Len(s) : w[i] = s[i]
    BY <1>1, <1>2
  <1>4. ASSUME NEW i \in 1 .. Len(t) PROVE w[Len(s) + i] = t[i]
    <2>1. Len(s) + i \in 1 .. (Len(s) + Len(t)) /\ ~(Len(s) + i <= Len(s)) /\ (Len(s) + i) - Len(s) = i
      BY <1>2
    <2>2. QED
      BY <1>1, <2>1
  <1>5. QED
    BY <1>1, <1>3, <1>4 DEF w

\* One more triple.
LEMMA JoinedMore ==
  ASSUME NEW X, NEW triples, NEW k \in Nat, NEW v, Joined(v, triples, k, X),
         triples[k + 1] \in Seq(X), Len(triples[k + 1]) = 3
  PROVE  Joined(v \o triples[k + 1], triples, k + 1, X)
  <1> DEFINE t == triples[k + 1]
             w == v \o t
  <1>0. v \in Seq(X) /\ t \in Seq(X)
    BY DEF Joined
  <1>1. Len(v) = 3 * k /\ Len(t) = 3
    BY DEF Joined
  <1> HIDE DEF t
  <1>2. /\ w \in Seq(X) /\ Len(w) = 3 * k + 3
        /\ \A i \in 1 .. (3 * k) : w[i] = v[i]
        /\ \A i \in 1 .. 3 : w[3 * k + i] = t[i]
    <2>1. /\ w \in Seq(X) /\ Len(w) = Len(v) + Len(t)
          /\ \A i \in 1 .. Len(v) : w[i] = v[i]
          /\ \A i \in 1 .. Len(t) : w[Len(v) + i] = t[i]
      BY <1>0, ConcatParts
    <2> HIDE DEF w
    <2>2. QED
      BY <1>0, <1>1, <2>1
  <1> HIDE DEF w
  <1>3. ASSUME NEW i \in 1 .. (k + 1)
        PROVE  /\ w[3 * i - 2] = triples[i][1] /\ w[3 * i - 1] = triples[i][2]
               /\ w[3 * i] = triples[i][3]
    <2>1. CASE i = k + 1
      <3>1. w[3 * i - 2] = t[1] /\ w[3 * i - 1] = t[2] /\ w[3 * i] = t[3]
        <4>1. 3 * i - 2 = 3 * k + 1 /\ 3 * i - 1 = 3 * k + 2 /\ 3 * i = 3 * k + 3
          BY <2>1
        <4>2. w[3 * k + 1] = t[1] /\ w[3 * k + 2] = t[2] /\ w[3 * k + 3] = t[3]
          BY <1>2
        <4>3. QED
          BY <4>1, <4>2
      <3>2. QED
        BY <2>1, <3>1 DEF t
    <2>2. CASE i # k + 1
      <3>1. i \in 1 .. k
        BY <2>2
      <3>2. w[3 * i - 2] = v[3 * i - 2] /\ w[3 * i - 1] = v[3 * i - 1] /\ w[3 * i] = v[3 * i]
        BY <1>2, <3>1
      <3>3. QED
        BY <3>1, <3>2 DEF Joined
    <2>3. QED
      BY <2>1, <2>2
  <1>4. Len(w) = 3 * (k + 1)
    BY <1>2
  <1>5. Joined(w, triples, k + 1, X)
    BY <1>2, <1>3, <1>4 DEF Joined
  <1>6. QED
    BY <1>5 DEF w, t

\* FlattenSeq puts the triples one after another.
LEMMA FlattensTriples ==
  ASSUME NEW X, NEW m \in Nat \ {0}, NEW triples, Len(triples) = m,
         \A i \in 1 .. m : triples[i] \in Seq(X) /\ Len(triples[i]) = 3
  PROVE  Joined(FlattenSeq(triples), triples, m, X)
  <1> DEFINE Body(f) == [i \in 1 .. m |-> IF i = 1 THEN triples[i] ELSE f[i - 1] \o triples[i]]
             step == [x \in Nat \X Seq(X) |-> IF x[1] \in 1 .. m THEN x[2] \o triples[x[1]] ELSE x[2]]
             h == CHOOSE f : f = Body(f)
  <1>1. FlattenSeq(triples) = h[m]
    <2>1. Len(triples) # 0
      OBVIOUS
    <2>2. FlattenSeq(triples) = (CHOOSE f : f = [i \in 1 .. Len(triples) |->
                                     IF i = 1 THEN triples[i] ELSE f[i - 1] \o triples[i]])[Len(triples)]
      BY <2>1 DEF FlattenSeq
    <2>3. QED
      BY <2>2
  <1>2. \E f : f = Body(f)
    <2>1. <<>> \in Seq(X)
      BY EmptySeq
    <2>2. step \in [Nat \X Seq(X) -> Seq(X)]
      <3>1. \A s, t \in Seq(X) : s \o t \in Seq(X)
        BY ConcatProperties
      <3>2. QED
        BY <3>1
    <2>3. PICK g : Follows(g, m, Seq(X), <<>>, step)
      <3> HIDE DEF step
      <3>1. QED
        BY <2>1, <2>2, FollowsExists
    <2>4. \A i \in 1 .. m : g[i - 1] \in Seq(X) /\ g[i] = g[i - 1] \o triples[i]
      <3> TAKE i \in 1 .. m
      <3>1. i \in Nat /\ i - 1 \in 0 .. m
        OBVIOUS
      <3>2. g[i - 1] \in Seq(X) /\ g[i] = step[<<i, g[i - 1]>>]
        BY <2>3, <3>1 DEF Follows
      <3>3. QED
        BY <3>1, <3>2
    <2> DEFINE f == [i \in 1 .. m |-> g[i]]
    <2>5. ASSUME NEW i \in 1 .. m PROVE g[i] = IF i = 1 THEN triples[i] ELSE f[i - 1] \o triples[i]
      <3>1. CASE i = 1
        <4>1. g[0] = <<>> /\ g[1] = g[0] \o triples[1]
          <5>1. 1 \in 1 .. m /\ 1 - 1 = 0
            BY <3>1
          <5>2. g[1] = g[1 - 1] \o triples[1]
            BY <2>4, <5>1
          <5>3. QED
            BY <2>3, <5>1, <5>2 DEF Follows
        <4>2. <<>> \o triples[1] = triples[1]
          BY <3>1, ConcatEmptySeq
        <4>3. QED
          BY <3>1, <4>1, <4>2
      <3>2. CASE i # 1
        <4>1. i - 1 \in 1 .. m
          BY <3>2
        <4>2. QED
          BY <2>4, <3>2, <4>1
      <3>3. QED
        BY <3>1, <3>2
    <2>6. f = Body(f)
      BY <2>5
    <2>7. QED
      BY <2>6
  <1>3. h = Body(h)
    <2> HIDE DEF Body
    <2>1. QED
      BY <1>2
  <1> HIDE DEF h
  <1>4. \A i \in 1 .. m : h[i] = IF i = 1 THEN triples[i] ELSE h[i - 1] \o triples[i]
    BY <1>3
  <1> DEFINE T == {k \in 0 .. m : k = 0 \/ Joined(h[k], triples, k, X)}
  <1>5. 0 \in T
    OBVIOUS
  <1>6. ASSUME NEW k \in 1 .. m, k - 1 \in T PROVE k \in T
    <2>1. CASE k = 1
      <3>1. Joined(<<>>, triples, 0, X)
        BY EmptySeq DEF Joined
      <3>2. triples[0 + 1] \in Seq(X) /\ Len(triples[0 + 1]) = 3
        BY <2>1
      <3>3. Joined(<<>> \o triples[0 + 1], triples, 0 + 1, X)
        BY <3>1, <3>2, JoinedMore
      <3>4. <<>> \o triples[1] = h[1]
        BY <1>4, <2>1, ConcatEmptySeq
      <3>5. QED
        BY <2>1, <3>3, <3>4
    <2>2. CASE k # 1
      <3> DEFINE j == k - 1
      <3>1. j \in 1 .. m /\ j + 1 = k /\ j \in Nat /\ j # 0
        BY <2>2
      <3>2. Joined(h[j], triples, j, X) /\ h[k] = h[j] \o triples[k]
        BY <1>4, <1>6, <2>2, <3>1
      <3> HIDE DEF j
      <3>3. triples[j + 1] \in Seq(X) /\ Len(triples[j + 1]) = 3
        BY <3>1
      <3>4. Joined(h[j] \o triples[j + 1], triples, j + 1, X)
        BY <3>1, <3>2, <3>3, JoinedMore
      <3>5. h[j] \o triples[j + 1] = h[k]
        BY <3>1, <3>2
      <3>6. Joined(h[k], triples, k, X)
        BY <3>1, <3>4, <3>5
      <3>7. QED
        BY <3>6
    <2>3. QED
      BY <2>1, <2>2
  <1> HIDE DEF T
  <1>7. \A k \in 0 .. m : k \in T
    BY <1>5, <1>6, InductionUpTo
  <1>8. QED
    BY <1>1, <1>7 DEF T

\* A list of what goes with each snake, with the fruit, and with each gadget.
Listed(v, triples, m, one, others, k) ==
  /\ Len(v) = 3 * m + 1 + k
  /\ \A i \in 1 .. m : /\ v[3 * i - 2] = triples[i][1]
                       /\ v[3 * i - 1] = triples[i][2]
                       /\ v[3 * i]     = triples[i][3]
  /\ v[3 * m + 1] = one
  /\ \A i \in 1 .. k : v[3 * m + 1 + i] = others[i]

\* The list a state makes: triples, one element, and the others.
LEMMA Lists ==
  ASSUME NEW X, NEW m \in Nat \ {0}, NEW triples, Len(triples) = m,
         \A i \in 1 .. m : triples[i] \in Seq(X) /\ Len(triples[i]) = 3,
         NEW one \in X, NEW k \in Nat, NEW others \in [1 .. k -> X]
  PROVE  Listed(FlattenSeq(triples) \o <<one>> \o others, triples, m, one, others, k)
  <1> DEFINE u == FlattenSeq(triples)
             v == u \o <<one>>
             w == v \o others
  <1>1. Joined(u, triples, m, X)
    BY FlattensTriples
  <1>2. u \in Seq(X) /\ Len(u) = 3 * m /\ <<one>> \in Seq(X) /\ Len(<<one>>) = 1 /\ <<one>>[1] = one
    BY <1>1 DEF Joined
  <1>3. others \in Seq(X) /\ Len(others) = k
    BY SeqDef, LenProperties
  <1>0. others \in Seq(X)
    BY <1>3
  <1> HIDE DEF u
  <1>4. /\ v \in Seq(X) /\ Len(v) = 3 * m + 1
        /\ \A i \in 1 .. (3 * m) : v[i] = u[i]
        /\ \A i \in 1 .. 1 : v[3 * m + i] = <<one>>[i]
    <2> DEFINE t == <<one>>
    <2>0. t \in Seq(X) /\ u \in Seq(X)
      BY <1>2
    <2>1. Len(t) = 1
      BY <1>2
    <2> HIDE DEF t
    <2>2. /\ u \o t \in Seq(X) /\ Len(u \o t) = Len(u) + Len(t)
          /\ \A i \in 1 .. Len(u) : (u \o t)[i] = u[i]
          /\ \A i \in 1 .. Len(t) : (u \o t)[Len(u) + i] = t[i]
      BY <2>0, ConcatParts
    <2>3. v = u \o t
      BY DEF t
    <2> HIDE DEF v
    <2>4. QED
      BY <1>2, <2>1, <2>2, <2>3 DEF t
  <1> HIDE DEF v
  <1>5. /\ Len(w) = 3 * m + 1 + k
        /\ \A i \in 1 .. (3 * m + 1) : w[i] = v[i]
        /\ \A i \in 1 .. k : w[3 * m + 1 + i] = others[i]
    <2>1. /\ w \in Seq(X) /\ Len(w) = Len(v) + Len(others)
          /\ \A i \in 1 .. Len(v) : w[i] = v[i]
          /\ \A i \in 1 .. Len(others) : w[Len(v) + i] = others[i]
      <3>1. v \in Seq(X)
        BY <1>4
      <3>2. QED
        BY <1>0, <3>1, ConcatParts
    <2> HIDE DEF w
    <2>2. QED
      BY <1>3, <1>4, <2>1
  <1> HIDE DEF w
  <1>6. ASSUME NEW i \in 1 .. m
        PROVE  /\ w[3 * i - 2] = triples[i][1] /\ w[3 * i - 1] = triples[i][2]
               /\ w[3 * i] = triples[i][3]
    <2>1. /\ w[3 * i - 2] = v[3 * i - 2] /\ w[3 * i - 1] = v[3 * i - 1] /\ w[3 * i] = v[3 * i]
      BY <1>5
    <2>2. /\ v[3 * i - 2] = u[3 * i - 2] /\ v[3 * i - 1] = u[3 * i - 1] /\ v[3 * i] = u[3 * i]
      BY <1>4
    <2>3. QED
      BY <1>1, <2>1, <2>2 DEF Joined
  <1>7. w[3 * m + 1] = one
    <2>1. w[3 * m + 1] = v[3 * m + 1]
      BY <1>5
    <2>2. v[3 * m + 1] = <<one>>[1]
      BY <1>4
    <2>3. QED
      BY <1>2, <2>1, <2>2
  <1>8. ASSUME NEW i \in 1 .. k PROVE w[3 * m + 1 + i] = others[i]
    BY <1>5
  <1>9. Listed(w, triples, m, one, others, k)
    BY <1>5, <1>6, <1>7, <1>8 DEF Listed
  <1>10. QED
    BY <1>9 DEF u, v, w

-----------------------------------------------------------------------------
(***************************************************************************)
(* Where each field of a packed state begins.                              *)
(***************************************************************************)
\* The fields of a packed state, and where each of them begins.
FieldCount == 3 * SnakeCount + 1 + GadgetCount

SnakeBits == kTailBits + kIndexBits + kLenBits

Offset ==
  [i \in 0 .. FieldCount |->
     IF i <= 3 * SnakeCount
       THEN SnakeBits * (i \div 3)
              + (IF i % 3 = 0 THEN 0 ELSE IF i % 3 = 1 THEN kTailBits ELSE kTailBits + kIndexBits)
       ELSE SnakeBits * SnakeCount + FruitCount + kIndexBits * (i - 3 * SnakeCount - 1)]

\* How many fields there are, and the range of their widths.
LEMMA CountFacts ==
  /\ SnakeCount \in Nat \ {0} /\ GadgetCount \in Nat /\ FruitCount \in Nat /\ FieldCount \in Nat
  /\ kTailBits \in Nat /\ kIndexBits \in Nat /\ kLenBits \in Nat /\ SnakeBits \in Nat
  <1>1. SnakeCount \in Nat \ {0} /\ GadgetCount \in Nat /\ FruitCount \in Nat
    BY SetupAssumption DEF LegalSetup
  <1>2. kTailBits \in Nat /\ kIndexBits \in Nat /\ kLenBits \in Nat
    BY WidthFacts
  <1>3. QED
    BY <1>1, <1>2 DEF FieldCount, SnakeBits

\* Every field is of a snake, the fruit, or a gadget.
LEMMA EachField ==
  ASSUME NEW i \in 1 .. FieldCount
  PROVE  \/ \E s \in Snakes : i = 3 * s - 2 \/ i = 3 * s - 1 \/ i = 3 * s
         \/ i = 3 * SnakeCount + 1
         \/ \E j \in 1 .. GadgetCount : i = 3 * SnakeCount + 1 + j
  <1>1. CASE i <= 3 * SnakeCount
    <2> DEFINE s == (i + 2) \div 3
    <2>1. s \in Nat /\ s >= 1 /\ s <= SnakeCount /\ (i = 3 * s - 2 \/ i = 3 * s - 1 \/ i = 3 * s)
      BY <1>1, CountFacts
    <2>2. QED
      BY <2>1 DEF Snakes
  <1>2. CASE i > 3 * SnakeCount + 1
    <2> DEFINE j == i - (3 * SnakeCount + 1)
    <2>1. j \in 1 .. GadgetCount /\ i = 3 * SnakeCount + 1 + j
      BY <1>2, CountFacts DEF FieldCount
    <2>2. QED
      BY <2>1
  <1>3. QED
    BY <1>1, <1>2, CountFacts

\* The fields of a snake follow one another, after those of the snakes before it.
LEMMA OffsetsOfSnake ==
  ASSUME NEW s \in Snakes
  PROVE  /\ Offset[3 * s - 3] = SnakeBits * (s - 1)
         /\ Offset[3 * s - 2] = SnakeBits * (s - 1) + kTailBits
         /\ Offset[3 * s - 1] = SnakeBits * (s - 1) + kTailBits + kIndexBits
         /\ Offset[3 * s]     = SnakeBits * s
         /\ SnakeBits * (s - 1) \in Nat
         /\ SnakeBits * s = SnakeBits * (s - 1) + kTailBits + kIndexBits + kLenBits
  <1>1. s \in Nat /\ s >= 1 /\ s <= SnakeCount
    BY CountFacts DEF Snakes
  <1>2. /\ 3 * s - 3 \in 0 .. FieldCount /\ 3 * s - 2 \in 0 .. FieldCount
        /\ 3 * s - 1 \in 0 .. FieldCount /\ 3 * s \in 0 .. FieldCount
        /\ 3 * s <= 3 * SnakeCount
    BY <1>1, CountFacts DEF FieldCount
  <1>3. /\ (3 * s - 3) \div 3 = s - 1 /\ (3 * s - 3) % 3 = 0
        /\ (3 * s - 2) \div 3 = s - 1 /\ (3 * s - 2) % 3 = 1
        /\ (3 * s - 1) \div 3 = s - 1 /\ (3 * s - 1) % 3 = 2
        /\ (3 * s) \div 3 = s /\ (3 * s) % 3 = 0
    BY <1>1
  <1>4. SnakeBits * (s - 1) \in Nat /\ SnakeBits * s \in Nat /\ SnakeBits * s = SnakeBits * (s - 1) + SnakeBits
    BY <1>1, CountFacts
  <1> DEFINE m == SnakeBits * (s - 1)
             n == SnakeBits * s
  <1>5. Offset[3 * s - 3] = m + 0
    BY <1>1, <1>2, <1>3, CountFacts DEF Offset
  <1>6. Offset[3 * s - 2] = m + kTailBits
    BY <1>1, <1>2, <1>3, CountFacts DEF Offset
  <1>7. Offset[3 * s - 1] = m + (kTailBits + kIndexBits)
    BY <1>1, <1>2, <1>3, CountFacts DEF Offset
  <1>8. Offset[3 * s] = n + 0
    BY <1>1, <1>2, <1>3, CountFacts DEF Offset
  <1>9. n = m + kTailBits + kIndexBits + kLenBits
    <2>1. SnakeBits = kTailBits + kIndexBits + kLenBits
      BY DEF SnakeBits
    <2> HIDE DEF m, n
    <2>2. n = m + SnakeBits /\ m \in Nat
      BY <1>4 DEF m, n
    <2>3. QED
      BY <2>1, <2>2, CountFacts
  <1>10. m \in Nat /\ n \in Nat
    BY <1>4
  <1> HIDE DEF m, n
  <1>11. Offset[3 * s - 3] = m /\ Offset[3 * s] = n
         /\ Offset[3 * s - 1] = m + kTailBits + kIndexBits
    BY <1>5, <1>7, <1>8, <1>10, CountFacts
  <1>12. QED
    BY <1>6, <1>9, <1>10, <1>11 DEF m, n

\* Those of the fruit and of the gadgets follow the snakes.
LEMMA OffsetsOfOthers ==
  /\ Offset[0] = 0 /\ Offset[FieldCount] = packed_bits
  /\ Offset[3 * SnakeCount + 1] = Offset[3 * SnakeCount] + FruitCount
  /\ \A j \in 1 .. GadgetCount :
       Offset[3 * SnakeCount + 1 + j] = Offset[3 * SnakeCount + j] + kIndexBits
  <1> DEFINE first == SnakeBits * SnakeCount + FruitCount
  <1>1. SnakeBits * SnakeCount \in Nat /\ first \in Nat
    BY CountFacts
  <1>2. ASSUME NEW j \in 0 .. GadgetCount
        PROVE  Offset[3 * SnakeCount + 1 + j] = first + kIndexBits * j /\ kIndexBits * j \in Nat
    <2>1. 3 * SnakeCount + 1 + j \in 0 .. FieldCount /\ ~(3 * SnakeCount + 1 + j <= 3 * SnakeCount)
          /\ (3 * SnakeCount + 1 + j) - 3 * SnakeCount - 1 = j
      BY CountFacts DEF FieldCount
    <2>2. kIndexBits * j \in Nat
      BY CountFacts
    <2>3. QED
      BY <2>1, <2>2 DEF Offset
  <1>3. Offset[0] = 0
    <2>1. 1 \in Snakes /\ 3 * 1 - 3 = 0 /\ 1 - 1 = 0
      BY CountFacts DEF Snakes
    <2>2. Offset[0] = SnakeBits * 0
      BY <2>1, OffsetsOfSnake
    <2>3. QED
      BY <2>2, CountFacts
  <1>4. Offset[3 * SnakeCount] = SnakeBits * SnakeCount
    <2>1. SnakeCount \in Snakes
      BY CountFacts DEF Snakes
    <2>2. QED
      BY <2>1, OffsetsOfSnake
  <1>5. Offset[3 * SnakeCount + 1] = Offset[3 * SnakeCount] + FruitCount
    <2>1. 0 \in 0 .. GadgetCount /\ 3 * SnakeCount + 1 + 0 = 3 * SnakeCount + 1 /\ kIndexBits * 0 = 0
      BY CountFacts
    <2>2. Offset[3 * SnakeCount + 1 + 0] = first + kIndexBits * 0
      BY <1>2, <2>1
    <2>3. QED
      BY <1>1, <1>4, <2>1, <2>2
  <1>6. Offset[FieldCount] = packed_bits
    <2>1. GadgetCount \in 0 .. GadgetCount /\ FieldCount = 3 * SnakeCount + 1 + GadgetCount
      BY CountFacts DEF FieldCount
    <2>2. Offset[FieldCount] = first + kIndexBits * GadgetCount
      BY <1>2, <2>1
    <2>3. QED
      BY <2>2 DEF packed_bits, SnakeBits
  <1>7. ASSUME NEW j \in 1 .. GadgetCount
        PROVE  Offset[3 * SnakeCount + 1 + j] = Offset[3 * SnakeCount + j] + kIndexBits
    <2>1. j - 1 \in 0 .. GadgetCount /\ j \in 0 .. GadgetCount
          /\ 3 * SnakeCount + 1 + (j - 1) = 3 * SnakeCount + j
      BY CountFacts
    <2>2. Offset[3 * SnakeCount + 1 + j] = first + kIndexBits * j /\ kIndexBits * j \in Nat
      BY <1>2, <2>1
    <2>3. Offset[3 * SnakeCount + j] = first + kIndexBits * (j - 1) /\ kIndexBits * (j - 1) \in Nat
      BY <1>2, <2>1
    <2>4. kIndexBits * j = kIndexBits * (j - 1) + kIndexBits
      BY CountFacts
    <2>5. QED
      BY <1>1, <2>2, <2>3, <2>4, CountFacts
  <1>8. QED
    BY <1>3, <1>5, <1>6, <1>7

\* Every offset is a number of bits.
LEMMA OffsetsType == Offset \in [0 .. FieldCount -> Nat]
  <1>1. ASSUME NEW i \in 0 .. FieldCount PROVE Offset[i] \in Nat
    <2>1. i \div 3 \in Nat
      BY DivisionFacts
    <2>2. SnakeBits * (i \div 3) \in Nat /\ SnakeBits * SnakeCount \in Nat
      BY <2>1, CountFacts
    <2>3. CASE i <= 3 * SnakeCount
      BY <2>2, <2>3, CountFacts DEF Offset
    <2>4. CASE ~(i <= 3 * SnakeCount)
      <3>1. i - 3 * SnakeCount - 1 \in Nat
        BY <2>4, CountFacts
      <3>2. kIndexBits * (i - 3 * SnakeCount - 1) \in Nat
        BY <3>1, CountFacts
      <3>3. QED
        BY <2>2, <2>4, <3>2, CountFacts DEF Offset
    <2>5. QED
      BY <2>3, <2>4
  <1>2. QED
    BY <1>1 DEF Offset

\* The list of widths.
LEMMA WidthsListed ==
  Listed(FieldWidths, [s \in Snakes |-> <<kTailBits, kIndexBits, kLenBits>>], SnakeCount,
         FruitCount, [i \in 1 .. GadgetCount |-> kIndexBits], GadgetCount)
  <1> DEFINE triples == [s \in Snakes |-> <<kTailBits, kIndexBits, kLenBits>>]
             others == [i \in 1 .. GadgetCount |-> kIndexBits]
  <1>1. Len(triples) = SnakeCount /\ others \in [1 .. GadgetCount -> Nat]
    BY CountFacts DEF Snakes
  <1>2. \A i \in 1 .. SnakeCount : triples[i] \in Seq(Nat) /\ Len(triples[i]) = 3
    BY CountFacts DEF Snakes
  <1>3. FieldWidths = FlattenSeq(triples) \o <<FruitCount>> \o others
    BY DEF FieldWidths
  <1> HIDE DEF triples, others
  <1>4. QED
    BY <1>1, <1>2, <1>3, CountFacts, Lists DEF triples, others

-----------------------------------------------------------------------------
(***************************************************************************)
(* Every field of a state that is reached fits its width.                  *)
(***************************************************************************)
\* A map has a cell.
LEMMA MapSizePositive == MapSize \in Nat \ {0}
  <1>1. H \in Nat \ {0} /\ W \in Nat \ {0}
    BY SetupAssumption DEF LegalSetup
  <1>2. H * W \in Nat \ {0}
    BY <1>1
  <1>3. QED
    BY <1>2 DEF MapSize

\* A fruit is packed as the number of fruit before it on the map.
FruitBefore(c) == Cardinality({d \in Fruit : d < c})

\* No two fruit have the same place, and every place is a bit of the field.
LEMMA FruitPlaces ==
  /\ \A c \in Fruit : FruitBefore(c) \in 0 .. (FruitCount - 1)
  /\ \A c, d \in Fruit : FruitBefore(c) = FruitBefore(d) => c = d
  <1>1. Fruit \subseteq Int /\ IsFiniteSet(Fruit) /\ Cardinality(Fruit) = FruitCount
    <2>1. Fruit \subseteq Coord /\ Cardinality(Fruit) = FruitCount
      BY TerrainAssumption DEF LegalTerrain
    <2>2. Coord \subseteq Int /\ IsFiniteSet(Coord)
      BY MapSizeType, FS_Interval DEF Coord
    <2>3. QED
      BY <2>1, <2>2, FS_Subset
  <1>2. /\ Cardinality(Fruit) \in Nat
        /\ \A x \in Fruit : Place(Fruit, x) \in 1 .. Cardinality(Fruit)
        /\ \A x, y \in Fruit : x < y => Place(Fruit, x) < Place(Fruit, y)
    BY <1>1, PlaceFacts
  <1>3. ASSUME NEW c \in Fruit PROVE FruitBefore(c) \in Int /\ Place(Fruit, c) = FruitBefore(c) + 1
    <2> DEFINE before == {d \in Fruit : d < c}
    <2>1. IsFiniteSet(before) /\ c \notin before
      <3>1. c \in Int
        BY <1>1
      <3>2. before \subseteq Fruit /\ c \notin before
        BY <3>1
      <3>3. QED
        BY <1>1, <3>2, FS_Subset
    <2>2. Upto(Fruit, c) = before \union {c}
      <3>1. \A d \in Fruit : d <= c <=> d < c \/ d = c
        BY <1>1
      <3>2. QED
        BY <3>1 DEF Upto
    <2> HIDE DEF before
    <2>3. Cardinality(before) \in Nat /\ Cardinality(before \union {c}) = Cardinality(before) + 1
      BY <2>1, FS_AddElement, FS_CardinalityType
    <2>4. QED
      BY <2>2, <2>3 DEF Place, FruitBefore, before
  <1>4. ASSUME NEW c \in Fruit PROVE FruitBefore(c) \in 0 .. (FruitCount - 1)
    BY <1>1, <1>2, <1>3
  <1>5. ASSUME NEW c \in Fruit, NEW d \in Fruit, FruitBefore(c) = FruitBefore(d) PROVE c = d
    <2>1. c \in Int /\ d \in Int
      BY <1>1
    <2>2. Place(Fruit, c) = Place(Fruit, d) /\ Place(Fruit, c) \in Int
      BY <1>2, <1>3, <1>5
    <2>3. ~(c < d) /\ ~(d < c)
      BY <1>2, <2>2
    <2>4. QED
      BY <2>1, <2>3
  <1>6. QED
    BY <1>4, <1>5

\* The numbers in the fields, and their bits.
LEMMA NumberFits ==
  ASSUME NEW w \in Nat, NEW n \in Nat, n < 2 ^ w
  PROVE  BitsOf(n) \in SUBSET Nat /\ BitsOf(n) \subseteq 0 .. (w - 1) /\ NumberOf(BitsOf(n), w) = n
  <1>1. BitsOf(n) = {b \in 0 .. w - 1 : IsSet(b, n)}
    BY BitsBelow
  <1>2. QED
    BY <1>1, NumberOfItsBits

\* A cell fits the field of a head.
LEMMA IndexFits == \A c \in Coord : c \in Nat /\ c < 2 ^ kIndexBits
  <1>1. MapSize < 2 ^ kIndexBits
    BY MapSizePositive, LengthFound DEF kIndexBits
  <1>2. 2 ^ kIndexBits \in Nat
    BY PowerFacts, CountFacts
  <1>3. QED
    BY <1>1, <1>2, MapSizePositive DEF Coord

\* A length fits its field.
LEMMA LengthFits == \A n \in 0 .. SnakeMaxLen : n \in Nat /\ n < 2 ^ kLenBits
  <1>1. SnakeMaxLen \in Nat \ {0}
    BY SetupAssumption DEF LegalSetup
  <1>2. SnakeMaxLen < 2 ^ kLenBits
    BY <1>1, LengthFound DEF kLenBits
  <1>3. 2 ^ kLenBits \in Nat
    BY PowerFacts, CountFacts
  <1>4. QED
    BY <1>1, <1>2, <1>3

\* A snake, as State::pack finds it.
LEMMA SnakeFits ==
  ASSUME Inv, SnakeInv, TailInv, NEW s \in Snakes
  PROVE  /\ tail_[s] \in SUBSET Nat /\ tail_[s] \subseteq 0 .. (kTailBits - 1)
         /\ HeadCell(s) \in Coord /\ Len(snakes[s]) \in 0 .. SnakeMaxLen
  <1>1. snakes[s] \in Seq(Coord) /\ Describes(tail_[s], snakes[s])
    BY DEF Inv, TypeOK, TailInv
  <1> DEFINE n == Len(snakes[s])
  <1>2. n \in Nat /\ snakes[s] \in [1 .. n -> Coord]
    BY <1>1, LenProperties
  <1>3. n <= SnakeMaxLen /\ SnakeMaxLen \in Nat
    <2>1. n + Cardinality(fruit) <= SnakeMaxLen /\ Cardinality(fruit) \in Nat /\ SnakeMaxLen \in Nat
      BY SnakeInvFacts, FruitIsFinite, SetupAssumption DEF LegalSetup
    <2> HIDE DEF n
    <2>2. QED
      BY <1>2, <2>1 DEF n
  <1>4. tail_[s] \in SUBSET Nat /\ tail_[s] \subseteq 0 .. (2 * (n - 1) - 1)
    BY <1>1 DEF Describes, kDirBits
  <1>5. kTailBits = 2 * (SnakeMaxLen - 1)
    BY <1>3 DEF kTailBits, kDirBits
  <1>6. HeadCell(s) \in Coord
    <2>1. CASE snakes[s] = <<>>
      BY <2>1, MapSizePositive DEF HeadCell, Coord
    <2>2. CASE snakes[s] # <<>>
      <3>1. n # 0
        BY <1>1, <2>2, EmptySeq
      <3>2. 1 \in 1 .. n
        BY <1>2, <3>1
      <3>3. QED
        BY <1>2, <2>2, <3>2 DEF HeadCell
    <2>3. QED
      BY <2>1, <2>2
  <1> HIDE DEF n
  <1>7. tail_[s] \subseteq 0 .. (kTailBits - 1)
    BY <1>2, <1>3, <1>4, <1>5
  <1>8. QED
    BY <1>2, <1>3, <1>4, <1>6, <1>7 DEF n

\* The list of fields.
LEMMA FieldsListed ==
  ASSUME Inv, SnakeInv, TailInv
  PROVE  Listed(Fields, [s \in Snakes |-> SnakeFields(s)], SnakeCount, Field(fruit_bits(fruit), FruitCount),
                [i \in 1 .. GadgetCount |-> Field(BitsOf(gadgets[SnakeCount + i]), kIndexBits)], GadgetCount)
  <1> DEFINE X == [data : SUBSET Nat, width : Nat]
             triples == [s \in Snakes |-> SnakeFields(s)]
             one == Field(fruit_bits(fruit), FruitCount)
             others == [i \in 1 .. GadgetCount |-> Field(BitsOf(gadgets[SnakeCount + i]), kIndexBits)]
  <1>1. Len(triples) = SnakeCount
    BY CountFacts DEF Snakes
  <1>2. ASSUME NEW s \in Snakes PROVE SnakeFields(s) \in Seq(X) /\ Len(SnakeFields(s)) = 3
    <2>1. tail_[s] \in SUBSET Nat /\ HeadCell(s) \in Coord /\ Len(snakes[s]) \in 0 .. SnakeMaxLen
      BY SnakeFits
    <2>2. BitsOf(HeadCell(s)) \in SUBSET Nat
      BY <2>1, CountFacts, IndexFits, NumberFits
    <2>3. BitsOf(Len(snakes[s])) \in SUBSET Nat
      BY <2>1, CountFacts, LengthFits, NumberFits
    <2>4. /\ Field(tail_[s], kTailBits) \in X /\ Field(BitsOf(HeadCell(s)), kIndexBits) \in X
          /\ Field(BitsOf(Len(snakes[s])), kLenBits) \in X
      BY <2>1, <2>2, <2>3, CountFacts DEF Field
    <2> HIDE DEF X
    <2>5. QED
      BY <2>4 DEF SnakeFields
  <1>3. \A i \in 1 .. SnakeCount : triples[i] \in Seq(X) /\ Len(triples[i]) = 3
    <2> HIDE DEF X
    <2>1. QED
      BY <1>2 DEF Snakes
  <1>4. one \in X
    <2>1. fruit \subseteq Fruit
      BY DEF Inv, TypeOK
    <2>2. fruit_bits(fruit) \in SUBSET Nat
      <3>1. \A c \in fruit : Cardinality({d \in Fruit : d < c}) \in Nat
        BY <2>1, FruitPlaces, CountFacts DEF FruitBefore
      <3>2. QED
        BY <3>1 DEF fruit_bits
    <2>3. QED
      BY <2>2, CountFacts DEF Field
  <1>5. others \in [1 .. GadgetCount -> X]
    <2>1. ASSUME NEW i \in 1 .. GadgetCount
          PROVE  Field(BitsOf(gadgets[SnakeCount + i]), kIndexBits) \in X
      <3>1. SnakeCount + i \in Gadgets
        BY CountFacts DEF Gadgets, ObjCount
      <3>2. gadgets[SnakeCount + i] \in Coord
        BY <3>1 DEF Inv, TypeOK
      <3>3. BitsOf(gadgets[SnakeCount + i]) \in SUBSET Nat
        BY <3>2, CountFacts, IndexFits, NumberFits
      <3>4. QED
        BY <3>3, CountFacts DEF Field
    <2> HIDE DEF X
    <2>2. QED
      BY <2>1
  <1>6. Fields = FlattenSeq(triples) \o <<one>> \o others
    BY DEF Fields
  <1> HIDE DEF triples, others, one, X
  <1>7. Listed(FlattenSeq(triples) \o <<one>> \o others, triples, SnakeCount, one, others, GadgetCount)
    BY <1>1, <1>3, <1>4, <1>5, CountFacts, Lists
  <1>8. QED
    BY <1>6, <1>7 DEF triples, others, one

-----------------------------------------------------------------------------
(***************************************************************************)
(* State::unpack undoes State::pack.                                       *)
(***************************************************************************)
\* The fields of a state that is reached fit, each at its offset.
LEMMA FieldsLegal ==
  ASSUME Inv, SnakeInv, TailInv
  PROVE  Legal(Fields, FieldWidths, Offset, FieldCount)
  <1> DEFINE Ok(i) == /\ FieldWidths[i] \in 0 .. (AccBits - ByteBits)
                      /\ Fields[i].width = FieldWidths[i]
                      /\ Fields[i].data \subseteq 0 .. (FieldWidths[i] - 1)
                      /\ Offset[i] = Offset[i - 1] + FieldWidths[i]
             gadget == [i \in 1 .. GadgetCount |-> Field(BitsOf(gadgets[SnakeCount + i]), kIndexBits)]
             snake == [s \in Snakes |-> SnakeFields(s)]
  <1>1. /\ Len(Fields) = FieldCount /\ Len(FieldWidths) = FieldCount
    BY FieldsListed, WidthsListed DEF Listed, FieldCount
  <1>2. ASSUME NEW s \in Snakes PROVE Ok(3 * s - 2) /\ Ok(3 * s - 1) /\ Ok(3 * s)
    <2>1. /\ Fields[3 * s - 2] = SnakeFields(s)[1] /\ Fields[3 * s - 1] = SnakeFields(s)[2]
          /\ Fields[3 * s] = SnakeFields(s)[3]
      BY FieldsListed DEF Listed, Snakes
    <2>2. /\ FieldWidths[3 * s - 2] = kTailBits /\ FieldWidths[3 * s - 1] = kIndexBits
          /\ FieldWidths[3 * s] = kLenBits
      BY WidthsListed DEF Listed, Snakes
    <2>3. /\ Fields[3 * s - 2] = Field(tail_[s], kTailBits)
          /\ Fields[3 * s - 1] = Field(BitsOf(HeadCell(s)), kIndexBits)
          /\ Fields[3 * s] = Field(BitsOf(Len(snakes[s])), kLenBits)
      BY <2>1 DEF SnakeFields
    <2>4. /\ tail_[s] \subseteq 0 .. (kTailBits - 1)
          /\ HeadCell(s) \in Coord /\ Len(snakes[s]) \in 0 .. SnakeMaxLen
      BY SnakeFits
    <2>5. BitsOf(HeadCell(s)) \subseteq 0 .. (kIndexBits - 1)
      BY <2>4, CountFacts, IndexFits, NumberFits
    <2>6. BitsOf(Len(snakes[s])) \subseteq 0 .. (kLenBits - 1)
      BY <2>4, CountFacts, LengthFits, NumberFits
    <2>7. /\ Offset[3 * s - 3] = SnakeBits * (s - 1)
          /\ Offset[3 * s - 2] = SnakeBits * (s - 1) + kTailBits
          /\ Offset[3 * s - 1] = SnakeBits * (s - 1) + kTailBits + kIndexBits
          /\ Offset[3 * s] = SnakeBits * (s - 1) + kTailBits + kIndexBits + kLenBits
      BY OffsetsOfSnake
    <2>8. /\ (3 * s - 2) - 1 = 3 * s - 3 /\ (3 * s - 1) - 1 = 3 * s - 2
      BY CountFacts DEF Snakes
    <2>9. Ok(3 * s - 2)
      <3>1. Fields[3 * s - 2].width = kTailBits /\ Fields[3 * s - 2].data = tail_[s]
        BY <2>3 DEF Field
      <3>2. Offset[3 * s - 2] = Offset[(3 * s - 2) - 1] + kTailBits
        BY <2>7, <2>8
      <3>3. QED
        BY <2>2, <2>4, <3>1, <3>2, WidthFacts
    <2>10. Ok(3 * s - 1)
      <3>1. Fields[3 * s - 1].width = kIndexBits /\ Fields[3 * s - 1].data = BitsOf(HeadCell(s))
        BY <2>3 DEF Field
      <3>2. Offset[3 * s - 1] = Offset[(3 * s - 1) - 1] + kIndexBits
        BY <2>7, <2>8
      <3>3. QED
        BY <2>2, <2>5, <3>1, <3>2, WidthFacts
    <2>11. Ok(3 * s)
      <3>1. Fields[3 * s].width = kLenBits /\ Fields[3 * s].data = BitsOf(Len(snakes[s]))
        BY <2>3 DEF Field
      <3>2. Offset[3 * s] = Offset[3 * s - 1] + kLenBits
        BY <2>7
      <3>3. QED
        BY <2>2, <2>6, <3>1, <3>2, WidthFacts
    <2>12. QED
      BY <2>9, <2>10, <2>11
  <1>3. Ok(3 * SnakeCount + 1)
    <2> DEFINE i == 3 * SnakeCount + 1
    <2>1. Fields[i] = Field(fruit_bits(fruit), FruitCount) /\ FieldWidths[i] = FruitCount
      BY FieldsListed, WidthsListed DEF Listed
    <2>2. fruit \subseteq Fruit
      BY DEF Inv, TypeOK
    <2>3. fruit_bits(fruit) \subseteq 0 .. (FruitCount - 1)
      <3>1. \A c \in fruit : Cardinality({d \in Fruit : d < c}) \in 0 .. (FruitCount - 1)
        BY <2>2, FruitPlaces DEF FruitBefore
      <3>2. QED
        BY <3>1 DEF fruit_bits
    <2>4. Fields[i].width = FruitCount /\ Fields[i].data = fruit_bits(fruit)
      BY <2>1 DEF Field
    <2>5. i - 1 = 3 * SnakeCount
      BY CountFacts
    <2>6. Offset[i] = Offset[i - 1] + FruitCount
      BY <2>5, OffsetsOfOthers
    <2> HIDE DEF i
    <2>7. Ok(i)
      BY <2>1, <2>3, <2>4, <2>6, WidthFacts
    <2>8. QED
      BY <2>7 DEF i
  <1>4. ASSUME NEW j \in 1 .. GadgetCount PROVE Ok(3 * SnakeCount + 1 + j)
    <2> DEFINE i == 3 * SnakeCount + 1 + j
    <2>1. Fields[i] = gadget[j] /\ FieldWidths[i] = [k \in 1 .. GadgetCount |-> kIndexBits][j]
      BY FieldsListed, WidthsListed DEF Listed
    <2>2. Fields[i] = Field(BitsOf(gadgets[SnakeCount + j]), kIndexBits) /\ FieldWidths[i] = kIndexBits
      BY <2>1
    <2>3. SnakeCount + j \in Gadgets
      BY CountFacts DEF Gadgets, ObjCount
    <2>4. gadgets[SnakeCount + j] \in Coord
      BY <2>3 DEF Inv, TypeOK
    <2>5. BitsOf(gadgets[SnakeCount + j]) \subseteq 0 .. (kIndexBits - 1)
      BY <2>4, CountFacts, IndexFits, NumberFits
    <2>6. Fields[i].width = kIndexBits /\ Fields[i].data = BitsOf(gadgets[SnakeCount + j])
      BY <2>2 DEF Field
    <2>7. i - 1 = 3 * SnakeCount + j
      BY CountFacts
    <2>8. Offset[i] = Offset[i - 1] + kIndexBits
      BY <2>7, OffsetsOfOthers
    <2> HIDE DEF i, gadget
    <2>9. Ok(i)
      BY <2>2, <2>5, <2>6, <2>8, WidthFacts
    <2>10. QED
      BY <2>9 DEF i
  <1>5. ASSUME NEW i \in 1 .. FieldCount PROVE Ok(i)
    <2> HIDE DEF Ok
    <2>1. QED
      BY <1>2, <1>3, <1>4, EachField
  <1>6. Offset[FieldCount] <= packed_bits
    BY OffsetsOfOthers, PackedBitsType
  <1>7. QED
    BY <1>1, <1>5, <1>6, OffsetsType, OffsetsOfOthers, CountFacts DEF Legal

\* init_locations_from_tail puts the segments where they were.
LEMMA LocatedAgain ==
  ASSUME NEW body \in Seq(Coord), NEW tail, Describes(tail, body), NEW head,
         body # <<>> => head = body[1]
  PROVE  Located(tail, head, Len(body)) = body
  <1> DEFINE n == Len(body)
             Body(f) == [i \in 1 .. n |->
                IF i = 1 THEN head ELSE f[i - 1] - apply_direction[DirectionAt(tail, i - 2)]]
             h == CHOOSE f : f = Body(f)
  <1>1. Located(tail, head, n) = [i \in 1 .. n |-> h[i]]
    BY DEF Located
  <1>2. n \in Nat /\ body \in [1 .. n -> Coord]
    BY LenProperties
  <1>3. ASSUME NEW i \in 1 .. n
        PROVE  body[i] = IF i = 1 THEN head ELSE body[i - 1] - apply_direction[DirectionAt(tail, i - 2)]
    <2>1. CASE i = 1
      <3>1. body # <<>>
        BY <1>2, EmptySeq
      <3>2. QED
        BY <2>1, <3>1
    <2>2. CASE i # 1
      <3>1. i - 1 \in 1 .. (n - 1) /\ (i - 1) + 1 = i /\ (i - 1) - 1 = i - 2 /\ i - 2 \in Nat
            /\ i - 1 \in 1 .. n
        BY <1>2, <2>2
      <3>2. PICK d \in Direction :
              body[i - 1] - body[(i - 1) + 1] = apply_direction[d] /\ Holds(tail, (i - 1) - 1, d)
        BY <3>1 DEF Describes
      <3>3. DirectionAt(tail, i - 2) = d
        BY <3>1, <3>2, DirectionFound
      <3>4. body[i - 1] \in Int /\ body[i] \in Int
        BY <1>2, <3>1 DEF Coord
      <3>5. body[i - 1] - body[i] = apply_direction[d]
        BY <3>1, <3>2
      <3>6. body[i] = body[i - 1] - apply_direction[d]
        BY <3>4, <3>5
      <3>7. QED
        BY <2>2, <3>3, <3>6
    <2>3. QED
      BY <2>1, <2>2
  <1>4. body = Body(body)
    <2>1. body = [i \in 1 .. n |-> body[i]]
      BY <1>2
    <2> HIDE DEF n
    <2>2. QED
      BY <1>3, <2>1
  <1>5. h = Body(h)
    <2> HIDE DEF Body
    <2>1. QED
      BY <1>4
  <1> HIDE DEF h, n
  <1>6. \A i \in 1 .. n : h[i] = IF i = 1 THEN head ELSE h[i - 1] - apply_direction[DirectionAt(tail, i - 2)]
    BY <1>5
  <1> DEFINE T == {k \in 0 .. n : k = 0 \/ h[k] = body[k]}
  <1>7. 0 \in T
    BY <1>2
  <1>8. ASSUME NEW k \in 1 .. n, k - 1 \in T PROVE k \in T
    <2>1. k = 1 \/ h[k - 1] = body[k - 1]
      BY <1>8
    <2>2. h[k] = body[k]
      BY <1>3, <1>6, <2>1
    <2>3. QED
      BY <2>2
  <1> HIDE DEF T
  <1>9. \A k \in 0 .. n : k \in T
    BY <1>2, <1>7, <1>8, InductionUpTo
  <1>10. \A i \in 1 .. n : h[i] = body[i]
    BY <1>2, <1>9 DEF T
  <1>11. [i \in 1 .. n |-> h[i]] = body
    BY <1>2, <1>10
  <1>12. QED
    BY <1>1, <1>11 DEF n

\* What was packed is what is unpacked, member by member.
LEMMA UnpacksState ==
  ASSUME Inv, SnakeInv, TailInv
  PROVE  Unpacked(Packed) = [snakes |-> snakes, tail_ |-> tail_, fruit |-> fruit, gadgets |-> gadgets]
  <1> DEFINE value == P!UnpackFields(Packed, FieldWidths)
             tail(s) == value[3 * s - 2]
             body(s) == Located(tail(s), NumberOf(value[3 * s - 1], kIndexBits), NumberOf(value[3 * s], kLenBits))
             left == {c \in Fruit : fruit_bits({c}) \subseteq value[3 * SnakeCount + 1]}
             offset(g) == NumberOf(value[3 * SnakeCount + 1 + (g - SnakeCount)], kIndexBits)
  <1>1. \A i \in 1 .. FieldCount : value[i] = Fields[i].data
    BY FieldsLegal, UnpacksAll DEF Packed
  <1>2. Unpacked(Packed) = [snakes |-> [s \in Snakes |-> body(s)], tail_ |-> [s \in Snakes |-> tail(s)],
                            fruit |-> left, gadgets |-> [g \in Gadgets |-> offset(g)]]
    BY DEF Unpacked
  <1> HIDE DEF value
  <1>3. /\ snakes \in [Snakes -> Seq(Coord)] /\ gadgets \in [Gadgets -> Coord] /\ fruit \subseteq Fruit
        /\ tail_ \in [Snakes -> SUBSET Nat]
    BY DEF Inv, TypeOK, TailInv
  <1>4. ASSUME NEW s \in Snakes PROVE tail(s) = tail_[s] /\ body(s) = snakes[s]
    <2>1. /\ 3 * s - 2 \in 1 .. FieldCount /\ 3 * s - 1 \in 1 .. FieldCount /\ 3 * s \in 1 .. FieldCount
      BY CountFacts DEF Snakes, FieldCount
    <2>2. /\ Fields[3 * s - 2] = SnakeFields(s)[1] /\ Fields[3 * s - 1] = SnakeFields(s)[2]
          /\ Fields[3 * s] = SnakeFields(s)[3]
      BY FieldsListed DEF Listed, Snakes
    <2>3. /\ value[3 * s - 2] = tail_[s] /\ value[3 * s - 1] = BitsOf(HeadCell(s))
          /\ value[3 * s] = BitsOf(Len(snakes[s]))
      BY <1>1, <2>1, <2>2 DEF SnakeFields, Field
    <2>4. HeadCell(s) \in Coord /\ Len(snakes[s]) \in 0 .. SnakeMaxLen
      BY SnakeFits
    <2>5. NumberOf(BitsOf(HeadCell(s)), kIndexBits) = HeadCell(s)
      BY <2>4, CountFacts, IndexFits, NumberFits
    <2>6. NumberOf(BitsOf(Len(snakes[s])), kLenBits) = Len(snakes[s])
      BY <2>4, CountFacts, LengthFits, NumberFits
    <2>7. body(s) = Located(tail_[s], HeadCell(s), Len(snakes[s]))
      BY <2>3, <2>5, <2>6
    <2>8. Describes(tail_[s], snakes[s]) /\ snakes[s] \in Seq(Coord)
      BY <1>3 DEF TailInv
    <2>9. snakes[s] # <<>> => HeadCell(s) = snakes[s][1]
      BY DEF HeadCell
    <2>10. Located(tail_[s], HeadCell(s), Len(snakes[s])) = snakes[s]
      BY <2>8, <2>9, LocatedAgain
    <2>11. QED
      BY <2>3, <2>7, <2>10
  <1>5. left = fruit
    <2>1. 3 * SnakeCount + 1 \in 1 .. FieldCount
      BY CountFacts DEF FieldCount
    <2>2. Fields[3 * SnakeCount + 1] = Field(fruit_bits(fruit), FruitCount)
      BY FieldsListed DEF Listed
    <2>3. value[3 * SnakeCount + 1] = fruit_bits(fruit)
      BY <1>1, <2>1, <2>2 DEF Field
    <2>4. ASSUME NEW c \in Fruit PROVE fruit_bits({c}) \subseteq fruit_bits(fruit) <=> c \in fruit
      <3>1. fruit_bits({c}) = {FruitBefore(c)}
        BY DEF fruit_bits, FruitBefore
      <3>2. fruit_bits(fruit) = {FruitBefore(d) : d \in fruit}
        BY DEF fruit_bits, FruitBefore
      <3>3. FruitBefore(c) \in fruit_bits(fruit) <=> \E d \in fruit : FruitBefore(c) = FruitBefore(d)
        BY <3>2
      <3>4. FruitBefore(c) \in fruit_bits(fruit) <=> c \in fruit
        BY <1>3, <3>3, FruitPlaces
      <3>5. QED
        BY <3>1, <3>4
    <2>5. QED
      BY <1>3, <2>3, <2>4
  <1>6. ASSUME NEW g \in Gadgets PROVE offset(g) = gadgets[g]
    <2> DEFINE j == g - SnakeCount
    <2>1. j \in 1 .. GadgetCount /\ SnakeCount + j = g /\ 3 * SnakeCount + 1 + j \in 1 .. FieldCount
      BY CountFacts DEF Gadgets, ObjCount, FieldCount
    <2> HIDE DEF j
    <2>2. Fields[3 * SnakeCount + 1 + j] = Field(BitsOf(gadgets[SnakeCount + j]), kIndexBits)
      BY <2>1, FieldsListed DEF Listed
    <2>3. value[3 * SnakeCount + 1 + j] = BitsOf(gadgets[g])
      BY <1>1, <2>1, <2>2 DEF Field
    <2>4. gadgets[g] \in Coord
      BY <1>3
    <2>5. NumberOf(BitsOf(gadgets[g]), kIndexBits) = gadgets[g]
      BY <2>4, CountFacts, IndexFits, NumberFits
    <2>6. QED
      BY <2>3, <2>5 DEF j
  <1> HIDE DEF tail, body, left, offset
  <1>7. [s \in Snakes |-> body(s)] = snakes /\ [s \in Snakes |-> tail(s)] = tail_
        /\ [g \in Gadgets |-> offset(g)] = gadgets
    BY <1>3, <1>4, <1>6
  <1>8. QED
    BY <1>2, <1>5, <1>7

\* Packing a state and unpacking it gives the state again, whatever the widths
\* of its fields and wherever the accumulator is flushed between them (Packer,
\* State::pack and State::unpack): the search loses nothing by keeping bytes.
THEOREM PackingIsExact == PackingSpec => []PackedLosesNothing
  <1>1. PackingSpec => []IInv
    BY PackingImplements, Invariance, PTL
  <1>2. PackingSpec => []SnakeInv
    BY PackingImplements, SnakeInvariance, PTL
  <1>3. PackingSpec => InitPacking /\ [][NextPacking]_packing_vars
    BY DEF PackingSpec
  <1>4. PackingSpec => []TailInv
    BY <1>1, <1>3, TailInvInit, TailInvNext, PTL
  <1>5. IInv /\ SnakeInv /\ TailInv => PackedLosesNothing
    BY IInvIsInv, UnpacksState DEF PackedLosesNothing
  <1>6. QED
    BY <1>1, <1>2, <1>4, <1>5, PTL

=============================================================================
