-------------------------- MODULE SnakebirdProofs --------------------------
(***************************************************************************)
(* Proofs about Snakebird, for every map, set of snakes and set of gadgets *)
(* that meets its assumptions.  The inductive invariant is the conjunction *)
(* of TypeOK, NoOverlap and InOpenTerrain: each needs the others, since    *)
(* what can be pushed, falls or fits is decided by what is next to it, and *)
(* the border keeps next to it inside the map.                             *)
(*                                                                         *)
(* From it: the bodies of the snakes stay in one piece and within their    *)
(* arrays, at most one object goes through a teleporter at a time,         *)
(* canonicalize only renames, process_gravity, which looks again only at   *)
(* what fell the round before, leaves nothing that would fall or leave,    *)
(* and the loops that find the objects that move together find them all    *)
(* and no others.                                                          *)
(***************************************************************************)
EXTENDS Snakebird, ObjectLoops, Induction, SequenceTheorems

-----------------------------------------------------------------------------
(***************************************************************************)
(* Geometry: a step from an open cell stays on the map.                    *)
(***************************************************************************)
LEMMA MapSizeType == MapSize \in Nat /\ W \in Nat /\ W >= 3
  BY SetupAssumption DEF MapSize, LegalSetup

LEMMA StepsType == Steps = {-W, 1, W, -1} /\ Steps \subseteq Int
  <1>1. Steps = {-W, 1, W, -1}
    BY DEF Steps, apply_direction, Direction
  <1>2. QED
    BY <1>1, SetupAssumption DEF LegalSetup

LEMMA StepInMap ==
  ASSUME NEW i \in OpenTerrain, NEW delta \in Steps
  PROVE  i + delta \in Coord
  <1>1. i \in Coord /\ i \notin Border
    BY TerrainAssumption DEF OpenTerrain, LegalTerrain
  <1>2. i >= W /\ i < MapSize - W
    BY <1>1, MapSizeType DEF Border, Coord
  <1>3. delta \in {-W, 1, W, -1}
    BY StepsType
  <1>4. QED
    BY <1>1, <1>2, <1>3, MapSizeType DEF Coord

LEMMA DownIsAStep == W \in Steps
  BY StepsType

LEMMA ObjectsType ==
  /\ Snakes \subseteq Int /\ Gadgets \subseteq Int
  /\ Snakes \intersect Gadgets = {}
  /\ IsFiniteSet(Objects)
  <1>1. ObjCount \in Nat /\ SnakeCount \in Nat
    BY SetupAssumption DEF ObjCount, LegalSetup
  <1>2. IsFiniteSet(Snakes) /\ IsFiniteSet(Gadgets)
    BY <1>1, FS_Interval DEF Snakes, Gadgets
  <1>3. IsFiniteSet(Objects)
    BY <1>2, FS_Union DEF Objects
  <1>4. QED
    BY <1>1, <1>3 DEF Snakes, Gadgets

-----------------------------------------------------------------------------
(***************************************************************************)
(* Bodies.  What the operations of class Snake do to the set of cells a    *)
(* snake occupies.                                                         *)
(***************************************************************************)
Distinct(body) == \A i, j \in DOMAIN body : i # j => body[i] # body[j]

LEMMA SeqIntro ==
  ASSUME NEW S, NEW n \in Nat, NEW f \in [1 .. n -> S]
  PROVE  f \in Seq(S) /\ Len(f) = n /\ DOMAIN f = 1 .. n
  <1>1. f \in Seq(S)
    BY SeqDef
  <1>2. DOMAIN f = 1 .. n
    OBVIOUS
  <1>3. Len(f) \in Nat /\ DOMAIN f = 1 .. Len(f)
    BY <1>1, LenProperties
  <1>4. QED
    BY <1>1, <1>2, <1>3

\* Snake::grow adds the cell in front of the head and keeps the others.
LEMMA GrownBody ==
  ASSUME NEW s \in Snakes, snakes[s] \in Seq(Coord), snakes[s] # <<>>, NEW delta \in Int,
         snakes[s][1] + delta \in Coord
  PROVE  /\ Grown(s, delta) \in Seq(Coord)
         /\ Len(Grown(s, delta)) = Len(snakes[s]) + 1
         /\ Range(Grown(s, delta)) = Range(snakes[s]) \union {snakes[s][1] + delta}
         /\ Distinct(snakes[s]) /\ snakes[s][1] + delta \notin Range(snakes[s])
              => Distinct(Grown(s, delta))
  <1> DEFINE b == snakes[s]
             n == Len(b)
             g == Grown(s, delta)
  <1>1. n \in Nat \ {0} /\ b \in [1 .. n -> Coord] /\ DOMAIN b = 1 .. n
    BY EmptySeq, LenProperties
  <1>2. /\ g \in [1 .. (n + 1) -> Coord]
        /\ g[1] = b[1] + delta
        /\ \A i \in 2 .. (n + 1) : g[i] = b[i - 1]
    BY <1>1 DEF Grown
  <1> HIDE DEF b, n, g
  <1>3. g \in Seq(Coord) /\ Len(g) = n + 1 /\ DOMAIN g = 1 .. (n + 1)
    BY <1>1, <1>2, SeqIntro
  <1>4. Range(g) = Range(b) \union {b[1] + delta}
    <2>1. \A i \in 1 .. (n + 1) : g[i] \in Range(b) \union {b[1] + delta}
      BY <1>1, <1>2 DEF Range
    <2>2. \A i \in 1 .. n : b[i] = g[i + 1] /\ i + 1 \in 1 .. (n + 1)
      BY <1>1, <1>2
    <2>3. 1 \in 1 .. (n + 1)
      BY <1>1
    <2>4. Range(g) \subseteq Range(b) \union {b[1] + delta}
      BY <1>3, <2>1 DEF Range
    <2>5. \A i \in 1 .. n : b[i] \in Range(g)
      BY <1>3, <2>2 DEF Range
    <2>6. b[1] + delta \in Range(g)
      BY <1>2, <1>3, <2>3 DEF Range
    <2>7. Range(b) \subseteq Range(g)
      BY <1>1, <2>5 DEF Range
    <2>8. QED
      BY <2>4, <2>6, <2>7
  <1>5. ASSUME Distinct(b), b[1] + delta \notin Range(b)
        PROVE  Distinct(g)
    <2>1. \A i \in 1 .. n : b[i] # b[1] + delta
      BY <1>1, <1>5 DEF Range
    <2>2. \A i, j \in 1 .. n : i # j => b[i] # b[j]
      BY <1>1, <1>5 DEF Distinct
    <2>3. SUFFICES ASSUME NEW i \in 1 .. (n + 1), NEW j \in 1 .. (n + 1), i < j
                   PROVE  g[i] # g[j]
      BY <1>1, <1>3 DEF Distinct
    <2>4. j - 1 \in 1 .. n /\ g[j] = b[j - 1]
      BY <1>1, <1>2, <2>3
    <2>5. CASE i = 1
      BY <1>2, <2>1, <2>4, <2>5
    <2>6. CASE i # 1
      <3>1. i - 1 \in 1 .. n /\ g[i] = b[i - 1] /\ i - 1 # j - 1
        BY <1>1, <1>2, <2>3, <2>6
      <3>2. QED
        BY <2>2, <2>4, <3>1
    <2>7. QED
      BY <2>5, <2>6
  <1>6. QED
    BY <1>3, <1>4, <1>5 DEF b, n, g

\* Snake::move adds the cell in front of the head and gives up the last one.
LEMMA AdvancedBody ==
  ASSUME NEW s \in Snakes, snakes[s] \in Seq(Coord), snakes[s] # <<>>, NEW delta \in Int,
         snakes[s][1] + delta \in Coord
  PROVE  /\ Advanced(s, delta) \in Seq(Coord)
         /\ Len(Advanced(s, delta)) = Len(snakes[s])
         /\ Range(Advanced(s, delta)) = PushMapCells(s, s) \union {snakes[s][1] + delta}
         /\ PushMapCells(s, s) \subseteq Range(snakes[s])
         /\ Distinct(snakes[s]) /\ snakes[s][1] + delta \notin PushMapCells(s, s)
              => Distinct(Advanced(s, delta))
  <1> DEFINE b == snakes[s]
             n == Len(b)
             a == Advanced(s, delta)
  <1>1. n \in Nat \ {0} /\ b \in [1 .. n -> Coord] /\ DOMAIN b = 1 .. n
    BY EmptySeq, LenProperties
  <1>2. /\ a \in [1 .. n -> Coord]
        /\ a[1] = b[1] + delta
        /\ \A i \in 2 .. n : a[i] = b[i - 1]
    BY <1>1 DEF Advanced
  <1>3. a \in Seq(Coord) /\ Len(a) = n /\ DOMAIN a = 1 .. n
    BY <1>1, <1>2, SeqIntro
  <1>4. PushMapCells(s, s) = {b[i] : i \in 1 .. (n - 1)}
    BY DEF PushMapCells
  <1> HIDE DEF b, n, a
  <1>5. PushMapCells(s, s) \subseteq Range(b)
    BY <1>1, <1>4 DEF Range
  <1>6. Range(a) = PushMapCells(s, s) \union {b[1] + delta}
    <2>1. \A i \in 1 .. n : a[i] \in PushMapCells(s, s) \union {b[1] + delta}
      <3>1. \A i \in 2 .. n : i - 1 \in 1 .. (n - 1)
        BY <1>1
      <3>2. \A i \in 1 .. n : i = 1 \/ i \in 2 .. n
        BY <1>1
      <3>3. QED
        BY <1>2, <1>4, <3>1, <3>2
    <2>2. \A i \in 1 .. (n - 1) : b[i] = a[i + 1] /\ i + 1 \in 1 .. n
      BY <1>1, <1>2
    <2>3. 1 \in 1 .. n
      BY <1>1
    <2>4. Range(a) \subseteq PushMapCells(s, s) \union {b[1] + delta}
      BY <1>3, <2>1 DEF Range
    <2>5. \A i \in 1 .. (n - 1) : b[i] \in Range(a)
      BY <1>3, <2>2 DEF Range
    <2>6. b[1] + delta \in Range(a)
      BY <1>2, <1>3, <2>3 DEF Range
    <2>7. QED
      BY <1>4, <2>4, <2>5, <2>6
  <1>7. ASSUME Distinct(b), b[1] + delta \notin PushMapCells(s, s)
        PROVE  Distinct(a)
    <2>1. \A i \in 1 .. (n - 1) : b[i] # b[1] + delta
      BY <1>4, <1>7
    <2>2. \A i, j \in 1 .. n : i # j => b[i] # b[j]
      BY <1>1, <1>7 DEF Distinct
    <2>3. SUFFICES ASSUME NEW i \in 1 .. n, NEW j \in 1 .. n, i < j
                   PROVE  a[i] # a[j]
      BY <1>1, <1>3 DEF Distinct
    <2>4. j - 1 \in 1 .. (n - 1) /\ j - 1 \in 1 .. n /\ a[j] = b[j - 1]
      BY <1>1, <1>2, <2>3
    <2>5. CASE i = 1
      BY <1>2, <2>1, <2>4, <2>5
    <2>6. CASE i # 1
      <3>1. i - 1 \in 1 .. n /\ a[i] = b[i - 1] /\ i - 1 # j - 1
        BY <1>1, <1>2, <2>3, <2>6
      <3>2. QED
        BY <2>2, <2>4, <3>1
    <2>7. QED
      BY <2>5, <2>6
  <1>8. QED
    BY <1>3, <1>5, <1>6, <1>7 DEF b, n, a

\* Snake::translate moves every cell of the body.
LEMMA ShiftedBody ==
  ASSUME NEW b \in Seq(Coord), NEW delta \in Int, \A i \in Range(b) : i + delta \in Coord,
         NEW c, c = [i \in DOMAIN b |-> b[i] + delta]
  PROVE  /\ c \in Seq(Coord)
         /\ Len(c) = Len(b)
         /\ Range(c) = {i + delta : i \in Range(b)}
         /\ Distinct(b) => Distinct(c)
  <1> DEFINE n == Len(b)
  <1>1. n \in Nat /\ b \in [1 .. n -> Coord] /\ DOMAIN b = 1 .. n
    BY LenProperties
  <1> HIDE DEF n
  <1>2. c \in [1 .. n -> Coord]
    BY <1>1 DEF Range
  <1>3. c \in Seq(Coord) /\ Len(c) = n /\ DOMAIN c = 1 .. n
    BY <1>1, <1>2, SeqIntro
  <1>4. Range(c) = {i + delta : i \in Range(b)}
    BY <1>1, <1>3 DEF Range
  <1>5. ASSUME Distinct(b) PROVE Distinct(c)
    <2>1. \A i, j \in 1 .. n : i # j => b[i] # b[j]
      BY <1>1, <1>5 DEF Distinct
    <2>2. \A i \in 1 .. n : b[i] \in Int
      BY <1>1 DEF Coord
    <2>3. \A i, j \in 1 .. n : i # j => c[i] # c[j]
      BY <1>1, <2>1, <2>2
    <2>4. QED
      BY <1>3, <2>3 DEF Distinct
  <1>6. QED
    BY <1>3, <1>4, <1>5 DEF n

\* Every object is in the open, which is InOpenTerrain while nothing is lost.
InTheOpen == \A o \in Objects : CellsOf(o) \subseteq OpenTerrain

\* No part of a gadget that is in the open has the offset of a deleted one.
LEMMA OpenIsOnMap == OpenTerrain \subseteq Coord \ {kGadgetDeleted}
  BY TerrainAssumption, MapSizeType DEF OpenTerrain, Border, Coord, LegalTerrain, kGadgetDeleted

\* The cells a set S of objects leaves and reaches when it moves by delta.
Shifted(o, S, delta) == IF o \in S THEN {i + delta : i \in CellsOf(o)} ELSE CellsOf(o)

LEMMA ShiftedSnake ==
  ASSUME TypeOK, NEW S, NEW delta \in Int, NEW s \in Snakes,
         s \in S => \A i \in CellsOf(s) : i + delta \in Coord
  PROVE  /\ TranslatedSnakes(S, delta)[s] \in Seq(Coord)
         /\ Len(TranslatedSnakes(S, delta)[s]) = Len(snakes[s])
         /\ Range(TranslatedSnakes(S, delta)[s]) = Shifted(s, S, delta)
         /\ Distinct(snakes[s]) => Distinct(TranslatedSnakes(S, delta)[s])
  <1> DEFINE c == [i \in DOMAIN snakes[s] |-> snakes[s][i] + delta]
  <1>1. snakes[s] \in Seq(Coord)
    BY DEF TypeOK
  <1>2. CellsOf(s) = Range(snakes[s])
    BY DEF CellsOf
  <1>3. CASE s \in S
    <2>1. TranslatedSnakes(S, delta)[s] = c
      BY <1>3 DEF TranslatedSnakes
    <2>2. \A i \in Range(snakes[s]) : i + delta \in Coord
      BY <1>2, <1>3
    <2> HIDE DEF c
    <2>3. /\ c \in Seq(Coord)
          /\ Len(c) = Len(snakes[s])
          /\ Range(c) = {i + delta : i \in Range(snakes[s])}
          /\ Distinct(snakes[s]) => Distinct(c)
      BY <1>1, <2>2, ShiftedBody DEF c
    <2>4. QED
      BY <1>2, <1>3, <2>1, <2>3 DEF Shifted
  <1>4. CASE s \notin S
    <2>1. TranslatedSnakes(S, delta)[s] = snakes[s]
      BY <1>4 DEF TranslatedSnakes
    <2>2. QED
      BY <1>1, <1>2, <1>4, <2>1 DEF Shifted
  <1>5. QED
    BY <1>3, <1>4

\* A gadget that moves on the map is not taken for a deleted one.
LEMMA ShiftedGadget ==
  ASSUME TypeOK, NEW S, NEW delta \in Int, NEW g \in Gadgets,
         g \in S => InPlay(g) /\ \A i \in CellsOf(g) : i + delta \in Coord \ {kGadgetDeleted}
  PROVE  LET offset == TranslatedGadgets(S, delta)[g]
         IN  /\ offset \in Coord
             /\ (IF offset = kGadgetDeleted THEN {} ELSE {offset + d : d \in Shape[g]})
                  = Shifted(g, S, delta)
  <1>1. gadgets[g] \in Coord /\ g \notin Snakes /\ 0 \in Shape[g] /\ Shape[g] \subseteq Nat
    BY ObjectsType, ObjectsAssumption DEF TypeOK, LegalObjects
  <1>2. CellsOf(g) = IF gadgets[g] = kGadgetDeleted THEN {} ELSE {gadgets[g] + d : d \in Shape[g]}
    BY <1>1 DEF CellsOf, GadgetCells
  <1>3. CASE g \notin S
    <2>1. TranslatedGadgets(S, delta)[g] = gadgets[g]
      BY <1>3 DEF TranslatedGadgets
    <2>2. QED
      BY <1>1, <1>2, <1>3, <2>1 DEF Shifted
  <1>4. CASE g \in S
    <2>1. TranslatedGadgets(S, delta)[g] = gadgets[g] + delta
      BY <1>4 DEF TranslatedGadgets
    <2>2. gadgets[g] # kGadgetDeleted
      BY <1>2, <1>4 DEF InPlay
    <2>3. gadgets[g] \in CellsOf(g)
      <3>1. gadgets[g] + 0 \in CellsOf(g)
        BY <1>1, <1>2, <2>2
      <3>2. QED
        BY <1>1, <3>1 DEF Coord
    <2>4. gadgets[g] + delta \in Coord
      BY <1>4, <2>3
    <2>5. gadgets[g] + delta # kGadgetDeleted
      BY <1>4, <2>3
    <2>6. {gadgets[g] + delta + d : d \in Shape[g]} = {i + delta : i \in CellsOf(g)}
      <3>1. CellsOf(g) = {gadgets[g] + d : d \in Shape[g]}
        BY <1>2, <2>2
      <3>2. \A d \in Shape[g] : gadgets[g] + delta + d = (gadgets[g] + d) + delta
        BY <1>1 DEF Coord
      <3>3. QED
        BY <3>1, <3>2
    <2>7. QED
      BY <1>4, <2>1, <2>4, <2>5, <2>6 DEF Shifted
  <1>5. QED
    BY <1>3, <1>4

\* Objects that are apart stay apart when some of them move together, unless
\* one of these runs into one that stays.
LEMMA ShiftKeepsApart ==
  ASSUME TypeOK, InTheOpen, NEW S, NEW delta \in Int,
         NEW o \in Objects, NEW p \in Objects,
         CellsOf(o) \intersect CellsOf(p) = {},
         o \in S /\ p \notin S => \A i \in CellsOf(o) : i + delta \notin CellsOf(p),
         p \in S /\ o \notin S => \A i \in CellsOf(p) : i + delta \notin CellsOf(o)
  PROVE  Shifted(o, S, delta) \intersect Shifted(p, S, delta) = {}
  <1>1. CellsOf(o) \subseteq Int /\ CellsOf(p) \subseteq Int
    BY DEF InTheOpen, OpenTerrain, Coord
  <1>2. CASE o \in S /\ p \in S
    <2>1. \A i \in CellsOf(o), j \in CellsOf(p) : i + delta = j + delta => i = j
      BY <1>1
    <2>2. QED
      BY <1>2, <2>1 DEF Shifted
  <1>3. CASE o \in S /\ p \notin S
    BY <1>3 DEF Shifted
  <1>4. CASE o \notin S /\ p \in S
    BY <1>4 DEF Shifted
  <1>5. CASE o \notin S /\ p \notin S
    BY <1>5 DEF Shifted
  <1>6. QED
    BY <1>2, <1>3, <1>4, <1>5

-----------------------------------------------------------------------------
(***************************************************************************)
(* The inductive invariant.                                                *)
(***************************************************************************)
Inv == TypeOK /\ NoOverlap /\ InTheOpen

\* The same of every state: one that is lost is only left as it is.
IInv == TypeOK /\ NoOverlap /\ InOpenTerrain

LEMMA IInvIsInv == IInv /\ phase # "lost" => Inv
  BY DEF IInv, Inv, InOpenTerrain, InTheOpen

\* What Inv says, object by object, in the terms of the lemmas above.
LEMMA InvFacts ==
  ASSUME Inv
  PROVE  /\ \A o \in Objects : CellsOf(o) \subseteq OpenTerrain /\ CellsOf(o) \subseteq Coord
         /\ \A s \in Snakes : /\ s \in Objects
                              /\ CellsOf(s) = Range(snakes[s])
                              /\ snakes[s] \in Seq(Coord)
                              /\ Distinct(snakes[s])
         /\ \A g \in Gadgets : /\ g \in Objects
                               /\ g \notin Snakes
                               /\ CellsOf(g) = GadgetCells(g)
                               /\ gadgets[g] \in Coord
         /\ fruit \subseteq OpenTerrain
  <1>1. \A s \in Snakes : Distinct(snakes[s])
    BY DEF Inv, NoOverlap, Distinct
  <1>2. fruit \subseteq OpenTerrain
    BY TerrainAssumption DEF Inv, TypeOK, OpenTerrain, LegalTerrain
  <1>3. \A o \in Objects : CellsOf(o) \subseteq OpenTerrain /\ CellsOf(o) \subseteq Coord
    BY DEF Inv, InTheOpen, OpenTerrain
  <1>4. \A g \in Gadgets : g \notin Snakes
    BY ObjectsType
  <1>5. QED
    BY <1>1, <1>2, <1>3, <1>4 DEF Inv, TypeOK, Objects, CellsOf

\* The head of a snake that is still in play.
LEMMA HeadFacts ==
  ASSUME Inv, NEW s \in Snakes, snakes[s] # <<>>, NEW delta \in Steps
  PROVE  /\ delta \in Int
         /\ snakes[s][1] \in CellsOf(s)
         /\ snakes[s][1] + delta \in Coord
  <1>1. Len(snakes[s]) \in Nat \ {0} /\ DOMAIN snakes[s] = 1 .. Len(snakes[s])
    BY InvFacts, EmptySeq, LenProperties
  <1>2. snakes[s][1] \in Range(snakes[s])
    BY <1>1 DEF Range
  <1>3. snakes[s][1] \in OpenTerrain
    BY <1>2, InvFacts
  <1>4. QED
    BY <1>2, <1>3, InvFacts, StepInMap, StepsType

\* What AdvancedBody says of a snake in play, in a state of the invariant.
LEMMA AdvancedInPlay ==
  ASSUME Inv, NEW s \in Snakes, snakes[s] # <<>>, NEW delta \in Steps
  PROVE  /\ Advanced(s, delta) \in Seq(Coord)
         /\ Range(Advanced(s, delta)) = PushMapCells(s, s) \union {snakes[s][1] + delta}
         /\ PushMapCells(s, s) \subseteq CellsOf(s)
         /\ snakes[s][1] + delta \notin PushMapCells(s, s) => Distinct(Advanced(s, delta))
  <1>1. /\ snakes[s] \in Seq(Coord) /\ Distinct(snakes[s])
        /\ CellsOf(s) = Range(snakes[s])
    BY InvFacts
  <1>2. delta \in Int /\ snakes[s][1] + delta \in Coord
    BY HeadFacts
  <1>3. /\ Advanced(s, delta) \in Seq(Coord)
        /\ Range(Advanced(s, delta)) = PushMapCells(s, s) \union {snakes[s][1] + delta}
        /\ PushMapCells(s, s) \subseteq Range(snakes[s])
        /\ Distinct(snakes[s]) /\ snakes[s][1] + delta \notin PushMapCells(s, s)
             => Distinct(Advanced(s, delta))
    BY <1>1, <1>2, AdvancedBody
  <1>4. QED
    BY <1>1, <1>3

\* The initial state has the invariant.
LEMMA InitInv == Init => Inv
  <1> SUFFICES ASSUME Init PROVE Inv
    OBVIOUS
  <1>1. \A o \in Objects : CellsOf(o) \subseteq InitCells(o)
    BY DEF Init, CellsOf, GadgetCells, InitCells
  <1>2. TypeOK
    BY ObjectsAssumption DEF Init, TypeOK, Phase, LegalObjects
  <1>3. InTheOpen
    BY <1>1, ObjectsAssumption DEF InTheOpen, OpenTerrain, LegalObjects
  <1>4. NoOverlap
    <2>1. \A o, p \in Objects : o # p => CellsOf(o) \intersect CellsOf(p) = {}
      BY <1>1, ObjectsAssumption DEF LegalObjects
    <2>2. \A o \in Objects : CellsOf(o) \intersect fruit = {}
      BY <1>1, ObjectsAssumption DEF Init, LegalObjects
    <2>3. \A s \in Snakes : \A i, j \in DOMAIN snakes[s] : i # j => snakes[s][i] # snakes[s][j]
      BY ObjectsAssumption DEF Init, LegalObjects
    <2>4. QED
      BY <2>1, <2>2, <2>3 DEF NoOverlap
  <1>5. QED
    BY <1>2, <1>3, <1>4 DEF Inv

-----------------------------------------------------------------------------
(***************************************************************************)
(* The moves of a snake.                                                   *)
(***************************************************************************)
LEMMA StartPhysicsType ==
  ASSUME StartPhysics
  PROVE  /\ phase' \in Phase
         /\ orig_tele_mask' \subseteq TeleporterCells \X Objects
         /\ recompute_falling' \subseteq Objects
  BY DEF StartPhysics, Phase, teleporter_overlap

LEMMA GrowInv ==
  ASSUME Inv, NEW s \in Snakes, NEW delta \in Steps, snakes[s] # <<>>, Grow(s, delta)
  PROVE  Inv'
  <1> DEFINE to == snakes[s][1] + delta
  <1>1. to \in fruit /\ fruit' = fruit \ {to} /\ gadgets' = gadgets
    BY DEF Grow
  <1>2. /\ snakes' \in [Snakes -> Seq(Coord)]
        /\ Range(snakes'[s]) = CellsOf(s) \union {to}
        /\ Distinct(snakes'[s])
        /\ \A t \in Snakes \ {s} : snakes'[t] = snakes[t]
    <2>1. to \in Coord /\ delta \in Int
      BY HeadFacts
    <2>2. to \notin CellsOf(s)
      BY <1>1, InvFacts DEF Inv, NoOverlap
    <2>3. /\ Grown(s, delta) \in Seq(Coord)
          /\ Range(Grown(s, delta)) = CellsOf(s) \union {to}
          /\ Distinct(Grown(s, delta))
      BY <2>1, <2>2, InvFacts, GrownBody
    <2>4. snakes' = [snakes EXCEPT ![s] = Grown(s, delta)] /\ snakes \in [Snakes -> Seq(Coord)]
      BY DEF Grow, Inv, TypeOK
    <2>5. QED
      BY <2>3, <2>4
  <1> HIDE DEF to
  <1>3. /\ CellsOf(s)' = CellsOf(s) \union {to}
        /\ \A o \in Objects \ {s} : CellsOf(o)' = CellsOf(o)
    BY <1>1, <1>2 DEF CellsOf, GadgetCells
  <1>4. TypeOK'
    <2>1. StartPhysics
      BY DEF Grow
    <2>2. QED
      BY <1>1, <1>2, <2>1, StartPhysicsType DEF Inv, TypeOK
  <1>5. InTheOpen'
    BY <1>1, <1>3, InvFacts DEF InTheOpen, OpenTerrain
  <1>6. NoOverlap'
    <2>1. \A o \in Objects : to \notin CellsOf(o)
      BY <1>1 DEF Inv, NoOverlap
    <2>2. \A o, p \in Objects : o # p => CellsOf(o)' \intersect CellsOf(p)' = {}
      BY <1>3, <2>1 DEF Inv, NoOverlap
    <2>3. \A o \in Objects : CellsOf(o)' \intersect fruit' = {}
      BY <1>1, <1>3 DEF Inv, NoOverlap
    <2>4. \A t \in Snakes : Distinct(snakes'[t])
      BY <1>2, InvFacts
    <2>5. QED
      BY <2>2, <2>3, <2>4 DEF NoOverlap, Distinct
  <1>7. QED
    BY <1>4, <1>5, <1>6 DEF Inv

LEMMA MoveInv ==
  ASSUME Inv, NEW s \in Snakes, NEW delta \in Steps, snakes[s] # <<>>, Move(s, delta)
  PROVE  Inv'
  <1> DEFINE to == snakes[s][1] + delta
  <1>1. /\ to \in Coord /\ delta \in Int
        /\ to \in OpenTerrain /\ to \notin fruit
        /\ \A o \in Objects : to \notin CellsOf(o)
        /\ fruit' = fruit /\ gadgets' = gadgets
    BY HeadFacts DEF Move, OpenTerrain, empty_terrain_at, no_object_at, ObjectsAt
  <1>2. /\ snakes' \in [Snakes -> Seq(Coord)]
        /\ Range(snakes'[s]) \subseteq CellsOf(s) \union {to}
        /\ Distinct(snakes'[s])
        /\ \A t \in Snakes \ {s} : snakes'[t] = snakes[t]
    <2>1. to \notin PushMapCells(s, s) /\ PushMapCells(s, s) \subseteq CellsOf(s)
      BY <1>1, InvFacts, AdvancedInPlay
    <2>2. /\ Advanced(s, delta) \in Seq(Coord)
          /\ Range(Advanced(s, delta)) \subseteq CellsOf(s) \union {to}
          /\ Distinct(Advanced(s, delta))
      BY <1>1, <2>1, AdvancedInPlay
    <2>3. snakes' = [snakes EXCEPT ![s] = Advanced(s, delta)] /\ snakes \in [Snakes -> Seq(Coord)]
      BY DEF Move, Inv, TypeOK
    <2>4. QED
      BY <2>2, <2>3
  <1> HIDE DEF to
  <1>3. /\ CellsOf(s)' \subseteq CellsOf(s) \union {to}
        /\ \A o \in Objects \ {s} : CellsOf(o)' = CellsOf(o)
    BY <1>1, <1>2 DEF CellsOf, GadgetCells
  <1>4. TypeOK'
    <2>1. StartPhysics
      BY DEF Move
    <2>2. QED
      BY <1>1, <1>2, <2>1, StartPhysicsType DEF Inv, TypeOK
  <1>5. InTheOpen'
    BY <1>1, <1>3, InvFacts DEF InTheOpen, OpenTerrain
  <1>6. NoOverlap'
    <2>1. \A o, p \in Objects : o # p => CellsOf(o)' \intersect CellsOf(p)' = {}
      BY <1>1, <1>3 DEF Inv, NoOverlap
    <2>2. \A o \in Objects : CellsOf(o)' \intersect fruit' = {}
      BY <1>1, <1>3 DEF Inv, NoOverlap
    <2>3. \A t \in Snakes : Distinct(snakes'[t])
      BY <1>2, InvFacts
    <2>4. QED
      BY <2>1, <2>2, <2>3 DEF NoOverlap, Distinct
  <1>7. QED
    BY <1>4, <1>5, <1>6 DEF Inv

\* Whatever is pushed has room, or pushes on what is there.
LEMMA PushableFacts ==
  ASSUME Inv, NEW s \in Snakes, NEW delta \in Steps, NEW S \in PushableSets(s, delta)
  PROVE  /\ S \subseteq Objects /\ s \notin S
         /\ PushMapObjectsAt(s, snakes[s][1] + delta) \subseteq S
         /\ \A o \in S : /\ InPlay(o)
                         /\ \A i \in CellsOf(o) : i + delta \in OpenTerrain /\ i + delta \notin fruit
                         /\ \A p \in Objects \ S :
                              \A i \in CellsOf(o) : i + delta \notin PushMapCells(s, p)
  <1>1. /\ S \subseteq Objects /\ s \notin S
        /\ PushMapObjectsAt(s, snakes[s][1] + delta) \subseteq S
        /\ \A o \in S : /\ InPlay(o)
                        /\ can_be_pushed(o, delta)
                        /\ Obstructing(s, o, delta) \subseteq S
    BY DEF PushableSets
  <1>2. \A o \in S : \A i \in CellsOf(o) : i + delta \in OpenTerrain /\ i + delta \notin fruit
    BY <1>1, InvFacts, StepInMap DEF can_be_pushed, empty_terrain_at, OpenTerrain
  <1>3. \A o \in S : \A p \in Objects \ S :
          \A i \in CellsOf(o) : i + delta \notin PushMapCells(s, p)
    BY <1>1 DEF Obstructing
  <1>4. QED
    BY <1>1, <1>2, <1>3

LEMMA PushInv ==
  ASSUME Inv, NEW s \in Snakes, NEW delta \in Steps, snakes[s] # <<>>, Push(s, delta)
  PROVE  Inv'
  <1> DEFINE to == snakes[s][1] + delta
  <1>1. PICK S \in PushableSets(s, delta) :
          /\ snakes' = [TranslatedSnakes(S, delta) EXCEPT ![s] = Advanced(s, delta)]
          /\ gadgets' = TranslatedGadgets(S, delta)
    BY DEF Push
  <1>2. /\ to \in Coord /\ delta \in Int /\ snakes[s][1] \in CellsOf(s) /\ s \in Objects
        /\ to \notin fruit /\ fruit' = fruit
        /\ PushMapObjectsAt(s, to) # {}
        /\ StartPhysics
    BY HeadFacts, InvFacts DEF Push
  <1>3. /\ S \subseteq Objects /\ s \notin S
        /\ PushMapObjectsAt(s, to) \subseteq S
        /\ \A o \in S : /\ InPlay(o)
                        /\ \A i \in CellsOf(o) : i + delta \in OpenTerrain /\ i + delta \notin fruit
                        /\ \A p \in Objects \ S :
                             \A i \in CellsOf(o) : i + delta \notin PushMapCells(s, p)
    BY PushableFacts
  <1>4. \A o \in Objects : o # s => PushMapCells(s, o) = CellsOf(o)
    BY DEF PushMapCells
  <1>5. to \in OpenTerrain /\ \A o \in Objects : to \in PushMapCells(s, o) => o \in S
    <2>1. \A o \in Objects : to \in PushMapCells(s, o) => o \in S
      BY <1>3 DEF PushMapObjectsAt
    <2>2. PICK o \in Objects : to \in PushMapCells(s, o)
      BY <1>2 DEF PushMapObjectsAt
    <2>3. to \in CellsOf(o)
      BY <1>3, <1>4, <2>1, <2>2
    <2>4. QED
      BY <2>1, <2>3, InvFacts
  <1>6. /\ Advanced(s, delta) \in Seq(Coord)
        /\ Range(Advanced(s, delta)) = PushMapCells(s, s) \union {to}
        /\ PushMapCells(s, s) \subseteq CellsOf(s)
        /\ Distinct(Advanced(s, delta))
    <2>1. to \notin PushMapCells(s, s)
      BY <1>2, <1>3, <1>5
    <2>2. QED
      BY <2>1, AdvancedInPlay
  <1>7. \A t \in Snakes \ {s} : /\ snakes'[t] = TranslatedSnakes(S, delta)[t]
                                /\ snakes'[t] \in Seq(Coord)
                                /\ Range(snakes'[t]) = Shifted(t, S, delta)
                                /\ Distinct(snakes'[t])
    <2> TAKE t \in Snakes \ {s}
    <2>1. snakes'[t] = TranslatedSnakes(S, delta)[t]
      BY <1>1 DEF TranslatedSnakes
    <2>2. t \in S => \A i \in CellsOf(t) : i + delta \in Coord
      BY <1>3 DEF OpenTerrain
    <2>3. QED
      BY <1>2, <2>1, <2>2, InvFacts, ShiftedSnake DEF Inv
  <1>8. snakes' \in [Snakes -> Seq(Coord)] /\ snakes'[s] = Advanced(s, delta)
    <2>1. TranslatedSnakes(S, delta) = [t \in Snakes |-> TranslatedSnakes(S, delta)[t]]
      BY DEF TranslatedSnakes
    <2>2. snakes'[s] = Advanced(s, delta) /\ snakes' = [t \in Snakes |-> snakes'[t]]
      BY <1>1, <2>1
    <2>3. QED
      BY <1>6, <1>7, <2>2
  <1>9. \A g \in Gadgets : gadgets'[g] \in Coord /\ GadgetCells(g)' = Shifted(g, S, delta)
    <2> TAKE g \in Gadgets
    <2>1. g \in S => InPlay(g) /\ \A i \in CellsOf(g) : i + delta \in OpenTerrain
      BY <1>3
    <2>2. /\ TranslatedGadgets(S, delta)[g] \in Coord
          /\ (IF TranslatedGadgets(S, delta)[g] = kGadgetDeleted THEN {}
              ELSE {TranslatedGadgets(S, delta)[g] + d : d \in Shape[g]}) = Shifted(g, S, delta)
      BY <1>2, <2>1, ShiftedGadget, OpenIsOnMap DEF Inv
    <2>3. QED
      BY <1>1, <2>2 DEF GadgetCells
  <1>10. gadgets' \in [Gadgets -> Coord]
    BY <1>1, <1>9 DEF TranslatedGadgets
  <1> HIDE DEF to
  <1>11. /\ CellsOf(s)' = PushMapCells(s, s) \union {to}
         /\ \A o \in Objects \ {s} : CellsOf(o)' = Shifted(o, S, delta)
    BY <1>6, <1>7, <1>8, <1>9, ObjectsType DEF CellsOf, Objects
  <1>12. TypeOK'
    BY <1>2, <1>8, <1>10, StartPhysicsType DEF Inv, TypeOK
  <1>13. InTheOpen'
    <2>1. \A o \in Objects : Shifted(o, S, delta) \subseteq OpenTerrain
      BY <1>3, InvFacts DEF Shifted
    <2>2. CellsOf(s)' \subseteq OpenTerrain
      BY <1>5, <1>6, <1>11, InvFacts
    <2>3. QED
      BY <1>11, <2>1, <2>2 DEF InTheOpen, OpenTerrain
  <1>14. \A o \in Objects \ {s} : CellsOf(o)' \intersect CellsOf(s)' = {}
    <2> TAKE o \in Objects \ {s}
    <2>1. CellsOf(o) \intersect CellsOf(s) = {} /\ CellsOf(o) \subseteq Int /\ CellsOf(s) \subseteq Int
      BY InvFacts DEF Inv, NoOverlap, Coord
    <2>2. CASE o \in S
      <3>1. \A i \in CellsOf(o) : i + delta \notin PushMapCells(s, s)
        BY <1>2, <1>3, <2>2
      <3>2. \A i \in CellsOf(o) : i + delta # to
        BY <1>2, <2>1 DEF to
      <3>3. QED
        BY <1>11, <2>2, <3>1, <3>2 DEF Shifted
    <2>3. CASE o \notin S
      <3>1. to \notin CellsOf(o)
        BY <1>4, <1>5, <2>3
      <3>2. QED
        BY <1>6, <1>11, <2>1, <2>3, <3>1 DEF Shifted
    <2>4. QED
      BY <2>2, <2>3
  <1>15. \A o, p \in Objects \ {s} : o # p => CellsOf(o)' \intersect CellsOf(p)' = {}
    <2> SUFFICES ASSUME NEW o \in Objects \ {s}, NEW p \in Objects \ {s}, o # p
                 PROVE  Shifted(o, S, delta) \intersect Shifted(p, S, delta) = {}
      BY <1>11
    <2>1. CellsOf(o) \intersect CellsOf(p) = {}
      BY DEF Inv, NoOverlap
    <2>2. o \in S /\ p \notin S => \A i \in CellsOf(o) : i + delta \notin CellsOf(p)
      BY <1>3, <1>4
    <2>3. p \in S /\ o \notin S => \A i \in CellsOf(p) : i + delta \notin CellsOf(o)
      BY <1>3, <1>4
    <2>4. QED
      BY <1>2, <2>1, <2>2, <2>3, ShiftKeepsApart DEF Inv
  <1>16. \A o \in Objects : CellsOf(o)' \intersect fruit' = {}
    <2>1. \A o \in Objects \ {s} : Shifted(o, S, delta) \intersect fruit = {}
      BY <1>3 DEF Shifted, Inv, NoOverlap
    <2>2. (PushMapCells(s, s) \union {to}) \intersect fruit = {}
      BY <1>2, <1>6, InvFacts DEF Inv, NoOverlap, to
    <2>3. QED
      BY <1>2, <1>11, <2>1, <2>2
  <1>17. NoOverlap'
    <2>1. \A o, p \in Objects : o # p => CellsOf(o)' \intersect CellsOf(p)' = {}
      BY <1>14, <1>15
    <2>2. \A t \in Snakes : Distinct(snakes'[t])
      BY <1>6, <1>7, <1>8
    <2>3. QED
      BY <1>16, <2>1, <2>2 DEF NoOverlap, Distinct
  <1>18. QED
    BY <1>12, <1>13, <1>17 DEF Inv

-----------------------------------------------------------------------------
(***************************************************************************)
(* The physics.                                                            *)
(***************************************************************************)
LEMMA CheckExitsInv == Inv /\ CheckExits => Inv'
  <1> SUFFICES ASSUME Inv, CheckExits PROVE Inv'
    OBVIOUS
  <1>1. /\ gadgets' = gadgets /\ fruit' = fruit /\ phase' = "teleports"
        /\ orig_tele_mask' = orig_tele_mask /\ recompute_falling' = recompute_falling
        /\ snakes' = [s \in Snakes |-> IF fruit = {} /\ HeadAtExit(s) THEN <<>> ELSE snakes[s]]
    BY DEF CheckExits
  <1>2. \A s \in Snakes : snakes'[s] = <<>> \/ snakes'[s] = snakes[s]
    BY <1>1
  <1>3. <<>> \in Seq(Coord) /\ Range(<<>>) = {} /\ Distinct(<<>>)
    BY EmptySeq DEF Range, Distinct
  <1>4. TypeOK'
    <2>1. snakes' \in [Snakes -> Seq(Coord)]
      BY <1>1, <1>2, <1>3, InvFacts
    <2>2. QED
      BY <1>1, <2>1 DEF Inv, TypeOK, Phase
  <1>5. \A o \in Objects : CellsOf(o)' \subseteq CellsOf(o)
    BY <1>1, <1>2, <1>3 DEF CellsOf, GadgetCells
  <1>6. InTheOpen'
    BY <1>5 DEF Inv, InTheOpen
  <1>7. NoOverlap'
    <2>1. \A o, p \in Objects : o # p => CellsOf(o)' \intersect CellsOf(p)' = {}
      BY <1>5 DEF Inv, NoOverlap
    <2>2. \A o \in Objects : CellsOf(o)' \intersect fruit' = {}
      BY <1>1, <1>5 DEF Inv, NoOverlap
    <2>3. \A s \in Snakes : Distinct(snakes'[s])
      BY <1>2, <1>3, InvFacts
    <2>4. QED
      BY <2>1, <2>2, <2>3 DEF NoOverlap, Distinct
  <1>8. QED
    BY <1>4, <1>6, <1>7 DEF Inv

\* There are no teleporters, or the two halves of one pair.
LEMMA TeleporterFacts ==
  /\ \A t, u \in Teleporters : t = u
  /\ \A c \in TeleporterCells : /\ c \in Coord /\ OtherSide(c) \in Coord
                                /\ \A d \in TeleporterCells : d # c => d = OtherSide(c)
  <1>1. IsFiniteSet(Teleporters)
    <2>1. IsFiniteSet(Coord)
      BY MapSizeType, FS_Interval DEF Coord
    <2>2. IsFiniteSet(Coord \X Coord)
      BY <2>1, FS_Product
    <2>3. Teleporters \subseteq Coord \X Coord
      BY TerrainAssumption DEF LegalTerrain
    <2>4. QED
      BY <2>2, <2>3, FS_Subset
  <1>2. \A t, u \in Teleporters : t = u
    <2>1. Cardinality(Teleporters) \in {0, 1}
      BY TerrainAssumption, SetupAssumption DEF LegalSetup, LegalTerrain
    <2>2. Teleporters = {} \/ \E t : Teleporters = {t}
      BY <1>1, <2>1, FS_EmptySet, FS_Singleton
    <2>3. QED
      BY <2>2
  <1>3. ASSUME NEW c \in TeleporterCells
        PROVE  /\ c \in Coord /\ OtherSide(c) \in Coord
               /\ \A d \in TeleporterCells : d # c => d = OtherSide(c)
    <2>1. PICK t \in Teleporters : c = t[1] \/ c = t[2]
      BY DEF TeleporterCells
    <2>2. t = <<t[1], t[2]>> /\ t[1] \in Coord /\ t[2] \in Coord /\ t[1] # t[2]
      BY TerrainAssumption DEF LegalTerrain
    <2>3. TeleporterCells = {t[1], t[2]}
      BY <1>2 DEF TeleporterCells
    <2>4. \A d : <<c, d>> \in Teleporters \/ <<d, c>> \in Teleporters
                   <=> d \in {t[1], t[2]} /\ d # c
      <3>1. \A d : <<c, d>> \in Teleporters <=> <<c, d>> = t
        BY <1>2
      <3>2. \A d : <<d, c>> \in Teleporters <=> <<d, c>> = t
        BY <1>2
      <3>3. QED
        BY <2>1, <2>2, <3>1, <3>2
    <2>5. \E d \in TeleporterCells : d # c
      BY <2>1, <2>2, <2>3
    <2>6. OtherSide(c) \in TeleporterCells /\ OtherSide(c) # c
      BY <2>3, <2>4, <2>5 DEF OtherSide
    <2>7. QED
      BY <2>1, <2>2, <2>3, <2>6
  <1>4. QED
    BY <1>2, <1>3

\* If something fits through from one half, the other half is free.
LEMMA OneTeleporting ==
  ASSUME Inv, NEW x \in Teleporting, NEW y \in Teleporting
  PROVE  x = y
  <1>1. /\ x \in TeleporterCells \X Objects /\ x[1] \in CellsOf(x[2])
        /\ y \in TeleporterCells \X Objects /\ y[1] \in CellsOf(y[2])
        /\ Fits(x[2], Jump(x))
    BY DEF Teleporting, NewOverlap, teleporter_overlap
  <1>2. CASE x[1] = y[1]
    <2>1. x[2] = y[2]
      BY <1>1, <1>2 DEF Inv, NoOverlap
    <2>2. QED
      BY <1>1, <1>2, <2>1
  <1>3. CASE x[1] # y[1]
    <2>1. y[1] = OtherSide(x[1]) /\ x[1] \in Coord /\ OtherSide(x[1]) \in Coord
      BY <1>1, <1>3, TeleporterFacts
    <2>2. x[1] + Jump(x) = y[1]
      BY <2>1 DEF Jump, Coord
    <2>3. no_object_at(y[1])
      BY <1>1, <2>2 DEF Fits
    <2>4. QED
      BY <1>1, <2>3 DEF no_object_at, ObjectsAt
  <1>4. QED
    BY <1>2, <1>3

\* A Teleport step moves one object to where nothing was.
LEMMA TeleportStep ==
  ASSUME Inv, Teleport
  PROVE  \E a \in Objects, delta \in Int :
           /\ InPlay(a)
           /\ \A i \in CellsOf(a) : i + delta \in OpenTerrain /\ no_object_at(i + delta)
           /\ snakes' = TranslatedSnakes({a}, delta)
           /\ gadgets' = TranslatedGadgets({a}, delta)
           /\ fruit' = fruit /\ phase' = "exits"
           /\ orig_tele_mask' = teleporter_overlap'
           /\ recompute_falling' = recompute_falling
  <1>1. PICK x \in Teleporting : Teleporting = {x}
    BY OneTeleporting DEF Teleport
  <1> DEFINE a     == x[2]
             delta == Jump(x)
  <1>2. /\ a \in Objects /\ InPlay(a) /\ delta \in Int
        /\ \A i \in CellsOf(a) : /\ i + delta \in OpenTerrain
                                 /\ no_object_at(i + delta)
    <2>1. x \in TeleporterCells \X Objects /\ x[1] \in CellsOf(a) /\ Fits(a, delta)
      BY DEF Teleporting, NewOverlap, teleporter_overlap
    <2>2. delta \in Int
      BY <2>1, TeleporterFacts DEF Jump, Coord
    <2>3. QED
      BY <2>1, <2>2 DEF Fits, InPlay, OpenTerrain, empty_terrain_at
  <1>3. /\ snakes' = [s \in Snakes |-> IF s = a THEN TranslatedSnakes({a}, delta)[s] ELSE snakes[s]]
        /\ gadgets' = [g \in Gadgets |-> IF g = a THEN gadgets[g] + delta ELSE gadgets[g]]
        /\ fruit' = fruit /\ phase' = "exits"
        /\ orig_tele_mask' = teleporter_overlap'
        /\ recompute_falling' = recompute_falling
    <2>1. {y[2] : y \in Teleporting} = {a}
      BY <1>1
    <2>2. (CHOOSE y \in Teleporting : y[2] = a) = x
      BY <1>1
    <2>3. QED
      BY <2>1, <2>2, SMTT(60) DEF Teleport
  <1> HIDE DEF a, delta
  <1>4. snakes' = TranslatedSnakes({a}, delta) /\ gadgets' = TranslatedGadgets({a}, delta)
    BY <1>3 DEF TranslatedSnakes, TranslatedGadgets
  <1>5. QED
    BY <1>2, <1>3, <1>4

LEMMA TeleportInv == Inv /\ Teleport => Inv'
  <1> SUFFICES ASSUME Inv, Teleport PROVE Inv'
    OBVIOUS
  <1>1. PICK a \in Objects, delta \in Int :
           /\ InPlay(a)
           /\ \A i \in CellsOf(a) : i + delta \in OpenTerrain /\ no_object_at(i + delta)
           /\ snakes' = TranslatedSnakes({a}, delta)
           /\ gadgets' = TranslatedGadgets({a}, delta)
           /\ fruit' = fruit /\ phase' = "exits"
           /\ orig_tele_mask' = teleporter_overlap'
           /\ recompute_falling' = recompute_falling
    BY TeleportStep
  <1>2. \A s \in Snakes : /\ snakes'[s] \in Seq(Coord)
                          /\ Range(snakes'[s]) = Shifted(s, {a}, delta)
                          /\ Distinct(snakes'[s])
    <2> TAKE s \in Snakes
    <2>1. s \in {a} => \A i \in CellsOf(s) : i + delta \in Coord
      BY <1>1 DEF OpenTerrain
    <2>2. QED
      BY <1>1, <2>1, InvFacts, ShiftedSnake DEF Inv
  <1>3. \A g \in Gadgets : gadgets'[g] \in Coord /\ GadgetCells(g)' = Shifted(g, {a}, delta)
    <2> TAKE g \in Gadgets
    <2>1. g \in {a} => InPlay(g) /\ \A i \in CellsOf(g) : i + delta \in OpenTerrain
      BY <1>1
    <2>2. /\ TranslatedGadgets({a}, delta)[g] \in Coord
          /\ (IF TranslatedGadgets({a}, delta)[g] = kGadgetDeleted THEN {}
              ELSE {TranslatedGadgets({a}, delta)[g] + d : d \in Shape[g]}) = Shifted(g, {a}, delta)
      BY <1>1, <2>1, ShiftedGadget, OpenIsOnMap DEF Inv
    <2>3. QED
      BY <1>1, <2>2 DEF GadgetCells
  <1>4. \A o \in Objects : CellsOf(o)' = Shifted(o, {a}, delta)
    BY <1>2, <1>3, ObjectsType DEF CellsOf, Objects
  <1>5. TypeOK'
    <2>1. snakes' \in [Snakes -> Seq(Coord)]
      BY <1>1, <1>2 DEF TranslatedSnakes
    <2>2. gadgets' \in [Gadgets -> Coord]
      BY <1>1, <1>3 DEF TranslatedGadgets
    <2>3. orig_tele_mask' \subseteq TeleporterCells \X Objects
      BY <1>1 DEF teleporter_overlap
    <2>4. QED
      BY <1>1, <2>1, <2>2, <2>3 DEF Inv, TypeOK, Phase
  <1>6. InTheOpen'
    <2>1. \A o \in Objects : Shifted(o, {a}, delta) \subseteq OpenTerrain
      BY <1>1, InvFacts DEF Shifted
    <2>2. QED
      BY <1>4, <2>1 DEF InTheOpen, OpenTerrain
  <1>7. NoOverlap'
    <2>1. \A o \in Objects : \A i \in CellsOf(a) : i + delta \notin CellsOf(o) /\ i + delta \notin fruit
      BY <1>1 DEF no_object_at, ObjectsAt
    <2>2. \A o, p \in Objects : o # p => CellsOf(o)' \intersect CellsOf(p)' = {}
      <3> SUFFICES ASSUME NEW o \in Objects, NEW p \in Objects, o # p
                   PROVE  Shifted(o, {a}, delta) \intersect Shifted(p, {a}, delta) = {}
        BY <1>4
      <3>1. CellsOf(o) \intersect CellsOf(p) = {}
        BY DEF Inv, NoOverlap
      <3>2. QED
        BY <1>1, <2>1, <3>1, ShiftKeepsApart DEF Inv
    <2>3. \A o \in Objects : CellsOf(o)' \intersect fruit' = {}
      BY <1>1, <1>4, <2>1 DEF Shifted, Inv, NoOverlap
    <2>4. QED
      BY <1>2, <2>2, <2>3 DEF NoOverlap, Distinct
  <1>8. QED
    BY <1>5, <1>6, <1>7 DEF Inv

\* What falls stands on nothing but what falls with it.
LEMMA FallingFacts ==
  ASSUME NEW C \in SUBSET Objects
  PROVE  /\ Falling(C) \subseteq C
         /\ \A o \in Falling(C) : /\ InPlay(o) /\ ~Grounded(o)
                                  /\ StandsOn(o) \subseteq Falling(C)
  BY DEF Falling

LEMMA FallInv == Inv /\ Fall => Inv'
  <1> SUFFICES ASSUME Inv, Fall PROVE Inv'
    OBVIOUS
  <1> DEFINE S == Falling(recompute_falling)
             D == DestroyedGadgets(S)
  <1>1. /\ PerishingSnakes(S) = {}
        /\ snakes' = TranslatedSnakes(S, W)
        /\ gadgets' = [g \in Gadgets |-> IF g \in D THEN kGadgetDeleted ELSE TranslatedGadgets(S, W)[g]]
        /\ recompute_falling' = S /\ phase' = "exits"
        /\ fruit' = fruit /\ orig_tele_mask' = orig_tele_mask
    BY DEF Fall, Drop
  <1>2. /\ S \subseteq Objects
        /\ \A o \in S : InPlay(o) /\ ~Grounded(o) /\ StandsOn(o) \subseteq S
    BY FallingFacts DEF Inv, TypeOK
  <1>3. \A s \in S \intersect Snakes : \A i \in CellsOf(s) : Terrain[i + W] \notin {"water", "spike"}
    BY <1>1 DEF PerishingSnakes, Hits
  <1>4. \A g \in (S \intersect Gadgets) \ D : \A i \in CellsOf(g) : Terrain[i + W] # "water"
    BY DEF DestroyedGadgets, Hits
  <1> HIDE DEF S, D
  <1>5. W \in Steps /\ W \in Int
    BY DownIsAStep, MapSizeType
  <1>6. \A o \in S : \A i \in CellsOf(o) :
          /\ i + W \in Coord /\ i + W \notin fruit
          /\ \A p \in Objects \ S : i + W \notin CellsOf(p)
    <2> TAKE o \in S
    <2> TAKE i \in CellsOf(o)
    <2>1. i + W \in Coord
      BY <1>2, <1>5, InvFacts, StepInMap
    <2>2. i + W \notin fruit
      BY <1>2 DEF Grounded
    <2>3. \A p \in Objects \ S : i + W \notin CellsOf(p)
      BY <1>2 DEF StandsOn
    <2>4. QED
      BY <2>1, <2>2, <2>3
  <1>7. \A o \in S \ D : \A i \in CellsOf(o) : i + W \in OpenTerrain
    <2> TAKE o \in S \ D
    <2> TAKE i \in CellsOf(o)
    <2>1. i + W \in Coord /\ Terrain[i + W] \in Material
      BY <1>6, TerrainAssumption DEF LegalTerrain
    <2>2. Terrain[i + W] # "ground"
      BY <1>2 DEF Grounded
    <2>3. CASE o \in Snakes
      BY <1>3, <2>1, <2>2, <2>3 DEF OpenTerrain, Material
    <2>4. CASE o \in Gadgets
      <3>1. Terrain[i + W] # "spike"
        BY <1>2, <2>4 DEF Grounded
      <3>2. QED
        BY <1>4, <2>1, <2>2, <2>4, <3>1 DEF OpenTerrain, Material
    <2>5. QED
      BY <1>2, <2>3, <2>4 DEF Objects
  <1>8. D \subseteq Gadgets
    BY DEF D, DestroyedGadgets
  <1>9. \A s \in Snakes : /\ snakes'[s] \in Seq(Coord)
                          /\ Range(snakes'[s]) = Shifted(s, S, W)
                          /\ Distinct(snakes'[s])
    <2> TAKE s \in Snakes
    <2>1. s \in S => \A i \in CellsOf(s) : i + W \in Coord
      BY <1>6
    <2>2. QED
      BY <1>1, <1>5, <2>1, InvFacts, ShiftedSnake DEF Inv
  <1>10. \A g \in Gadgets : /\ gadgets'[g] \in Coord
                            /\ GadgetCells(g)' = IF g \in D THEN {} ELSE Shifted(g, S, W)
    <2> TAKE g \in Gadgets
    <2>1. CASE g \in D
      BY <1>1, <2>1, MapSizeType, SetupAssumption DEF GadgetCells, kGadgetDeleted, Coord, MapSize, LegalSetup
    <2>2. CASE g \notin D
      <3>1. gadgets'[g] = TranslatedGadgets(S, W)[g]
        BY <1>1, <2>2
      <3>2. g \in S => InPlay(g) /\ \A i \in CellsOf(g) : i + W \in OpenTerrain
        BY <1>2, <1>7, <2>2
      <3>3. /\ TranslatedGadgets(S, W)[g] \in Coord
            /\ (IF TranslatedGadgets(S, W)[g] = kGadgetDeleted THEN {}
                ELSE {TranslatedGadgets(S, W)[g] + d : d \in Shape[g]}) = Shifted(g, S, W)
        BY <1>5, <3>2, ShiftedGadget, OpenIsOnMap DEF Inv
      <3>4. QED
        BY <2>2, <3>1, <3>3 DEF GadgetCells
    <2>3. QED
      BY <2>1, <2>2
  <1>11. \A o \in Objects : /\ CellsOf(o)' \subseteq Shifted(o, S, W)
                            /\ o \in D => CellsOf(o)' = {}
    BY <1>8, <1>9, <1>10, ObjectsType DEF CellsOf, Objects
  <1>12. TypeOK'
    <2>1. snakes' \in [Snakes -> Seq(Coord)]
      BY <1>1, <1>9 DEF TranslatedSnakes
    <2>2. gadgets' \in [Gadgets -> Coord]
      BY <1>1, <1>10
    <2>3. QED
      BY <1>1, <1>2, <2>1, <2>2 DEF Inv, TypeOK, Phase
  <1>13. InTheOpen'
    <2>1. \A o \in Objects \ D : Shifted(o, S, W) \subseteq OpenTerrain
      BY <1>7, InvFacts DEF Shifted
    <2>2. QED
      BY <1>11, <2>1 DEF InTheOpen, OpenTerrain
  <1>14. NoOverlap'
    <2>1. \A o, p \in Objects : o # p => CellsOf(o)' \intersect CellsOf(p)' = {}
      <3> SUFFICES ASSUME NEW o \in Objects, NEW p \in Objects, o # p
                   PROVE  Shifted(o, S, W) \intersect Shifted(p, S, W) = {}
        BY <1>11
      <3>1. CellsOf(o) \intersect CellsOf(p) = {}
        BY DEF Inv, NoOverlap
      <3>2. QED
        BY <1>5, <1>6, <3>1, ShiftKeepsApart DEF Inv
    <2>2. \A o \in Objects : CellsOf(o)' \intersect fruit' = {}
      BY <1>1, <1>6, <1>11 DEF Shifted, Inv, NoOverlap
    <2>3. \A s \in Snakes : Distinct(snakes'[s])
      BY <1>9
    <2>4. QED
      BY <2>1, <2>2, <2>3 DEF NoOverlap, Distinct
  <1>15. QED
    BY <1>12, <1>13, <1>14 DEF Inv

\* What drops together with a snake that perishes is still apart, on the map.
LEMMA PerishInv == Inv /\ Perish => TypeOK' /\ NoOverlap'
  <1> SUFFICES ASSUME Inv, Perish PROVE TypeOK' /\ NoOverlap'
    OBVIOUS
  <1> DEFINE S == Falling(recompute_falling)
  <1>1. /\ snakes' = TranslatedSnakes(S, W) /\ gadgets' = TranslatedGadgets(S, W)
        /\ phase' = "lost"
        /\ fruit' = fruit /\ orig_tele_mask' = orig_tele_mask
        /\ recompute_falling' = recompute_falling
    BY DEF Perish
  <1>2. /\ S \subseteq Objects
        /\ \A o \in S : InPlay(o) /\ ~Grounded(o) /\ StandsOn(o) \subseteq S
    BY FallingFacts DEF Inv, TypeOK
  <1> HIDE DEF S
  <1>3. W \in Steps /\ W \in Int /\ W > 0
    BY DownIsAStep, MapSizeType
  <1>4. \A o \in S : \A i \in CellsOf(o) :
          /\ i + W \in Coord \ {kGadgetDeleted} /\ i + W \notin fruit
          /\ \A p \in Objects \ S : i + W \notin CellsOf(p)
    <2> TAKE o \in S
    <2> TAKE i \in CellsOf(o)
    <2>1. i + W \in Coord /\ i \in Nat
      BY <1>2, <1>3, InvFacts, StepInMap DEF Coord
    <2>2. i + W # kGadgetDeleted
      BY <1>3, <2>1 DEF kGadgetDeleted
    <2>3. i + W \notin fruit
      BY <1>2 DEF Grounded
    <2>4. \A p \in Objects \ S : i + W \notin CellsOf(p)
      BY <1>2 DEF StandsOn
    <2>5. QED
      BY <2>1, <2>2, <2>3, <2>4
  <1>5. \A s \in Snakes : /\ snakes'[s] \in Seq(Coord)
                          /\ Range(snakes'[s]) = Shifted(s, S, W)
                          /\ Distinct(snakes'[s])
    <2> TAKE s \in Snakes
    <2>1. s \in S => \A i \in CellsOf(s) : i + W \in Coord
      BY <1>4
    <2>2. QED
      BY <1>1, <1>3, <2>1, InvFacts, ShiftedSnake DEF Inv
  <1>6. \A g \in Gadgets : gadgets'[g] \in Coord /\ GadgetCells(g)' = Shifted(g, S, W)
    <2> TAKE g \in Gadgets
    <2>1. g \in S => InPlay(g) /\ \A i \in CellsOf(g) : i + W \in Coord \ {kGadgetDeleted}
      BY <1>2, <1>4
    <2>2. /\ TranslatedGadgets(S, W)[g] \in Coord
          /\ (IF TranslatedGadgets(S, W)[g] = kGadgetDeleted THEN {}
              ELSE {TranslatedGadgets(S, W)[g] + d : d \in Shape[g]}) = Shifted(g, S, W)
      BY <1>3, <2>1, ShiftedGadget DEF Inv
    <2>3. QED
      BY <1>1, <2>2 DEF GadgetCells
  <1>7. \A o \in Objects : CellsOf(o)' = Shifted(o, S, W)
    BY <1>5, <1>6, ObjectsType DEF CellsOf, Objects
  <1>8. TypeOK'
    <2>1. snakes' \in [Snakes -> Seq(Coord)]
      BY <1>1, <1>5 DEF TranslatedSnakes
    <2>2. gadgets' \in [Gadgets -> Coord]
      BY <1>1, <1>6 DEF TranslatedGadgets
    <2>3. QED
      BY <1>1, <2>1, <2>2 DEF Inv, TypeOK, Phase
  <1>9. NoOverlap'
    <2>1. \A o, p \in Objects : o # p => CellsOf(o)' \intersect CellsOf(p)' = {}
      <3> SUFFICES ASSUME NEW o \in Objects, NEW p \in Objects, o # p
                   PROVE  Shifted(o, S, W) \intersect Shifted(p, S, W) = {}
        BY <1>7
      <3>1. CellsOf(o) \intersect CellsOf(p) = {}
        BY DEF Inv, NoOverlap
      <3>2. QED
        BY <1>3, <1>4, <3>1, ShiftKeepsApart DEF Inv
    <2>2. \A o \in Objects : CellsOf(o)' \intersect fruit' = {}
      BY <1>1, <1>4, <1>7 DEF Shifted, Inv, NoOverlap
    <2>3. \A s \in Snakes : Distinct(snakes'[s])
      BY <1>5
    <2>4. QED
      BY <2>1, <2>2, <2>3 DEF NoOverlap, Distinct
  <1>10. QED
    BY <1>8, <1>9

-----------------------------------------------------------------------------
(***************************************************************************)
(* Canonicalization.  The gadgets are sorted by shape already, so sorting  *)
(* them by shape first cannot give a gadget the offset of one of another   *)
(* shape: if it gave one a larger shape, the gadgets from there on would   *)
(* all have to find room among those after it.                             *)
(***************************************************************************)
LEMMA SortKeepsShape ==
  ASSUME NEW p \in [Gadgets -> Gadgets], SortsGadgets(p), NEW g \in Gadgets
  PROVE  Shape[p[g]] = Shape[g]
  <1>1. Gadgets = (SnakeCount + 1) .. ObjCount /\ SnakeCount \in Nat /\ ObjCount \in Nat
    BY SetupAssumption DEF Gadgets, ObjCount, LegalSetup
  <1>2. \A a, b \in Gadgets : a # b => p[a] # p[b]
    BY DEF SortsGadgets, Bijection, Injection, IsInjective
  <1>3. \A a \in Gadgets : ShapeRank[a] \in Nat /\ p[a] \in Gadgets
    BY ObjectsAssumption DEF LegalObjects
  <1>4. \A a, b \in Gadgets : a <= b => ShapeRank[a] <= ShapeRank[b]
    BY <1>1, <1>3, ObjectsAssumption DEF LegalObjects
  <1>5. \A a, b \in Gadgets : a <= b => ShapeRank[p[a]] <= ShapeRank[p[b]]
    <2> SUFFICES ASSUME NEW a \in Gadgets, NEW b \in Gadgets, a < b
                 PROVE  ShapeRank[p[a]] <= ShapeRank[p[b]]
      BY <1>1, <1>3, SMTT(60)
    <2>1. ~GadgetBefore(p[b], p[a])
      BY DEF SortsGadgets
    <2>2. QED
      BY <1>3, <2>1 DEF GadgetBefore
  <1>6. ASSUME ShapeRank[p[g]] > ShapeRank[g] PROVE FALSE
    <2> DEFINE A == g .. ObjCount
               B == (g + 1) .. ObjCount
               f == [a \in A |-> p[a]]
    <2>1. /\ A \subseteq Gadgets /\ g \in A /\ g \in Int
          /\ SnakeCount + 1 <= g /\ g <= ObjCount
      BY <1>1
    <2>2. \A a \in A : p[a] \in B
      <3> TAKE a \in A
      <3>1. a \in Gadgets /\ g <= a /\ p[a] \in Gadgets /\ p[g] \in Gadgets
        BY <1>3, <2>1
      <3>2. ShapeRank[p[a]] >= ShapeRank[p[g]]
        BY <1>3, <1>5, <3>1
      <3>0. ShapeRank[p[a]] \in Nat /\ ShapeRank[p[g]] \in Nat /\ ShapeRank[g] \in Nat
        BY <1>3, <3>1
      <3>3. ShapeRank[p[a]] > ShapeRank[g]
        BY <3>0, <1>6, <3>1, <3>2
      <3>4. ~(p[a] <= g)
        <4>1. p[a] <= g => ShapeRank[p[a]] <= ShapeRank[g]
          BY <1>4, <3>1
        <4>2. QED
          BY <3>0, <3>3, <4>1
      <3>5. QED
        BY <1>1, <2>1, <3>1, <3>4
    <2>3. f \in [A -> B]
      BY <2>2
    <2>4. IsFiniteSet(A) /\ Cardinality(A) = ObjCount - g + 1
      <3>1. g \in Int /\ ObjCount \in Int /\ ~(g > ObjCount)
        BY <1>1, <2>1
      <3>2. IsFiniteSet(A) /\ Cardinality(A) = ObjCount - g + 1
        BY <3>1, FS_Interval
      <3>3. QED
        BY <1>1, <2>1, <3>2
    <2>5. IsFiniteSet(B) /\ Cardinality(B) = ObjCount - g
      <3>1. (g + 1) \in Int /\ ObjCount \in Int
        BY <1>1, <2>1
      <3>2. IsFiniteSet(B) /\ Cardinality(B) = IF (g + 1) > ObjCount THEN 0 ELSE ObjCount - (g + 1) + 1
        BY <3>1, FS_Interval
      <3>3. QED
        BY <1>1, <2>1, <3>2
    <2>6. Cardinality(B) < Cardinality(A)
      BY <1>1, <2>1, <2>4, <2>5
    <2> HIDE DEF A, B, f
    <2>7. \E a, b \in A : a # b /\ f[a] = f[b]
      BY <2>3, <2>4, <2>5, <2>6, FS_PigeonHole
    <2>8. QED
      BY <1>2, <2>1, <2>7 DEF f
  <1>7. ASSUME ShapeRank[p[g]] < ShapeRank[g] PROVE FALSE
    <2> DEFINE A == (SnakeCount + 1) .. g
               B == (SnakeCount + 1) .. (g - 1)
               f == [a \in A |-> p[a]]
    <2>1. /\ A \subseteq Gadgets /\ g \in A /\ g \in Int
          /\ SnakeCount + 1 <= g /\ g <= ObjCount
      BY <1>1
    <2>2. \A a \in A : p[a] \in B
      <3> TAKE a \in A
      <3>1. a \in Gadgets /\ a <= g /\ p[a] \in Gadgets /\ p[g] \in Gadgets
        BY <1>3, <2>1
      <3>2. ShapeRank[p[a]] <= ShapeRank[p[g]]
        BY <1>3, <1>5, <3>1
      <3>0. ShapeRank[p[a]] \in Nat /\ ShapeRank[p[g]] \in Nat /\ ShapeRank[g] \in Nat
        BY <1>3, <3>1
      <3>3. ShapeRank[p[a]] < ShapeRank[g]
        BY <3>0, <1>7, <3>1, <3>2
      <3>4. ~(g <= p[a])
        <4>1. g <= p[a] => ShapeRank[g] <= ShapeRank[p[a]]
          BY <1>4, <3>1
        <4>2. QED
          BY <3>0, <3>3, <4>1
      <3>5. QED
        BY <1>1, <2>1, <3>1, <3>4
    <2>3. f \in [A -> B]
      BY <2>2
    <2>4. IsFiniteSet(A) /\ Cardinality(A) = g - SnakeCount
      <3>1. (SnakeCount + 1) \in Int /\ g \in Int /\ ~((SnakeCount + 1) > g)
        BY <1>1, <2>1
      <3>2. IsFiniteSet(A) /\ Cardinality(A) = g - (SnakeCount + 1) + 1
        BY <3>1, FS_Interval
      <3>3. QED
        BY <1>1, <2>1, <3>2
    <2>5. IsFiniteSet(B) /\ Cardinality(B) = g - SnakeCount - 1
      <3>1. (SnakeCount + 1) \in Int /\ (g - 1) \in Int
        BY <1>1, <2>1
      <3>2. IsFiniteSet(B) /\ Cardinality(B) = IF (SnakeCount + 1) > (g - 1) THEN 0 ELSE (g - 1) - (SnakeCount + 1) + 1
        BY <3>1, FS_Interval
      <3>3. QED
        BY <1>1, <2>1, <3>2
    <2>6. Cardinality(B) < Cardinality(A)
      BY <1>1, <2>1, <2>4, <2>5
    <2> HIDE DEF A, B, f
    <2>7. \E a, b \in A : a # b /\ f[a] = f[b]
      BY <2>3, <2>4, <2>5, <2>6, FS_PigeonHole
    <2>8. QED
      BY <1>2, <2>1, <2>7 DEF f
  <1>8. ShapeRank[p[g]] = ShapeRank[g]
    BY <1>3, <1>6, <1>7
  <1>9. QED
    BY <1>3, <1>8, ObjectsAssumption DEF LegalObjects

\* After canonicalize each object has the place of an old one of its kind.
LEMMA SettleRenames ==
  ASSUME Inv, Settle
  PROVE  \E r \in [Objects -> Objects] :
            /\ \A o, p \in Objects : o # p => r[o] # r[p]
            /\ \A p \in Objects : \E o \in Objects : r[o] = p
            /\ \A o \in Objects : (o \in Snakes <=> r[o] \in Snakes) /\ CellsOf(o)' = CellsOf(r[o])
            /\ \A s \in Snakes : snakes'[s] = snakes[r[s]]
            /\ \A g \in Gadgets : gadgets'[g] = gadgets[r[g]]
  <1>1. PICK p \in [Snakes -> Snakes] :
          SortsSnakes(p) /\ snakes' = [s \in Snakes |-> snakes[p[s]]]
    BY DEF Settle
  <1>2. PICK q \in [Gadgets -> Gadgets] :
          SortsGadgets(q) /\ gadgets' = [g \in Gadgets |-> gadgets[q[g]]]
    BY DEF Settle
  <1> DEFINE r == [o \in Objects |-> IF o \in Snakes THEN p[o] ELSE q[o]]
  <1>3. /\ \A s \in Snakes : s \in Objects /\ r[s] = p[s] /\ r[s] \in Snakes
        /\ \A g \in Gadgets : g \in Objects /\ r[g] = q[g] /\ r[g] \in Gadgets
    BY ObjectsType DEF Objects
  <1>4. r \in [Objects -> Objects]
    BY <1>3 DEF Objects
  <1> HIDE DEF r
  <1>5. ASSUME NEW o \in Objects, NEW a \in Objects, o # a PROVE r[o] # r[a]
    <2>1. \A s, t \in Snakes : s # t => p[s] # p[t]
      BY <1>1 DEF SortsSnakes, Bijection, Injection, IsInjective
    <2>2. \A g, h \in Gadgets : g # h => q[g] # q[h]
      BY <1>2 DEF SortsGadgets, Bijection, Injection, IsInjective
    <2>3. QED
      BY <1>3, <1>5, <2>1, <2>2, ObjectsType DEF Objects
  <1>6. \A s \in Snakes : snakes'[s] = snakes[r[s]] /\ CellsOf(s)' = CellsOf(r[s])
    BY <1>1, <1>3 DEF CellsOf
  <1>7. \A g \in Gadgets : gadgets'[g] = gadgets[r[g]] /\ CellsOf(g)' = CellsOf(r[g])
    <2> TAKE g \in Gadgets
    <2>1. gadgets'[g] = gadgets[r[g]]
      BY <1>2, <1>3
    <2>2. Shape[r[g]] = Shape[g]
      BY <1>2, <1>3, SortKeepsShape
    <2>3. g \notin Snakes /\ r[g] \notin Snakes
      BY <1>3, ObjectsType
    <2>4. QED
      BY <2>1, <2>2, <2>3 DEF CellsOf, GadgetCells
  <1>8. \A o \in Objects : o \in Snakes <=> r[o] \in Snakes
    BY <1>3, ObjectsType DEF Objects
  <1>9. \A o \in Objects : \E a \in Objects : r[a] = o
    <2>1. \A t \in Snakes : \E s \in Snakes : p[s] = t
      BY <1>1 DEF SortsSnakes, Bijection, Surjection
    <2>2. \A h \in Gadgets : \E g \in Gadgets : q[g] = h
      BY <1>2 DEF SortsGadgets, Bijection, Surjection
    <2>3. QED
      BY <1>3, <2>1, <2>2 DEF Objects
  <1>10. QED
    BY <1>4, <1>5, <1>6, <1>7, <1>8, <1>9, ZenonT(60) DEF Objects

LEMMA SettleInv == Inv /\ Settle => Inv'
  <1> SUFFICES ASSUME Inv, Settle PROVE Inv'
    OBVIOUS
  <1>1. PICK r \in [Objects -> Objects] :
            /\ \A o, p \in Objects : o # p => r[o] # r[p]
            /\ \A o \in Objects : (o \in Snakes <=> r[o] \in Snakes) /\ CellsOf(o)' = CellsOf(r[o])
            /\ \A s \in Snakes : snakes'[s] = snakes[r[s]]
            /\ \A g \in Gadgets : gadgets'[g] = gadgets[r[g]]
    BY SettleRenames
  <1>2. /\ fruit' = fruit /\ phase' = "moves" /\ orig_tele_mask' = {} /\ recompute_falling' = {}
        /\ snakes' = [s \in Snakes |-> snakes'[s]] /\ gadgets' = [g \in Gadgets |-> gadgets'[g]]
    BY DEF Settle
  <1>3. \A s \in Snakes : r[s] \in Snakes
    BY <1>1, InvFacts
  <1>4. \A g \in Gadgets : r[g] \in Gadgets
    BY <1>1, InvFacts, ObjectsType DEF Objects
  <1>5. TypeOK'
    <2>1. snakes' \in [Snakes -> Seq(Coord)]
      BY <1>1, <1>2, <1>3, InvFacts
    <2>2. gadgets' \in [Gadgets -> Coord]
      BY <1>1, <1>2, <1>4, InvFacts
    <2>3. QED
      BY <1>2, <2>1, <2>2 DEF Inv, TypeOK, Phase
  <1>6. InTheOpen'
    BY <1>1 DEF Inv, InTheOpen
  <1>7. NoOverlap'
    <2>1. \A o, p \in Objects : o # p => CellsOf(o)' \intersect CellsOf(p)' = {}
      BY <1>1 DEF Inv, NoOverlap
    <2>2. \A o \in Objects : CellsOf(o)' \intersect fruit' = {}
      BY <1>1, <1>2 DEF Inv, NoOverlap
    <2>3. \A s \in Snakes : Distinct(snakes'[s])
      BY <1>1, <1>3, InvFacts
    <2>4. QED
      BY <2>1, <2>2, <2>3 DEF NoOverlap, Distinct
  <1>8. QED
    BY <1>5, <1>6, <1>7 DEF Inv

\* A step that leaves everything where it is.
LEMMA StillInv ==
  ASSUME Inv, UNCHANGED <<snakes, gadgets, fruit>>, phase' \in Phase,
         orig_tele_mask' \subseteq TeleporterCells \X Objects,
         recompute_falling' \subseteq Objects
  PROVE  Inv'
  <1>1. snakes' = snakes /\ gadgets' = gadgets /\ fruit' = fruit
    OBVIOUS
  <1>2. \A o \in Objects : CellsOf(o)' = CellsOf(o)
    BY <1>1 DEF CellsOf, GadgetCells
  <1>3. TypeOK'
    BY <1>1 DEF Inv, TypeOK
  <1>4. InTheOpen'
    BY <1>2 DEF Inv, InTheOpen
  <1>5. NoOverlap'
    BY <1>1, <1>2 DEF Inv, NoOverlap
  <1>6. QED
    BY <1>3, <1>4, <1>5 DEF Inv

LEMMA NextInv == Inv /\ [Next]_vars /\ ~Perish => Inv'
  <1> SUFFICES ASSUME Inv, [Next]_vars, ~Perish PROVE Inv'
    OBVIOUS
  <1>1. CASE PlayerMove
    <2>1. PICK s \in Snakes, delta \in Steps :
            /\ snakes[s] # <<>>
            /\ Grow(s, delta) \/ Move(s, delta) \/ Push(s, delta)
      BY <1>1 DEF PlayerMove
    <2>2. QED
      BY <2>1, GrowInv, MoveInv, PushInv
  <1>2. CASE CheckExits
    BY <1>2, CheckExitsInv
  <1>3. CASE Teleport
    BY <1>3, TeleportInv
  <1>4. CASE NoTeleport
    BY <1>4, StillInv DEF NoTeleport, teleporter_overlap, Phase, Inv, TypeOK
  <1>5. CASE TeleportOffMap
    BY <1>5, StillInv DEF TeleportOffMap, Phase, Inv, TypeOK
  <1>6. CASE Fall
    BY <1>6, FallInv
  <1>8. CASE Settle
    BY <1>8, SettleInv
  <1>9. CASE UNCHANGED vars
    BY <1>9, StillInv DEF vars, Inv, TypeOK
  <1>10. QED
    BY <1>1, <1>2, <1>3, <1>4, <1>5, <1>6, <1>8, <1>9 DEF Next, Physics

LEMMA LostIsLeft == phase = "lost" /\ [Next]_vars => UNCHANGED vars
  BY DEF Next, PlayerMove, Physics, CheckExits, Teleport, NoTeleport, TeleportOffMap, Fall,
         Perish, Settle

LEMMA IInvNext == IInv /\ [Next]_vars => IInv'
  <1> SUFFICES ASSUME IInv, [Next]_vars PROVE IInv'
    OBVIOUS
  <1>1. CASE phase = "lost"
    <2>1. UNCHANGED vars
      BY <1>1, LostIsLeft
    <2>2. \A o \in Objects : CellsOf(o)' = CellsOf(o)
      BY <2>1 DEF vars, CellsOf, GadgetCells
    <2>3. QED
      BY <2>1, <2>2 DEF vars, IInv, TypeOK, NoOverlap, InOpenTerrain
  <1>2. CASE phase # "lost" /\ Perish
    <2>1. TypeOK' /\ NoOverlap'
      BY <1>2, IInvIsInv, PerishInv
    <2>2. phase' = "lost"
      BY <1>2 DEF Perish
    <2>3. QED
      BY <2>1, <2>2 DEF IInv, InOpenTerrain
  <1>3. CASE phase # "lost" /\ ~Perish
    <2>1. Inv'
      BY <1>3, IInvIsInv, NextInv
    <2>2. QED
      BY <2>1 DEF Inv, InTheOpen, IInv, InOpenTerrain
  <1>4. QED
    BY <1>1, <1>2, <1>3

-----------------------------------------------------------------------------
\* The three parts of the invariant hold in every reachable state, whatever
\* the level: snakes and gadgets are pushed, fall and teleport without ever
\* sharing a cell or entering a wall.
THEOREM Invariance == Spec => []IInv
  <1>1. Init => IInv
    BY InitInv DEF Inv, InTheOpen, IInv, InOpenTerrain
  <1>2. QED
    BY <1>1, IInvNext, PTL DEF Spec

\* Every variable keeps its type.
THEOREM TypeCorrect == Spec => []TypeOK
  BY Invariance, PTL DEF IInv

\* The arrays ObjMap draws are unambiguous: no two things share a cell.
THEOREM ObjectsApart == Spec => []NoOverlap
  BY Invariance, PTL DEF IInv

\* Objects stay on empty terrain, and so the neighbours the code looks at
\* without a bounds check are on the map.
THEOREM ObjectsInTheOpen == Spec => []InOpenTerrain
  BY Invariance, PTL DEF IInv

-----------------------------------------------------------------------------
(***************************************************************************)
(* The bodies of the snakes.                                               *)
(***************************************************************************)
Linked(body) == \A i \in 1 .. (Len(body) - 1) : body[i] - body[i + 1] \in Steps

LEMMA GrownLinked ==
  ASSUME NEW s \in Snakes, snakes[s] \in Seq(Coord), snakes[s] # <<>>, NEW delta \in Steps,
         snakes[s][1] + delta \in Coord, Linked(snakes[s])
  PROVE  Linked(Grown(s, delta))
  <1> DEFINE b == snakes[s]
             g == Grown(s, delta)
  <1>1. /\ Len(b) \in Nat \ {0} /\ b \in [1 .. Len(b) -> Coord]
        /\ delta \in Int /\ Len(g) = Len(b) + 1
    BY EmptySeq, LenProperties, StepsType, GrownBody
  <1>2. g[1] = b[1] + delta /\ \A i \in 2 .. (Len(b) + 1) : g[i] = b[i - 1]
    BY <1>1 DEF Grown
  <1>3. \A i \in 1 .. Len(b) : b[i] \in Int
    BY <1>1 DEF Coord
  <1> SUFFICES ASSUME NEW i \in 1 .. Len(b) PROVE g[i] - g[i + 1] \in Steps
    BY <1>1 DEF Linked
  <1> HIDE DEF b, g
  <1>4. CASE i = 1
    <2>1. g[2] = b[1] /\ b[1] \in Int
      BY <1>1, <1>2, <1>3
    <2>2. g[i] - g[i + 1] = delta
      BY <1>1, <1>2, <1>4, <2>1
    <2>3. QED
      BY <2>2
  <1>5. CASE i # 1
    <2>1. i - 1 \in 1 .. (Len(b) - 1) /\ g[i] = b[i - 1] /\ g[i + 1] = b[(i - 1) + 1]
      BY <1>1, <1>2, <1>5
    <2>2. b[i - 1] - b[(i - 1) + 1] \in Steps
      BY <2>1 DEF Linked, b
    <2>3. QED
      BY <2>1, <2>2
  <1>6. QED
    BY <1>4, <1>5

LEMMA AdvancedLinked ==
  ASSUME NEW s \in Snakes, snakes[s] \in Seq(Coord), snakes[s] # <<>>, NEW delta \in Steps,
         snakes[s][1] + delta \in Coord, Linked(snakes[s])
  PROVE  Linked(Advanced(s, delta))
  <1> DEFINE b == snakes[s]
             a == Advanced(s, delta)
  <1>1. /\ Len(b) \in Nat \ {0} /\ b \in [1 .. Len(b) -> Coord]
        /\ delta \in Int /\ Len(a) = Len(b)
    BY EmptySeq, LenProperties, StepsType, AdvancedBody
  <1>2. a[1] = b[1] + delta /\ \A i \in 2 .. Len(b) : a[i] = b[i - 1]
    BY <1>1 DEF Advanced
  <1>3. \A i \in 1 .. Len(b) : b[i] \in Int
    BY <1>1 DEF Coord
  <1> SUFFICES ASSUME NEW i \in 1 .. (Len(b) - 1) PROVE a[i] - a[i + 1] \in Steps
    BY <1>1 DEF Linked
  <1> HIDE DEF b, a
  <1>4. CASE i = 1
    <2>1. a[2] = b[1] /\ b[1] \in Int
      BY <1>1, <1>2, <1>3, <1>4
    <2>2. a[i] - a[i + 1] = delta
      BY <1>1, <1>2, <1>4, <2>1
    <2>3. QED
      BY <2>2
  <1>5. CASE i # 1
    <2>1. i - 1 \in 1 .. (Len(b) - 1) /\ a[i] = b[i - 1] /\ a[i + 1] = b[(i - 1) + 1]
      BY <1>1, <1>2, <1>5
    <2>2. b[i - 1] - b[(i - 1) + 1] \in Steps
      BY <2>1 DEF Linked, b
    <2>3. QED
      BY <2>1, <2>2
  <1>6. QED
    BY <1>4, <1>5

LEMMA TranslatedLinked ==
  ASSUME Inv, NEW S, NEW delta \in Int, NEW s \in Snakes, Linked(snakes[s]),
         s \in S => \A i \in CellsOf(s) : i + delta \in Coord
  PROVE  Linked(TranslatedSnakes(S, delta)[s])
  <1> DEFINE b == snakes[s]
             c == TranslatedSnakes(S, delta)[s]
  <1>1. /\ Len(b) \in Nat /\ b \in [1 .. Len(b) -> Coord] /\ DOMAIN b = 1 .. Len(b)
        /\ Len(c) = Len(b)
    BY InvFacts, LenProperties, ShiftedSnake DEF Inv
  <1>2. CASE s \notin S
    <2>1. c = b
      BY <1>2 DEF TranslatedSnakes
    <2>2. QED
      BY <2>1
  <1>3. CASE s \in S
    <2>1. \A i \in 1 .. Len(b) : c[i] = b[i] + delta /\ b[i] \in Int
      BY <1>1, <1>3 DEF TranslatedSnakes, Coord
    <2> HIDE DEF c
    <2>2. SUFFICES ASSUME NEW i \in 1 .. (Len(b) - 1) PROVE c[i] - c[i + 1] \in Steps
      BY <1>1 DEF Linked, c
    <2>3. i \in 1 .. Len(b) /\ i + 1 \in 1 .. Len(b)
      BY <1>1
    <2>4. c[i] - c[i + 1] = b[i] - b[i + 1]
      BY <2>1, <2>3
    <2>5. QED
      BY <2>4 DEF Linked
  <1>4. QED
    BY <1>2, <1>3

-----------------------------------------------------------------------------
(***************************************************************************)
(* What one step does to one snake.                                        *)
(***************************************************************************)
SnakeInv == SnakesConnected /\ SnakesFitTheirArrays

LEMMA SnakeInvFacts ==
  SnakeInv <=> \A s \in Snakes : /\ Linked(snakes[s])
                                 /\ Len(snakes[s]) + Cardinality(fruit) <= SnakeMaxLen
  BY DEF SnakeInv, SnakesConnected, SnakesFitTheirArrays, Linked

LEMMA FruitIsFinite == Inv => IsFiniteSet(fruit) /\ Cardinality(fruit) \in Nat
  <1>1. IsFiniteSet(Coord)
    BY MapSizeType, FS_Interval DEF Coord
  <1>2. Inv => fruit \subseteq Coord
    BY TerrainAssumption DEF Inv, TypeOK, LegalTerrain
  <1>3. QED
    BY <1>1, <1>2, FS_Subset, FS_CardinalityType

\* A snake that keeps its links and its length, while no fruit appears.
LEMMA TranslatedSnakeInv ==
  ASSUME Inv, SnakeInv, NEW S, NEW delta \in Int, NEW s \in Snakes,
         s \in S => \A i \in CellsOf(s) : i + delta \in Coord,
         snakes'[s] = TranslatedSnakes(S, delta)[s], fruit' = fruit
  PROVE  Linked(snakes'[s]) /\ Len(snakes'[s]) + Cardinality(fruit') <= SnakeMaxLen
  <1>1. Linked(snakes[s]) /\ Len(snakes[s]) + Cardinality(fruit) <= SnakeMaxLen
    BY SnakeInvFacts
  <1>2. Len(TranslatedSnakes(S, delta)[s]) = Len(snakes[s])
    BY ShiftedSnake DEF Inv
  <1>3. Linked(TranslatedSnakes(S, delta)[s])
    BY <1>1, TranslatedLinked
  <1>4. QED
    BY <1>1, <1>2, <1>3

LEMMA SnakeInvInit == Init => SnakeInv
  <1> SUFFICES ASSUME Init, NEW s \in Snakes
               PROVE  /\ Linked(InitSnakes[s])
                      /\ Len(InitSnakes[s]) + Cardinality(Fruit) <= SnakeMaxLen
    BY DEF Init, SnakeInv, SnakesConnected, SnakesFitTheirArrays, Linked
  <1>1. QED
    BY ObjectsAssumption, TerrainAssumption DEF Linked, LegalTerrain, LegalObjects

LEMMA PlayerMoveSnakeInv == Inv /\ SnakeInv /\ PlayerMove => SnakeInv'
  <1> SUFFICES ASSUME Inv, SnakeInv, PlayerMove, NEW t \in Snakes
               PROVE  Linked(snakes'[t]) /\ Len(snakes'[t]) + Cardinality(fruit') <= SnakeMaxLen
    BY DEF SnakeInv, SnakesConnected, SnakesFitTheirArrays, Linked
  <1>1. PICK s \in Snakes, delta \in Steps :
          snakes[s] # <<>> /\ (Grow(s, delta) \/ Move(s, delta) \/ Push(s, delta))
    BY DEF PlayerMove
  <1>2. /\ Linked(snakes[t]) /\ Len(snakes[t]) + Cardinality(fruit) <= SnakeMaxLen
        /\ Linked(snakes[s]) /\ Len(snakes[s]) + Cardinality(fruit) <= SnakeMaxLen
    BY SnakeInvFacts
  <1>3. /\ snakes[s] \in Seq(Coord) /\ snakes[s][1] + delta \in Coord /\ delta \in Int
        /\ snakes[t] \in Seq(Coord) /\ snakes \in [Snakes -> Seq(Coord)]
        /\ Len(snakes[s]) \in Nat /\ Len(snakes[t]) \in Nat
    BY <1>1, InvFacts, HeadFacts, LenProperties DEF Inv, TypeOK
  <1>4. Cardinality(fruit) \in Nat /\ IsFiniteSet(fruit)
    BY FruitIsFinite
  <1>5. CASE Grow(s, delta)
    <2>1. Cardinality(fruit') = Cardinality(fruit) - 1
      BY <1>4, <1>5, FS_RemoveElement, ZenonT(60) DEF Grow
    <2>2. snakes' = [snakes EXCEPT ![s] = Grown(s, delta)]
      BY <1>5 DEF Grow
    <2>3. CASE t = s
      <3>1. Linked(Grown(s, delta)) /\ Len(Grown(s, delta)) = Len(snakes[s]) + 1
        BY <1>1, <1>2, <1>3, GrownLinked, GrownBody
      <3>2. snakes'[t] = Grown(s, delta)
        BY <1>3, <2>2, <2>3
      <3>3. QED
        BY <1>2, <1>3, <1>4, <2>1, <3>1, <3>2, SetupAssumption DEF LegalSetup
    <2>4. CASE t # s
      <3>1. snakes'[t] = snakes[t]
        BY <1>3, <2>2, <2>4
      <3>2. QED
        BY <1>2, <1>3, <1>4, <2>1, <3>1, SetupAssumption DEF LegalSetup
    <2>5. QED
      BY <2>3, <2>4
  <1>6. Linked(Advanced(s, delta)) /\ Len(Advanced(s, delta)) = Len(snakes[s])
    BY <1>1, <1>2, <1>3, AdvancedLinked, AdvancedBody
  <1>7. CASE Move(s, delta)
    <2>1. fruit' = fruit /\ snakes' = [snakes EXCEPT ![s] = Advanced(s, delta)]
      BY <1>7 DEF Move
    <2>2. QED
      BY <1>2, <1>3, <1>6, <2>1
  <1>8. CASE Push(s, delta)
    <2>1. PICK S \in PushableSets(s, delta) :
            snakes' = [TranslatedSnakes(S, delta) EXCEPT ![s] = Advanced(s, delta)]
      BY <1>8 DEF Push
    <2>2. fruit' = fruit
      BY <1>8 DEF Push
    <2>3. CASE t = s
      <3>1. snakes'[t] = Advanced(s, delta)
        BY <2>1, <2>3 DEF TranslatedSnakes
      <3>2. QED
        BY <1>2, <1>6, <2>2, <3>1
    <2>4. CASE t # s
      <3>1. snakes'[t] = TranslatedSnakes(S, delta)[t]
        BY <2>1, <2>4 DEF TranslatedSnakes
      <3>2. t \in S => \A i \in CellsOf(t) : i + delta \in Coord
        BY PushableFacts DEF OpenTerrain
      <3>3. QED
        BY <1>3, <2>2, <3>1, <3>2, TranslatedSnakeInv
    <2>5. QED
      BY <2>3, <2>4
  <1>9. QED
    BY <1>1, <1>5, <1>7, <1>8

LEMMA PhysicsSnakeInv == Inv /\ SnakeInv /\ Physics => SnakeInv'
  <1> SUFFICES ASSUME Inv, SnakeInv, Physics, NEW t \in Snakes
               PROVE  Linked(snakes'[t]) /\ Len(snakes'[t]) + Cardinality(fruit') <= SnakeMaxLen
    BY DEF SnakeInv, SnakesConnected, SnakesFitTheirArrays, Linked
  <1>1. Linked(snakes[t]) /\ Len(snakes[t]) + Cardinality(fruit) <= SnakeMaxLen
    BY SnakeInvFacts
  <1>2. CASE UNCHANGED <<snakes, fruit>>
    BY <1>1, <1>2
  <1>3. CASE CheckExits
    <2>1. fruit' = fruit /\ (snakes'[t] = snakes[t] \/ snakes'[t] = <<>>)
      BY <1>3 DEF CheckExits
    <2>2. Len(<<>>) = 0 /\ Linked(<<>>)
      BY DEF Linked
    <2>3. Len(snakes[t]) \in Nat /\ Cardinality(fruit) \in Nat
      BY InvFacts, LenProperties, FruitIsFinite
    <2>4. QED
      BY <1>1, <2>1, <2>2, <2>3, SetupAssumption DEF LegalSetup
  <1>4. CASE Teleport
    <2>1. PICK a \in Objects, delta \in Int :
             /\ \A i \in CellsOf(a) : i + delta \in OpenTerrain
             /\ snakes' = TranslatedSnakes({a}, delta)
             /\ fruit' = fruit
      BY <1>4, TeleportStep
    <2>2. t \in {a} => \A i \in CellsOf(t) : i + delta \in Coord
      BY <2>1 DEF OpenTerrain
    <2>3. QED
      BY <2>1, <2>2, TranslatedSnakeInv
  <1>5. CASE Fall \/ Perish
    <2>1. snakes' = TranslatedSnakes(Falling(recompute_falling), W) /\ fruit' = fruit
      BY <1>5 DEF Fall, Drop, Perish
    <2>2. t \in Objects /\ \A i \in CellsOf(t) : i + W \in Coord
      BY InvFacts, StepInMap, DownIsAStep
    <2>3. W \in Int
      BY MapSizeType
    <2>4. QED
      BY <2>1, <2>2, <2>3, TranslatedSnakeInv
  <1>6. CASE Settle
    <2>1. PICK r \in [Objects -> Objects] :
            /\ \A o \in Objects : o \in Snakes <=> r[o] \in Snakes
            /\ \A s \in Snakes : snakes'[s] = snakes[r[s]]
      BY <1>6, SettleRenames
    <2>2. r[t] \in Snakes /\ snakes'[t] = snakes[r[t]] /\ fruit' = fruit
      BY <1>6, <2>1, InvFacts DEF Settle
    <2>3. QED
      BY <2>2, SnakeInvFacts
  <1>7. QED
    BY <1>2, <1>3, <1>4, <1>5, <1>6 DEF Physics, NoTeleport, TeleportOffMap

LEMMA SnakeInvNext == IInv /\ SnakeInv /\ [Next]_vars => SnakeInv'
  <1>1. ASSUME SnakeInv, UNCHANGED vars PROVE SnakeInv'
    BY <1>1 DEF vars, SnakeInv, SnakesConnected, SnakesFitTheirArrays
  <1>2. QED
    BY <1>1, LostIsLeft, IInvIsInv, PlayerMoveSnakeInv, PhysicsSnakeInv DEF Next

-----------------------------------------------------------------------------
LEMMA SnakeInvariance == Spec => []SnakeInv
  BY Invariance, SnakeInvInit, SnakeInvNext, PTL DEF Spec

\* Every snake stays a chain of neighbouring cells, so tail_ can describe it.
THEOREM BodiesConnected == Spec => []SnakesConnected
  BY SnakeInvariance, PTL DEF SnakeInv

\* No snake ever needs more segments than Snake::i_ has, given the capacity
\* that Map's constructor asks for.
THEOREM BodiesFit == Spec => []SnakesFitTheirArrays
  BY SnakeInvariance, PTL DEF SnakeInv

\* At most one overlap at a time leads through a teleporter.
THEOREM OneTeleport == Spec => []OneTeleportAtATime
  <1>1. IInv => OneTeleportAtATime
    <2> SUFFICES ASSUME IInv, phase = "teleports" PROVE Cardinality(Teleporting) <= 1
      BY DEF OneTeleportAtATime
    <2>1. Teleporting = {} \/ \E x : Teleporting = {x}
      BY IInvIsInv, OneTeleporting
    <2>2. Cardinality({}) = 0
      BY FS_EmptySet
    <2>3. \A x : Cardinality({x}) = 1
      BY FS_Singleton
    <2>4. Cardinality(Teleporting) \in {0, 1}
      <3>1. CASE Teleporting = {}
        BY <2>2, <3>1
      <3>2. CASE \E x : Teleporting = {x}
        BY <2>3, <3>2
      <3>3. QED
        BY <2>1, <3>1, <3>2
    <2>5. QED
      BY <2>4
  <1>2. QED
    BY <1>1, Invariance, PTL

\* canonicalize only renames: the set of bodies on the map stays the same.
THEOREM CanonicalizeRenames == Spec => CanonicalizeKeepsBodies
  <1>1. IInv /\ [Next]_vars => [phase = "gravity" /\ phase' = "moves" => Bodies' = Bodies]_vars
    <2> SUFFICES ASSUME IInv, Next, phase = "gravity", phase' = "moves"
                 PROVE  Bodies' = Bodies
      OBVIOUS
    <2>1. Settle
      BY DEF Next, PlayerMove, Grow, Move, Push, StartPhysics, Physics, CheckExits, Teleport,
             NoTeleport, TeleportOffMap, Fall, Perish
    <2>2. PICK p \in [Snakes -> Snakes] :
            SortsSnakes(p) /\ snakes' = [s \in Snakes |-> snakes[p[s]]]
      BY <2>1 DEF Settle
    <2>3. PICK q \in [Gadgets -> Gadgets] :
            SortsGadgets(q) /\ gadgets' = [g \in Gadgets |-> gadgets[q[g]]]
      BY <2>1 DEF Settle
    <2>4. {<<"snake", snakes'[s]>> : s \in Snakes} = {<<"snake", snakes[s]>> : s \in Snakes}
      <3>1. \A s \in Snakes : snakes'[s] = snakes[p[s]] /\ p[s] \in Snakes
        BY <2>2
      <3>2. \A t \in Snakes : \E s \in Snakes : p[s] = t
        BY <2>2 DEF SortsSnakes, Bijection, Surjection
      <3>3. QED
        BY <3>1, <3>2
    <2>5. {<<"gadget", GadgetCells(g)'>> : g \in Gadgets} = {<<"gadget", GadgetCells(g)>> : g \in Gadgets}
      <3>1. \A g \in Gadgets : GadgetCells(g)' = GadgetCells(q[g]) /\ q[g] \in Gadgets
        <4> TAKE g \in Gadgets
        <4>1. gadgets'[g] = gadgets[q[g]] /\ Shape[q[g]] = Shape[g]
          BY <2>3, SortKeepsShape
        <4>2. QED
          BY <4>1 DEF GadgetCells
      <3>2. \A h \in Gadgets : \E g \in Gadgets : q[g] = h
        BY <2>3 DEF SortsGadgets, Bijection, Surjection
      <3>3. QED
        BY <3>1, <3>2
    <2>6. QED
      BY <2>4, <2>5 DEF Bodies
  <1>2. QED
    BY <1>1, Invariance, PTL DEF Spec, CanonicalizeKeepsBodies

-----------------------------------------------------------------------------
(***************************************************************************)
(* Columns.  Between cells that are in the open a step changes the column  *)
(* as it should, since the border is in between one row and the next.      *)
(***************************************************************************)
LEMMA ColumnFound ==
  ASSUME NEW q \in Int, NEW r \in 0 .. W - 1
  PROVE  Column(W * q + r) = r
  <1>1. W \in Nat \ {0}
    BY MapSizeType
  <1>2. W * q + r \in Int
    BY <1>1
  <1>3. QED
    BY <1>1, <1>2, DivisionFound DEF Column

LEMMA ColumnFacts ==
  ASSUME NEW i \in Nat
  PROVE  \E q \in Nat : Column(i) \in 0 .. W - 1 /\ i = W * q + Column(i)
  <1>1. W \in Nat \ {0}
    BY MapSizeType
  <1>2. QED
    BY <1>1, DivisionFacts DEF Column

LEMMA DownKeepsColumn ==
  ASSUME NEW i \in Nat
  PROVE  Column(i + W) = Column(i)
  <1>1. PICK q \in Nat : Column(i) \in 0 .. W - 1 /\ i = W * q + Column(i)
    BY ColumnFacts
  <1>2. i + W = W * (q + 1) + Column(i)
    BY <1>1, MapSizeType
  <1>3. QED
    BY <1>1, <1>2, ColumnFound

LEMMA StepColumn ==
  ASSUME NEW i \in OpenTerrain, NEW j \in OpenTerrain, j - i \in Steps
  PROVE  /\ Column(i) \in Int /\ Column(j) \in Int
         /\ Column(j) - Column(i) = IF j - i \in {1, -1} THEN j - i ELSE 0
  <1>1. i \in Nat /\ j \in Nat /\ i \notin Border
    BY TerrainAssumption DEF OpenTerrain, LegalTerrain, Coord
  <1>2. PICK q \in Nat : Column(i) \in 0 .. W - 1 /\ i = W * q + Column(i)
    BY <1>1, ColumnFacts
  <1>3. Column(i) # 0 /\ Column(i) # W - 1
    BY <1>1 DEF Border, Column, OpenTerrain
  <1>4. W \in Nat /\ W >= 3
    BY MapSizeType
  <1> DEFINE r == Column(i)
  <1>5. r \in 1 .. W - 2 /\ i = W * q + r
    BY <1>2, <1>3, <1>4
  <1> HIDE DEF r
  <1>6. CASE j - i = 1
    <2>1. j = W * q + (r + 1) /\ r + 1 \in 0 .. W - 1
      BY <1>1, <1>4, <1>5, <1>6
    <2>2. Column(j) = r + 1
      BY <2>1, ColumnFound
    <2>3. QED
      BY <1>5, <1>6, <2>2 DEF r
  <1>7. CASE j - i = -1
    <2>1. j = W * q + (r - 1) /\ r - 1 \in 0 .. W - 1
      BY <1>1, <1>4, <1>5, <1>7
    <2>2. Column(j) = r - 1
      BY <2>1, ColumnFound
    <2>3. QED
      BY <1>5, <1>7, <2>2 DEF r
  <1>8. CASE j - i = W
    <2>1. j = W * (q + 1) + r /\ r \in 0 .. W - 1
      BY <1>1, <1>4, <1>5, <1>8
    <2>2. Column(j) = r
      BY <2>1, ColumnFound
    <2>3. QED
      BY <1>4, <1>5, <1>8, <2>2 DEF r
  <1>9. CASE j - i = -W
    <2>1. j = W * (q - 1) + r /\ r \in 0 .. W - 1 /\ q - 1 \in Int
      BY <1>1, <1>4, <1>5, <1>9
    <2>2. Column(j) = r
      BY <2>1, ColumnFound
    <2>3. QED
      BY <1>4, <1>5, <1>9, <2>2 DEF r
  <1>10. QED
    BY <1>6, <1>7, <1>8, <1>9, StepsType

\* A gadget whose parts hang together lies in the open in one way only.
LEMMA SameColumns ==
  ASSUME NEW g \in Gadgets, Connected(g), NEW a \in Int, NEW delta \in Int,
         \A d \in Shape[g] : a + d \in OpenTerrain /\ (a + d) + delta \in OpenTerrain
  PROVE  \A d \in Shape[g] :
           Column((a + d) + delta) - Column(a + d) = Column((a + 0) + delta) - Column(a + 0)
  <1>1. Shape[g] \subseteq Nat /\ 0 \in Shape[g]
    BY ObjectsAssumption DEF LegalObjects
  <1> DEFINE Gap(d) == Column((a + d) + delta) - Column(a + d)
             S == {d \in Shape[g] : Gap(d) = Gap(0)}
  <1>2. 0 \in S
    BY <1>1
  <1>3. ASSUME NEW d \in S, NEW e \in Shape[g], e - d \in Steps PROVE e \in S
    <2>1. (a + e) - (a + d) = e - d /\ ((a + e) + delta) - ((a + d) + delta) = e - d
      BY <1>1
    <2>2. /\ a + d \in OpenTerrain /\ a + e \in OpenTerrain
          /\ (a + d) + delta \in OpenTerrain /\ (a + e) + delta \in OpenTerrain
      OBVIOUS
    <2>3. /\ Column(a + d) \in Int /\ Column(a + e) \in Int
          /\ Column(a + e) - Column(a + d) = IF e - d \in {1, -1} THEN e - d ELSE 0
      BY <1>3, <2>1, <2>2, StepColumn
    <2>4. /\ Column((a + d) + delta) \in Int /\ Column((a + e) + delta) \in Int
          /\ Column((a + e) + delta) - Column((a + d) + delta) = IF e - d \in {1, -1} THEN e - d ELSE 0
      BY <1>3, <2>1, <2>2, StepColumn
    <2>5. Gap(e) = Gap(d)
      BY <1>1, <2>3, <2>4
    <2>6. QED
      BY <2>5
  <1>4. S = Shape[g]
    BY <1>2, <1>3 DEF Connected
  <1>5. QED
    BY <1>4

LEMMA GadgetInOpen ==
  ASSUME Inv, NEW g \in Gadgets, InPlay(g)
  PROVE  /\ gadgets[g] \in Nat
         /\ CellsOf(g) = {gadgets[g] + d : d \in Shape[g]}
         /\ CellsOf(g) \subseteq OpenTerrain /\ CellsOf(g) \subseteq Nat
  <1>1. g \in Objects /\ g \notin Snakes
    BY ObjectsType DEF Objects
  <1>2. CellsOf(g) \subseteq OpenTerrain
    BY <1>1 DEF Inv, InTheOpen
  <1>3. QED
    BY <1>1, <1>2 DEF InPlay, CellsOf, GadgetCells, Inv, TypeOK, Coord, OpenTerrain

LEMMA MovesWhole ==
  ASSUME Inv, Next, NothingSparseTeleports, NEW g \in Gadgets,
         phase' # "moves", InPlay(g), InPlay(g)'
  PROVE  KeepsShape(g, gadgets'[g] - gadgets[g])
  <1> SUFFICES ASSUME NEW i \in CellsOf(g), NEW j \in CellsOf(g)
               PROVE  Column(i + (gadgets'[g] - gadgets[g])) - Column(i)
                        = Column(j + (gadgets'[g] - gadgets[g])) - Column(j)
    BY DEF KeepsShape
  <1> DEFINE delta == gadgets'[g] - gadgets[g]
             here == CellsOf(g)
  <1>1. /\ gadgets[g] \in Nat /\ here = {gadgets[g] + d : d \in Shape[g]}
        /\ here \subseteq OpenTerrain /\ here \subseteq Nat
    BY GadgetInOpen
  <1>2. i \in here /\ j \in here /\ g \in Objects /\ g \notin Snakes
    BY ObjectsType DEF Objects
  <1> HIDE DEF here
  <1>3. Column(i) - Column(i) = 0 /\ Column(j) - Column(j) = 0
    <2>1. i \in Nat /\ j \in Nat
      BY <1>1, <1>2
    <2>2. Column(i) \in Nat /\ Column(j) \in Nat
      BY <2>1, MapSizeType, ColumnFacts
    <2>3. QED
      BY <2>2
  <1>4. CASE gadgets'[g] = gadgets[g]
    <2>1. delta = 0 /\ i + 0 = i /\ j + 0 = j
      BY <1>1, <1>2, <1>4
    <2>2. QED
      BY <1>3, <2>1
  <1>5. CASE gadgets'[g] = gadgets[g] + W
    <2>1. delta = W
      BY <1>1, <1>5, MapSizeType
    <2>2. Column(i + W) = Column(i) /\ Column(j + W) = Column(j)
      BY <1>1, <1>2, DownKeepsColumn
    <2>3. QED
      BY <1>3, <2>1, <2>2
  <1>6. CASE \E s \in Snakes, d \in Steps : Push(s, d)
    <2>1. PICK s \in Snakes, d \in Steps : Push(s, d)
      BY <1>6
    <2>2. PICK S \in PushableSets(s, d) : gadgets' = TranslatedGadgets(S, d)
      BY <2>1 DEF Push
    <2>3. CASE g \notin S
      BY <1>4, <2>2, <2>3 DEF TranslatedGadgets
    <2>4. CASE g \in S
      <3>1. d \in Int
        BY StepsType
      <3>2. delta = d
        BY <1>1, <2>2, <2>4, <3>1 DEF TranslatedGadgets
      <3>3. i + d \in OpenTerrain /\ j + d \in OpenTerrain
        BY <2>4, PushableFacts
      <3>4. (i + d) - i = d /\ (j + d) - j = d
        BY <1>1, <1>2, <3>1
      <3>5. /\ Column(i + d) - Column(i) = IF d \in {1, -1} THEN d ELSE 0
            /\ Column(j + d) - Column(j) = IF d \in {1, -1} THEN d ELSE 0
        BY <1>1, <1>2, <3>3, <3>4, StepColumn
      <3>6. QED
        BY <3>2, <3>5
    <2>5. QED
      BY <2>3, <2>4
  <1>7. CASE Teleport
    <2>1. PICK a \in Objects, d \in Int :
             /\ \A k \in CellsOf(a) : k + d \in OpenTerrain
             /\ gadgets' = TranslatedGadgets({a}, d)
      BY <1>7, TeleportStep
    <2>2. CASE g # a
      BY <1>4, <2>1, <2>2 DEF TranslatedGadgets
    <2>3. CASE g = a
      <3>1. delta = d
        BY <1>1, <2>1, <2>3 DEF TranslatedGadgets
      <3>2. Connected(g)
        <4>1. Teleporters # {}
          BY <1>7 DEF Teleport, Teleporting, NewOverlap, teleporter_overlap, TeleporterCells
        <4>2. QED
          BY <4>1 DEF NothingSparseTeleports
      <3>3. \A e \in Shape[g] : gadgets[g] + e \in OpenTerrain /\ (gadgets[g] + e) + d \in OpenTerrain
        BY <1>1, <2>1, <2>3 DEF here
      <3>4. gadgets[g] \in Int /\ d \in Int
        BY <1>1
      <3>5. \A e \in Shape[g] :
              Column((gadgets[g] + e) + d) - Column(gadgets[g] + e)
                = Column((gadgets[g] + 0) + d) - Column(gadgets[g] + 0)
        BY <3>2, <3>3, <3>4, SameColumns
      <3>6. \A k \in here :
              Column(k + d) - Column(k) = Column((gadgets[g] + 0) + d) - Column(gadgets[g] + 0)
        BY <1>1, <3>5
      <3>7. QED
        BY <1>2, <3>1, <3>6
    <2>4. QED
      BY <2>2, <2>3
  <1>8. CASE Fall
    <2>1. gadgets'[g] # kGadgetDeleted
      BY <1>2 DEF InPlay, CellsOf, GadgetCells
    <2>2. gadgets'[g] = TranslatedGadgets(Falling(recompute_falling), W)[g]
      BY <1>8, <2>1 DEF Fall, Drop
    <2>3. QED
      BY <1>4, <1>5, <2>2 DEF TranslatedGadgets
  <1>9. CASE Perish
    BY <1>4, <1>5, <1>9 DEF Perish, TranslatedGadgets
  <1>10. CASE UNCHANGED gadgets
    BY <1>4, <1>10
  <1>11. QED
    BY <1>6, <1>7, <1>8, <1>9, <1>10
    DEF Next, PlayerMove, Grow, Move, Physics, CheckExits, NoTeleport, TeleportOffMap, Settle

\* On every level without a sparse gadget, or without a teleporter, no gadget
\* is ever broken by an edge of the map.  The 53 levels are such levels
\* (LevelsAreSafe in module MapConstructor).
THEOREM GadgetsStayWhole == Spec /\ NothingSparseTeleports => GadgetsMoveWhole
  <1> SUFFICES ASSUME NothingSparseTeleports PROVE Spec => GadgetsMoveWhole
    OBVIOUS
  <1>1. IInv /\ [Next]_vars =>
          [\A g \in Gadgets : phase' # "moves" /\ InPlay(g) /\ InPlay(g)'
             => KeepsShape(g, gadgets'[g] - gadgets[g])]_vars
    BY LostIsLeft, IInvIsInv, MovesWhole
  <1>2. QED
    BY <1>1, Invariance, PTL DEF Spec, GadgetsMoveWhole

-----------------------------------------------------------------------------
(***************************************************************************)
(* process_gravity.  Held is what lets it look only at the objects that    *)
(* fell in the round before: the others are held without them.  An object  *)
(* that did not fall cannot stand on one that did, since that one would    *)
(* have to come from its own place; so whatever exits or teleports do to   *)
(* the objects that fell, the others stay held.                            *)
(***************************************************************************)
Held ==
  \A G \in SUBSET {o \in Objects \ recompute_falling : InPlay(o) /\ ~Grounded(o)} :
    (\A o \in G : StandsOn(o) \ recompute_falling \subseteq G) => G = {}

\* A snake at the exit, or an object newly over a teleporter, has just moved.
GravityInv ==
  /\ phase \in {"exits", "teleports", "gravity"} => Held
  /\ phase \in {"exits", "teleports"} => \A x \in NewOverlap : x[2] \in recompute_falling
  /\ phase = "exits" /\ fruit = {} => \A s \in Snakes : HeadAtExit(s) => s \in recompute_falling
  /\ phase \in {"teleports", "gravity"} /\ fruit = {} => \A s \in Snakes : ~HeadAtExit(s)
  /\ phase = "gravity" => orig_tele_mask = teleporter_overlap

LEMMA FallingIsGreatest ==
  ASSUME NEW C, NEW F, F \subseteq C,
         \A o \in F : InPlay(o) /\ ~Grounded(o) /\ StandsOn(o) \subseteq F
  PROVE  F \subseteq Falling(C)
  BY DEF Falling

LEMMA HeldIsEnough ==
  ASSUME Held, recompute_falling \subseteq Objects
  PROVE  Falling(recompute_falling) = Falling(Objects)
  <1>1. /\ Falling(Objects) \subseteq Objects
        /\ \A o \in Falling(Objects) : InPlay(o) /\ ~Grounded(o) /\ StandsOn(o) \subseteq Falling(Objects)
    BY FallingFacts
  <1>2. Falling(Objects) \ recompute_falling = {}
    <2> DEFINE G == Falling(Objects) \ recompute_falling
    <2>1. G \in SUBSET {o \in Objects \ recompute_falling : InPlay(o) /\ ~Grounded(o)}
      BY <1>1
    <2>2. \A o \in G : StandsOn(o) \ recompute_falling \subseteq G
      BY <1>1
    <2> HIDE DEF G
    <2>3. G = {}
      BY <2>1, <2>2 DEF Held
    <2>4. QED
      BY <2>3 DEF G
  <1>3. Falling(Objects) \subseteq Falling(recompute_falling)
    BY <1>1, <1>2, FallingIsGreatest
  <1>4. Falling(recompute_falling) \subseteq Falling(Objects)
    BY FallingFacts, FallingIsGreatest
  <1>5. QED
    BY <1>3, <1>4

\* An object stands as it stood, when neither it nor those it stands on that
\* did not fall are somewhere else.
LEMMA StandsAsBefore ==
  ASSUME NEW R, fruit' = fruit, \A p \in Objects \ R : CellsOf(p)' = CellsOf(p),
         NEW o \in Objects \ R
  PROVE  /\ InPlay(o)' <=> InPlay(o)
         /\ Grounded(o)' <=> Grounded(o)
         /\ StandsOn(o)' \ R = StandsOn(o) \ R
  <1>1. CellsOf(o)' = CellsOf(o)
    OBVIOUS
  <1>2. StandsOn(o)' \ R = StandsOn(o) \ R
    <2>1. StandsOn(o)' = {p \in Objects \ {o} : \E i \in CellsOf(o) : i + W \in CellsOf(p)'}
      BY <1>1 DEF StandsOn
    <2>2. QED
      BY <2>1 DEF StandsOn
  <1>3. QED
    BY <1>1, <1>2 DEF InPlay, Grounded

LEMMA StillHeld ==
  ASSUME Held, UNCHANGED <<fruit, recompute_falling>>,
         \A o \in Objects \ recompute_falling : CellsOf(o)' = CellsOf(o)
  PROVE  Held'
  <1> DEFINE R == recompute_falling
  <1>1. \A o \in Objects \ R : /\ InPlay(o)' <=> InPlay(o)
                               /\ Grounded(o)' <=> Grounded(o)
                               /\ StandsOn(o)' \ R = StandsOn(o) \ R
    <2> HIDE DEF R
    <2>1. QED
      BY StandsAsBefore DEF R
  <1>2. SUFFICES ASSUME NEW G \in SUBSET {o \in Objects \ R : InPlay(o)' /\ ~Grounded(o)'},
                        \A o \in G : StandsOn(o)' \ R \subseteq G
                 PROVE  G = {}
    BY DEF Held
  <1>3. G \in SUBSET {o \in Objects \ R : InPlay(o) /\ ~Grounded(o)}
    BY <1>1
  <1>4. \A o \in G : StandsOn(o) \ R \subseteq G
    BY <1>1, <1>2
  <1>5. QED
    BY <1>3, <1>4 DEF Held

LEMMA FallHolds ==
  ASSUME Inv, Held, Fall
  PROVE  /\ Held'
         /\ \A o \in Objects \ recompute_falling' : CellsOf(o)' = CellsOf(o)
         /\ \A s \in Snakes : s \in recompute_falling' \/ snakes'[s] = snakes[s]
  <1> DEFINE F == Falling(recompute_falling)
  <1>1. /\ snakes' = TranslatedSnakes(F, W)
        /\ gadgets' = [g \in Gadgets |-> IF g \in DestroyedGadgets(F) THEN kGadgetDeleted
                                         ELSE TranslatedGadgets(F, W)[g]]
        /\ recompute_falling' = F /\ fruit' = fruit
    BY DEF Fall, Drop
  <1>2. /\ F = Falling(Objects) /\ F \subseteq Objects
        /\ \A o \in F : InPlay(o) /\ ~Grounded(o) /\ StandsOn(o) \subseteq F
    BY HeldIsEnough, FallingFacts DEF Inv, TypeOK
  <1>3. \A g \in Gadgets : g \notin F => g \notin DestroyedGadgets(F)
    BY DEF DestroyedGadgets
  <1> HIDE DEF F
  <1>4. \A s \in Snakes : s \in F \/ snakes'[s] = snakes[s]
    BY <1>1 DEF TranslatedSnakes
  <1>5. \A g \in Gadgets : g \in F \/ gadgets'[g] = gadgets[g]
    BY <1>1, <1>3 DEF TranslatedGadgets
  <1>6. \A o \in Objects \ F : CellsOf(o)' = CellsOf(o)
    BY <1>4, <1>5, ObjectsType DEF CellsOf, GadgetCells, Objects
  <1>7. \A o \in Objects \ F : /\ InPlay(o)' <=> InPlay(o)
                               /\ Grounded(o)' <=> Grounded(o)
                               /\ StandsOn(o)' \ F = StandsOn(o) \ F
    BY <1>1, <1>6, StandsAsBefore
  <1>8. ASSUME NEW G \in SUBSET {o \in Objects \ F : InPlay(o)' /\ ~Grounded(o)'},
               \A o \in G : StandsOn(o)' \ F \subseteq G
        PROVE  G = {}
    <2>1. \A o \in G \union F : /\ o \in Objects /\ InPlay(o) /\ ~Grounded(o)
                                /\ StandsOn(o) \subseteq G \union F
      <3>1. \A o \in G : StandsOn(o) \ F \subseteq G
        BY <1>7, <1>8
      <3>2. QED
        BY <1>2, <1>7, <3>1
    <2>2. G \union F \subseteq Objects
      BY <2>1
    <2>3. G \union F \subseteq Falling(Objects)
      BY <2>1, <2>2, FallingIsGreatest
    <2>4. QED
      BY <1>2, <2>3
  <1>9. Held'
    BY <1>1, <1>8 DEF Held
  <1>10. QED
    BY <1>1, <1>4, <1>6, <1>9

LEMMA StartGravity ==
  ASSUME StartPhysics
  PROVE  GravityInv'
  <1>1. recompute_falling' = Objects /\ phase' = "exits"
    BY DEF StartPhysics
  <1>2. Held'
    BY <1>1 DEF Held
  <1>3. \A x \in NewOverlap' : x[2] \in Objects
    BY DEF NewOverlap, teleporter_overlap
  <1>4. QED
    BY <1>1, <1>2, <1>3 DEF GravityInv, Objects

LEMMA GravityInvStep == Inv /\ GravityInv /\ [Next]_vars => GravityInv'
  <1> SUFFICES ASSUME Inv, GravityInv, [Next]_vars PROVE GravityInv'
    OBVIOUS
  <1> DEFINE R == recompute_falling
  <1>1. CASE PlayerMove
    BY <1>1, StartGravity DEF PlayerMove, Grow, Move, Push
  <1>2. CASE CheckExits
    <2>1. /\ phase = "exits" /\ phase' = "teleports"
          /\ UNCHANGED <<gadgets, fruit, orig_tele_mask, recompute_falling>>
          /\ \A s \in Snakes : snakes'[s] = IF fruit = {} /\ HeadAtExit(s) THEN <<>> ELSE snakes[s]
      BY <1>2 DEF CheckExits
    <2>2. \A s \in Snakes : s \in R \/ snakes'[s] = snakes[s]
      BY <2>1 DEF GravityInv
    <2>3. \A o \in Objects : /\ CellsOf(o)' \subseteq CellsOf(o)
                             /\ o \in R \/ CellsOf(o)' = CellsOf(o)
      <3> TAKE o \in Objects
      <3>1. CASE o \in Snakes
        <4>1. Range(<<>>) = {}
          BY DEF Range
        <4>2. QED
          BY <2>1, <2>2, <3>1, <4>1 DEF CellsOf
      <3>2. CASE o \notin Snakes
        BY <2>1, <3>2 DEF CellsOf, GadgetCells
      <3>3. QED
        BY <3>1, <3>2
    <2>4. Held'
      BY <2>1, <2>3, StillHeld DEF GravityInv
    <2>5. NewOverlap' \subseteq NewOverlap
      BY <2>1, <2>3 DEF NewOverlap, teleporter_overlap
    <2>6. fruit' = {} => \A s \in Snakes : ~HeadAtExit(s)'
      BY <2>1 DEF HeadAtExit
    <2>7. QED
      BY <2>1, <2>4, <2>5, <2>6 DEF GravityInv
  <1>3. CASE Teleport
    <2>1. /\ phase = "teleports" /\ phase' = "exits" /\ UNCHANGED <<fruit, recompute_falling>>
          /\ orig_tele_mask' = teleporter_overlap'
          /\ \A s \in Snakes : s \notin {x[2] : x \in Teleporting} => snakes'[s] = snakes[s]
          /\ \A g \in Gadgets : g \notin {x[2] : x \in Teleporting} => gadgets'[g] = gadgets[g]
      BY <1>3 DEF Teleport
    <2>2. {x[2] : x \in Teleporting} \subseteq R
      BY <2>1 DEF GravityInv, Teleporting
    <2>3. /\ \A s \in Snakes : s \in R \/ snakes'[s] = snakes[s]
          /\ \A g \in Gadgets : g \in R \/ gadgets'[g] = gadgets[g]
      BY <2>1, <2>2
    <2>4. \A o \in Objects \ R : CellsOf(o)' = CellsOf(o)
      BY <2>3, ObjectsType DEF CellsOf, GadgetCells, Objects
    <2>5. Held'
      BY <2>1, <2>4, StillHeld DEF GravityInv
    <2>6. NewOverlap' = {}
      BY <2>1 DEF NewOverlap
    <2>7. fruit' = {} => \A s \in Snakes : HeadAtExit(s)' => s \in R
      BY <2>1, <2>3 DEF GravityInv, HeadAtExit
    <2>8. QED
      BY <2>1, <2>5, <2>6, <2>7 DEF GravityInv
  <1>4. CASE NoTeleport
    <2>1. /\ phase = "teleports" /\ phase' = "gravity"
          /\ UNCHANGED <<snakes, gadgets, fruit, recompute_falling>>
          /\ orig_tele_mask' = teleporter_overlap
      BY <1>4 DEF NoTeleport
    <2>2. \A o \in Objects : CellsOf(o)' = CellsOf(o)
      BY <2>1 DEF CellsOf, GadgetCells
    <2>3. Held'
      BY <2>1, <2>2, StillHeld DEF GravityInv
    <2>4. teleporter_overlap' = teleporter_overlap
      BY <2>2 DEF teleporter_overlap
    <2>5. QED
      BY <2>1, <2>3, <2>4 DEF GravityInv, HeadAtExit
  <1>5. CASE Fall
    <2>1. /\ phase = "gravity" /\ phase' = "exits" /\ UNCHANGED <<fruit, orig_tele_mask>>
      BY <1>5 DEF Fall
    <2>2. /\ Held'
          /\ \A o \in Objects \ recompute_falling' : CellsOf(o)' = CellsOf(o)
          /\ \A s \in Snakes : s \in recompute_falling' \/ snakes'[s] = snakes[s]
      BY <1>5, <2>1, FallHolds DEF GravityInv
    <2>3. \A x \in NewOverlap' : x[2] \in recompute_falling'
      <3>1. orig_tele_mask' = teleporter_overlap
        BY <2>1 DEF GravityInv
      <3>2. SUFFICES ASSUME NEW x \in TeleporterCells \X Objects, x[1] \in CellsOf(x[2])',
                            x[2] \notin recompute_falling'
                     PROVE  x \in teleporter_overlap
        BY <3>1 DEF NewOverlap, teleporter_overlap
      <3>3. x[2] \in Objects \ recompute_falling'
        BY <3>2
      <3>4. CellsOf(x[2])' = CellsOf(x[2])
        BY <2>2, <3>3
      <3>5. QED
        BY <3>2, <3>4 DEF teleporter_overlap
    <2>4. fruit' = {} => \A s \in Snakes : HeadAtExit(s)' => s \in recompute_falling'
      BY <2>1, <2>2 DEF GravityInv, HeadAtExit
    <2>5. QED
      BY <2>1, <2>2, <2>3, <2>4 DEF GravityInv
  <1>6. CASE TeleportOffMap \/ Perish \/ Settle
    BY <1>6 DEF TeleportOffMap, Perish, Settle, GravityInv
  <1>7. CASE UNCHANGED vars
    <2>1. \A o \in Objects : CellsOf(o)' = CellsOf(o)
      BY <1>7 DEF vars, CellsOf, GadgetCells
    <2>2. teleporter_overlap' = teleporter_overlap
      BY <2>1 DEF teleporter_overlap
    <2>3. Held => Held'
      BY <1>7, <2>1, StillHeld DEF vars
    <2>4. QED
      BY <1>7, <2>2, <2>3 DEF vars, GravityInv, NewOverlap, HeadAtExit
  <1>8. QED
    BY <1>1, <1>2, <1>3, <1>4, <1>5, <1>6, <1>7 DEF Next, Physics

LEMMA GravityInvNext == IInv /\ GravityInv /\ [Next]_vars => GravityInv'
  <1>1. phase = "lost" /\ UNCHANGED vars => GravityInv'
    BY DEF vars, GravityInv
  <1>2. QED
    BY <1>1, LostIsLeft, IInvIsInv, GravityInvStep

LEMMA GravityInvariance == Spec => []GravityInv
  <1>1. Init => GravityInv
    BY DEF Init, GravityInv
  <1>2. QED
    BY <1>1, Invariance, GravityInvNext, PTL DEF Spec

\* A set of objects that stand on nothing but each other stood so before
\* canonicalize, under other names.
LEMMA SettledRests ==
  ASSUME Inv, Settle, Falling(Objects) = {}
  PROVE  Falling(Objects)' = {}
  <1>1. PICK r \in [Objects -> Objects] :
            /\ \A o, p \in Objects : o # p => r[o] # r[p]
            /\ \A p \in Objects : \E o \in Objects : r[o] = p
            /\ \A o \in Objects : (o \in Snakes <=> r[o] \in Snakes) /\ CellsOf(o)' = CellsOf(r[o])
    BY SettleRenames
  <1>2. fruit' = fruit /\ \A o \in Objects : o \in Snakes \/ o \in Gadgets
    BY DEF Settle, Objects
  <1>3. \A o \in Objects : o \in Gadgets <=> r[o] \in Gadgets
    BY <1>1, <1>2, ObjectsType
  <1>4. \A o \in Objects : /\ InPlay(o)' <=> InPlay(r[o])
                           /\ Grounded(o)' <=> Grounded(r[o])
    BY <1>1, <1>2, <1>3 DEF InPlay, Grounded
  <1>5. ASSUME NEW G \in SUBSET {o \in Objects : InPlay(o)' /\ ~Grounded(o)'},
               \A o \in G : StandsOn(o)' \subseteq G
        PROVE  G = {}
    <2> DEFINE R == {r[o] : o \in G}
    <2>1. \A o \in G : InPlay(r[o]) /\ ~Grounded(r[o]) /\ r[o] \in Objects
      BY <1>4
    <2>2. ASSUME NEW o \in G, NEW p \in StandsOn(r[o]) PROVE p \in R
      <3>1. PICK q \in Objects : r[q] = p
        BY <1>1 DEF StandsOn
      <3>2. q \in StandsOn(o)'
        <4>1. q # o /\ \E i \in CellsOf(r[o]) : i + W \in CellsOf(r[q])
          BY <3>1 DEF StandsOn
        <4>2. CellsOf(o)' = CellsOf(r[o]) /\ CellsOf(q)' = CellsOf(r[q])
          BY <1>1
        <4>3. QED
          BY <4>1, <4>2 DEF StandsOn
      <3>3. QED
        BY <1>5, <3>1, <3>2
    <2>3. \A h \in R : h \in Objects /\ InPlay(h) /\ ~Grounded(h) /\ StandsOn(h) \subseteq R
      BY <2>1, <2>2
    <2>4. R \subseteq Falling(Objects)
      <3> HIDE DEF R
      <3>1. R \subseteq Objects
        BY <2>3
      <3>2. QED
        BY <2>3, <3>1, FallingIsGreatest
    <2>5. QED
      BY <2>4
  <1>6. QED
    BY <1>5 DEF Falling

-----------------------------------------------------------------------------
\* The objects that fell in the round before are the only ones that can be
\* falling now, whatever the exits and the teleporters have done since.
THEOREM LooksAtEnough == Spec => []RecomputeIsEnough
  <1>1. IInv /\ GravityInv => RecomputeIsEnough
    BY HeldIsEnough DEF IInv, TypeOK, GravityInv, RecomputeIsEnough
  <1>2. QED
    BY <1>1, Invariance, GravityInvariance, PTL

\* Every state that process_gravity ends with is at rest.  (Nothing runs the
\* physics on the start of a level, so that one has to be at rest itself.)
THEOREM MovesEndAtRest == Spec /\ AtRest => []AtRest
  <1>1. ASSUME IInv, GravityInv, AtRest, [Next]_vars PROVE AtRest'
    <2>1. CASE Settle
      <3>1. phase = "gravity" /\ fruit' = fruit /\ Falling(recompute_falling) = {}
        BY <2>1 DEF Settle
      <3>2. Falling(Objects) = {}
        BY <1>1, <3>1, HeldIsEnough DEF IInv, TypeOK, GravityInv
      <3>3. Falling(Objects)' = {}
        BY <1>1, <2>1, <3>1, <3>2, IInvIsInv, SettledRests
      <3>4. ASSUME fruit = {}, NEW s \in Snakes PROVE HeadCell(s)' # Exit
        <4>1. PICK p \in [Snakes -> Snakes] : snakes' = [t \in Snakes |-> snakes[p[t]]]
          BY <2>1 DEF Settle
        <4>2. snakes'[s] = snakes[p[s]] /\ p[s] \in Snakes
          BY <4>1
        <4>3. ~HeadAtExit(p[s])
          BY <1>1, <3>1, <3>4, <4>2 DEF GravityInv
        <4>4. Exit # 0
          BY TerrainAssumption DEF LegalTerrain
        <4>5. QED
          BY <4>2, <4>3, <4>4 DEF HeadCell, HeadAtExit
      <3>5. QED
        BY <3>1, <3>3, <3>4 DEF AtRest
    <2>2. CASE UNCHANGED vars
      <3>1. /\ \A o \in Objects : CellsOf(o)' = CellsOf(o)
            /\ fruit' = fruit /\ phase' = phase /\ snakes' = snakes
        BY <2>2 DEF vars, CellsOf, GadgetCells
      <3>2. Falling(Objects)' = Falling(Objects)
        <4>1. \A o \in Objects : /\ InPlay(o)' <=> InPlay(o)
                                 /\ Grounded(o)' <=> Grounded(o)
                                 /\ StandsOn(o)' = StandsOn(o)
          BY <3>1 DEF InPlay, Grounded, StandsOn
        <4>2. QED
          BY <4>1 DEF Falling
      <3>3. QED
        BY <1>1, <3>1, <3>2 DEF AtRest, HeadCell
    <2>3. CASE phase' # "moves"
      BY <2>3 DEF AtRest
    <2>4. QED
      BY <1>1, <2>1, <2>2, <2>3 DEF Next, PlayerMove, Grow, Move, Push, StartPhysics, Physics,
         CheckExits, Teleport, NoTeleport, TeleportOffMap, Fall, Perish
  <1>2. QED
    BY <1>1, Invariance, GravityInvariance, PTL DEF Spec

-----------------------------------------------------------------------------
(***************************************************************************)
(* The loops of ObjectLoops.  A pass that adds nothing shows that the set  *)
(* is closed, and of as many passes as there are objects one adds nothing. *)
(* Everything added had to be: it is in every closed set.                  *)
(***************************************************************************)
LEMMA ObjectNumbers == ObjCount \in Nat /\ Objects = 1 .. ObjCount /\ Cardinality(Objects) = ObjCount
<1>1. SnakeCount \in Nat /\ GadgetCount \in Nat
  BY SetupAssumption DEF LegalSetup
<1>2. ObjCount \in Nat /\ Objects = 1 .. ObjCount
  BY <1>1 DEF ObjCount, Objects, Snakes, Gadgets
<1> QED
  BY <1>2, FS_Interval

\* What a pass over the objects does, one object at a time.
LEMMA SupportPassFollows ==
  ASSUME NEW X \in SUBSET Objects
  PROVE  \E r \in [0 .. ObjCount -> SUBSET Objects] :
           /\ r[0] = X /\ SupportPass(X) = r[ObjCount]
           /\ \A o \in Objects :
                r[o] = IF r[o - 1] \intersect falling(o) # {} THEN r[o - 1] \union {o} ELSE r[o - 1]
<1> DEFINE A == SUBSET Objects
           step == [p \in Nat \X A |-> IF p[1] \in Objects /\ p[2] \intersect falling(p[1]) # {}
                                         THEN p[2] \union {p[1]} ELSE p[2]]
           r[o \in 0 .. ObjCount] ==
             IF o = 0 THEN X
             ELSE LET before == r[o - 1]
                  IN  IF before \intersect falling(o) # {} THEN before \union {o} ELSE before
<1>1. step \in [Nat \X A -> A]
  OBVIOUS
<1>2. PICK g : Follows(g, ObjCount, A, X, step)
  <2> HIDE DEF A, step
  <2>1. X \in A
    BY DEF A
  <2> QED
    BY <1>1, <2>1, ObjectNumbers, FollowsExists
<1>3. g \in [0 .. ObjCount -> SUBSET Objects] /\ g[0] = X
  BY <1>2 DEF Follows
<1>4. ASSUME NEW o \in Objects
      PROVE  g[o] = IF g[o - 1] \intersect falling(o) # {} THEN g[o - 1] \union {o} ELSE g[o - 1]
  <2>1. o \in 1 .. ObjCount /\ o \in Nat /\ o - 1 \in 0 .. ObjCount
    BY ObjectNumbers
  <2>2. g[o] = step[<<o, g[o - 1]>>] /\ g[o - 1] \in A
    BY <1>2, <1>3, <2>1 DEF Follows
  <2> HIDE DEF r
  <2> QED
    BY <2>1, <2>2
<1>5. g = [o \in 0 .. ObjCount |->
             IF o = 0 THEN X
             ELSE LET before == g[o - 1]
                  IN  IF before \intersect falling(o) # {} THEN before \union {o} ELSE before]
  <2>1. \A o \in 0 .. ObjCount : o = 0 \/ o \in Objects
    BY ObjectNumbers
  <2> HIDE DEF r, step
  <2> QED
    BY <1>3, <1>4, <2>1
<1>6. r = [o \in 0 .. ObjCount |->
             IF o = 0 THEN X
             ELSE LET before == r[o - 1]
                  IN  IF before \intersect falling(o) # {} THEN before \union {o} ELSE before]
  <2> HIDE DEF step, A
  <2> QED
    BY <1>5
<1>7. SupportPass(X) = r[ObjCount]
  BY DEF SupportPass
<1> HIDE DEF r
<1>8. \A o \in Objects : o \in 0 .. ObjCount /\ o # 0
  BY ObjectNumbers
<1>9. /\ r[0] = X
      /\ \A o \in Objects :
           r[o] = IF r[o - 1] \intersect falling(o) # {} THEN r[o - 1] \union {o} ELSE r[o - 1]
  <2>1. 0 \in 0 .. ObjCount
    BY ObjectNumbers
  <2> QED
    BY <1>6, <1>8, <2>1
<1>10. r \in [0 .. ObjCount -> SUBSET Objects]
  <2> DEFINE T == {o \in 0 .. ObjCount : r[o] \in SUBSET Objects}
  <2>0. 0 \in 0 .. ObjCount
    BY ObjectNumbers
  <2>1. 0 \in T
    BY <1>9, <2>0
  <2>2. ASSUME NEW o \in 1 .. ObjCount, o - 1 \in T PROVE o \in T
    <3>1. o \in Objects /\ o \in 0 .. ObjCount /\ r[o - 1] \in SUBSET Objects
      BY <2>2, ObjectNumbers
    <3>2. r[o] = r[o - 1] \/ r[o] = r[o - 1] \union {o}
      BY <1>9, <3>1
    <3> QED
      BY <3>1, <3>2
  <2>3. \A o \in 0 .. ObjCount : o \in T
    <3> HIDE DEF T
    <3> QED
      BY <2>1, <2>2, ObjectNumbers, InductionUpTo
  <2> QED
    BY <1>6, <2>3
<1> QED
  BY <1>7, <1>9, <1>10

\* Closed under being supported by what is supported.
Supports(Y) == \A o \in Objects : Y \intersect falling(o) # {} => o \in Y

LEMMA SupportPassFacts ==
  ASSUME NEW X \in SUBSET Objects
  PROVE  /\ SupportPass(X) \in SUBSET Objects /\ X \subseteq SupportPass(X)
         /\ SupportPass(X) = X => Supports(X)
         /\ \A Y \in SUBSET Objects : X \subseteq Y /\ Supports(Y) => SupportPass(X) \subseteq Y
<1>1. PICK r \in [0 .. ObjCount -> SUBSET Objects] :
        /\ r[0] = X /\ SupportPass(X) = r[ObjCount]
        /\ \A o \in Objects :
             r[o] = IF r[o - 1] \intersect falling(o) # {} THEN r[o - 1] \union {o} ELSE r[o - 1]
  BY SupportPassFollows
<1>2. 0 \in 0 .. ObjCount /\ ObjCount \in 0 .. ObjCount /\ Objects = 1 .. ObjCount /\ ObjCount \in Nat
  BY ObjectNumbers
<1>3. \A o \in 1 .. ObjCount : r[o - 1] \subseteq r[o]
  BY <1>1, <1>2
<1>4. \A o \in 0 .. ObjCount : X \subseteq r[o] /\ r[o] \subseteq SupportPass(X)
  <2>1. \A m, n \in 0 .. ObjCount : m <= n => r[m] \subseteq r[n]
    BY <1>2, <1>3, Ascending
  <2> QED
    BY <1>1, <1>2, <2>1
<1>5. SupportPass(X) \in SUBSET Objects /\ X \subseteq SupportPass(X)
  BY <1>1, <1>2, <1>4
<1>6. ASSUME SupportPass(X) = X, NEW o \in Objects, X \intersect falling(o) # {} PROVE o \in X
  <2>1. o - 1 \in 0 .. ObjCount /\ o \in 0 .. ObjCount
    BY <1>2
  <2>2. r[o - 1] = X /\ r[o] = X
    BY <1>4, <1>6, <2>1
  <2>3. r[o] = r[o - 1] \union {o}
    BY <1>1, <1>6, <2>2
  <2> QED
    BY <2>2, <2>3
<1>7. ASSUME NEW Y \in SUBSET Objects, X \subseteq Y, Supports(Y) PROVE SupportPass(X) \subseteq Y
  <2> DEFINE T == {o \in 0 .. ObjCount : r[o] \subseteq Y}
  <2>1. 0 \in T
    BY <1>1, <1>2, <1>7
  <2>2. ASSUME NEW o \in 1 .. ObjCount, o - 1 \in T PROVE o \in T
    <3>1. o \in Objects /\ o \in 0 .. ObjCount /\ r[o - 1] \subseteq Y
      BY <1>2, <2>2
    <3>2. CASE r[o - 1] \intersect falling(o) # {}
      <4>1. o \in Y
        BY <1>7, <3>1, <3>2 DEF Supports
      <4> QED
        BY <1>1, <3>1, <3>2, <4>1
    <3>3. CASE r[o - 1] \intersect falling(o) = {}
      BY <1>1, <3>1, <3>3
    <3> QED
      BY <3>2, <3>3
  <2>3. \A o \in 0 .. ObjCount : o \in T
    <3> HIDE DEF T
    <3> QED
      BY <1>2, <2>1, <2>2, InductionUpTo
  <2> QED
    BY <1>1, <1>2, <2>3
<1> QED
  BY <1>5, <1>6, <1>7 DEF Supports

LEMMA SupportLoopFollows ==
  ASSUME NEW X \in SUBSET Objects
  PROVE  \E r \in [0 .. ObjCount -> SUBSET Objects] :
           /\ r[0] = X /\ SupportLoop(X) = r[ObjCount]
           /\ \A n \in 1 .. ObjCount : r[n] = SupportPass(r[n - 1])
<1> DEFINE A == SUBSET Objects
           step == [p \in Nat \X A |-> SupportPass(p[2])]
           r[n \in 0 .. ObjCount] ==
             IF n = 0 THEN X ELSE LET before == r[n - 1] IN SupportPass(before)
<1>1. step \in [Nat \X A -> A]
  BY SupportPassFacts
<1>2. PICK g : Follows(g, ObjCount, A, X, step)
  <2> HIDE DEF A, step
  <2>1. X \in A
    BY DEF A
  <2> QED
    BY <1>1, <2>1, ObjectNumbers, FollowsExists
<1>3. g \in [0 .. ObjCount -> SUBSET Objects] /\ g[0] = X
  BY <1>2 DEF Follows
<1>4. ASSUME NEW n \in 1 .. ObjCount PROVE g[n] = SupportPass(g[n - 1])
  <2>1. n \in Nat /\ n - 1 \in 0 .. ObjCount
    BY ObjectNumbers
  <2>2. g[n] = step[<<n, g[n - 1]>>] /\ g[n - 1] \in A
    BY <1>2, <1>3, <2>1 DEF Follows
  <2> HIDE DEF r
  <2> QED
    BY <2>1, <2>2
<1>5. g = [n \in 0 .. ObjCount |->
             IF n = 0 THEN X ELSE LET before == g[n - 1] IN SupportPass(before)]
  <2>1. \A n \in 0 .. ObjCount : n = 0 \/ n \in 1 .. ObjCount
    BY ObjectNumbers
  <2> HIDE DEF r, step
  <2> QED
    BY <1>3, <1>4, <2>1
<1>6. r = [n \in 0 .. ObjCount |->
             IF n = 0 THEN X ELSE LET before == r[n - 1] IN SupportPass(before)]
  <2> HIDE DEF step, A
  <2> QED
    BY <1>5
<1>7. SupportLoop(X) = r[ObjCount]
  BY DEF SupportLoop
<1> HIDE DEF r
<1>8. r[0] = X /\ \A n \in 1 .. ObjCount : r[n] = SupportPass(r[n - 1])
  <2>1. 0 \in 0 .. ObjCount /\ \A n \in 1 .. ObjCount : n \in 0 .. ObjCount /\ n # 0
    BY ObjectNumbers
  <2> QED
    BY <1>6, <2>1
<1>9. r \in [0 .. ObjCount -> SUBSET Objects]
  <2> DEFINE T == {n \in 0 .. ObjCount : r[n] \in SUBSET Objects}
  <2>0. 0 \in 0 .. ObjCount
    BY ObjectNumbers
  <2>1. 0 \in T
    BY <1>8, <2>0
  <2>2. ASSUME NEW n \in 1 .. ObjCount, n - 1 \in T PROVE n \in T
    <3>1. n \in 0 .. ObjCount /\ r[n - 1] \in SUBSET Objects
      BY <2>2, ObjectNumbers
    <3> QED
      BY <1>8, <3>1, SupportPassFacts
  <2>3. \A n \in 0 .. ObjCount : n \in T
    <3> HIDE DEF T
    <3> QED
      BY <2>1, <2>2, ObjectNumbers, InductionUpTo
  <2> QED
    BY <1>6, <2>3
<1> QED
  BY <1>7, <1>8, <1>9

\* The loop ends with the least set that is closed.
LEMMA SupportLoopFacts ==
  ASSUME NEW X \in SUBSET Objects
  PROVE  /\ SupportLoop(X) \in SUBSET Objects /\ X \subseteq SupportLoop(X)
         /\ Supports(SupportLoop(X))
         /\ \A Y \in SUBSET Objects : X \subseteq Y /\ Supports(Y) => SupportLoop(X) \subseteq Y
<1>1. PICK r \in [0 .. ObjCount -> SUBSET Objects] :
        /\ r[0] = X /\ SupportLoop(X) = r[ObjCount]
        /\ \A n \in 1 .. ObjCount : r[n] = SupportPass(r[n - 1])
  BY SupportLoopFollows
<1>2. /\ ObjCount \in Nat /\ 0 \in 0 .. ObjCount /\ ObjCount \in 0 .. ObjCount
      /\ \A n \in 1 .. ObjCount : n - 1 \in 0 .. ObjCount /\ n \in 0 .. ObjCount
  BY ObjectNumbers
<1>3. X \subseteq SupportLoop(X) /\ SupportLoop(X) \in SUBSET Objects
  <2>1. \A n \in 1 .. ObjCount : r[n - 1] \subseteq r[n]
    BY <1>1, <1>2, SupportPassFacts
  <2>2. r[0] \subseteq r[ObjCount]
    BY <1>2, <2>1, LastHoldsFirst
  <2> QED
    BY <1>1, <1>2, <2>2
<1>4. Supports(SupportLoop(X))
  <2> DEFINE pass == [Y \in SUBSET Objects |-> SupportPass(Y)]
  <2>1. pass \in [SUBSET Objects -> SUBSET Objects] /\ \A Y \in SUBSET Objects : Y \subseteq pass[Y]
    BY SupportPassFacts
  <2>2. \A n \in 1 .. ObjCount : r[n] = pass[r[n - 1]]
    BY <1>1, <1>2
  <2>3. pass[r[ObjCount]] = r[ObjCount]
    <3>1. IsFiniteSet(Objects) /\ Cardinality(Objects) <= ObjCount
      BY ObjectsType, ObjectNumbers
    <3>2. ObjCount \in Nat
      BY <1>2
    <3> HIDE DEF pass
    <3> QED
      BY <2>1, <2>2, <3>1, <3>2, Saturates, ZenonT(90)
  <2> QED
    BY <1>1, <1>2, <2>3, SupportPassFacts
<1>5. ASSUME NEW Y \in SUBSET Objects, X \subseteq Y, Supports(Y) PROVE SupportLoop(X) \subseteq Y
  <2> DEFINE T == {n \in 0 .. ObjCount : r[n] \subseteq Y}
  <2>1. 0 \in T
    BY <1>1, <1>2, <1>5
  <2>2. ASSUME NEW n \in 1 .. ObjCount, n - 1 \in T PROVE n \in T
    BY <1>1, <1>2, <1>5, <2>2, SupportPassFacts
  <2>3. \A n \in 0 .. ObjCount : n \in T
    <3> HIDE DEF T
    <3> QED
      BY <1>2, <2>1, <2>2, InductionUpTo
  <2> QED
    BY <1>1, <1>2, <2>3
<1> QED
  BY <1>3, <1>4, <1>5

LEMMA UnsupportedIsFalling == recompute_falling \subseteq Objects => Unsupported = Falling(recompute_falling)
<1> SUFFICES ASSUME recompute_falling \subseteq Objects
             PROVE  Unsupported = Falling(recompute_falling)
  OBVIOUS
<1> DEFINE F == Falling(recompute_falling)
           fixed == {o \in Objects : falling(o) = {}}
           S == SupportLoop(fixed)
<1>1. /\ F \subseteq recompute_falling
      /\ \A o \in F : InPlay(o) /\ ~Grounded(o) /\ StandsOn(o) \subseteq F
  BY FallingFacts
<1>2. \A o \in F : o \in falling(o) /\ falling(o) \subseteq F
  BY <1>1 DEF falling
<1>3. /\ S \in SUBSET Objects /\ fixed \subseteq S /\ Supports(S)
      /\ \A Y \in SUBSET Objects : fixed \subseteq Y /\ Supports(Y) => S \subseteq Y
  <2>1. fixed \in SUBSET Objects
    OBVIOUS
  <2> HIDE DEF fixed
  <2> QED
    BY <2>1, SupportLoopFacts
<1>4. Unsupported = Objects \ S
  BY DEF Unsupported
<1>5. S \subseteq Objects \ F
  <2>1. fixed \subseteq Objects \ F
    BY <1>2
  <2>2. Supports(Objects \ F)
    BY <1>2 DEF Supports
  <2> HIDE DEF F, fixed, S
  <2> QED
    BY <1>3, <2>1, <2>2
<1>6. ASSUME NEW o \in Objects \ S
      PROVE  /\ o \in recompute_falling /\ InPlay(o) /\ ~Grounded(o)
             /\ StandsOn(o) \subseteq Objects \ S
  <2>1. falling(o) # {} /\ falling(o) \intersect S = {}
    <3> HIDE DEF S
    <3> QED
      BY <1>3 DEF Supports
  <2>2. /\ o \in recompute_falling /\ InPlay(o) /\ ~Grounded(o)
        /\ falling(o) = {o} \union StandsOn(o)
    BY <2>1 DEF falling
  <2>3. StandsOn(o) \subseteq Objects
    BY DEF StandsOn
  <2> HIDE DEF S
  <2> QED
    BY <2>1, <2>2, <2>3
<1>7. Objects \ S \subseteq F
  <2> HIDE DEF S
  <2>1. Objects \ S \subseteq recompute_falling
    BY <1>6
  <2> QED
    BY <1>6, <2>1, FallingIsGreatest
<1> HIDE DEF S
<1> QED
  BY <1>1, <1>4, <1>5, <1>7

\* The passes over supported end with just the objects that do not stand on
\* each other alone, however they are numbered.
THEOREM SupportIsFound == Spec => []SupportLoopFindsFalling
<1>1. IInv => SupportLoopFindsFalling
  BY UnsupportedIsFalling DEF IInv, TypeOK, SupportLoopFindsFalling
<1> QED
  BY <1>1, Invariance, PTL

-----------------------------------------------------------------------------
PushState == [valid : BOOLEAN, ids : SUBSET Objects]

LEMMA PushedWithType ==
  ASSUME NEW pusher, NEW delta, NEW r \in PushState, NEW o \in Objects
  PROVE  /\ PushedWith(pusher, delta, r, o) \in PushState
         /\ r.ids \subseteq PushedWith(pusher, delta, r, o).ids
         /\ PushedWith(pusher, delta, r, o).valid => r.valid
<1>1. Obstructing(pusher, o, delta) \subseteq Objects /\ can_be_pushed(o, delta) \in BOOLEAN
  BY DEF Obstructing, can_be_pushed
<1>2. CASE ~r.valid \/ o \notin r.ids
  BY <1>2 DEF PushedWith
<1>3. CASE r.valid /\ o \in r.ids
  BY <1>1, <1>3 DEF PushedWith, PushState
<1> QED
  BY <1>2, <1>3

LEMMA PushPassFollows ==
  ASSUME NEW pusher, NEW delta, NEW X \in SUBSET Objects
  PROVE  \E r \in [0 .. ObjCount -> PushState] :
           /\ r[0] = [valid |-> TRUE, ids |-> X] /\ PushPass(pusher, delta, X) = r[ObjCount]
           /\ \A o \in Objects : r[o] = PushedWith(pusher, delta, r[o - 1], o)
<1> DEFINE base == [valid |-> TRUE, ids |-> X]
           step == [p \in Nat \X PushState |-> IF p[1] \in Objects THEN PushedWith(pusher, delta, p[2], p[1])
                                                                   ELSE p[2]]
           r[o \in 0 .. ObjCount] ==
             IF o = 0 THEN [valid |-> TRUE, ids |-> X]
             ELSE LET before == r[o - 1] IN PushedWith(pusher, delta, before, o)
<1>1. step \in [Nat \X PushState -> PushState] /\ base \in PushState
  <2>1. base \in PushState
    BY DEF PushState
  <2>2. \A p \in Nat \X PushState : p[2] \in PushState /\ (p[1] \in Objects => PushedWith(pusher, delta, p[2], p[1]) \in PushState)
    BY PushedWithType
  <2> HIDE DEF r
  <2> QED
    BY <2>1, <2>2
<1>2. PICK g : Follows(g, ObjCount, PushState, base, step)
  <2> HIDE DEF base, step
  <2> QED
    BY <1>1, ObjectNumbers, FollowsExists
<1>3. g \in [0 .. ObjCount -> PushState] /\ g[0] = base
  BY <1>2 DEF Follows
<1>4. ASSUME NEW o \in Objects PROVE g[o] = PushedWith(pusher, delta, g[o - 1], o)
  <2>1. o \in 1 .. ObjCount /\ o \in Nat /\ o - 1 \in 0 .. ObjCount
    BY ObjectNumbers
  <2>2. g[o] = step[<<o, g[o - 1]>>] /\ g[o - 1] \in PushState
    BY <1>2, <1>3, <2>1 DEF Follows
  <2> HIDE DEF r
  <2> QED
    BY <2>1, <2>2
<1>5. g = [o \in 0 .. ObjCount |->
             IF o = 0 THEN [valid |-> TRUE, ids |-> X]
             ELSE LET before == g[o - 1] IN PushedWith(pusher, delta, before, o)]
  <2>1. \A o \in 0 .. ObjCount : o = 0 \/ o \in Objects
    BY ObjectNumbers
  <2> HIDE DEF r, step
  <2> QED
    BY <1>3, <1>4, <2>1
<1>6. r = [o \in 0 .. ObjCount |->
             IF o = 0 THEN [valid |-> TRUE, ids |-> X]
             ELSE LET before == r[o - 1] IN PushedWith(pusher, delta, before, o)]
  <2> HIDE DEF step
  <2> QED
    BY <1>5
<1>7. PushPass(pusher, delta, X) = r[ObjCount]
  BY DEF PushPass
<1> HIDE DEF r
<1>8. r[0] = base /\ \A o \in Objects : r[o] = PushedWith(pusher, delta, r[o - 1], o)
  <2>1. 0 \in 0 .. ObjCount /\ \A o \in Objects : o \in 0 .. ObjCount /\ o # 0
    BY ObjectNumbers
  <2> QED
    BY <1>6, <2>1
<1>9. r \in [0 .. ObjCount -> PushState]
  <2> DEFINE T == {o \in 0 .. ObjCount : r[o] \in PushState}
  <2>0. 0 \in 0 .. ObjCount /\ ObjCount \in Nat
    BY ObjectNumbers
  <2>1. 0 \in T
    BY <1>1, <1>8, <2>0
  <2>2. ASSUME NEW o \in 1 .. ObjCount, o - 1 \in T PROVE o \in T
    <3>1. o \in Objects /\ o \in 0 .. ObjCount /\ r[o - 1] \in PushState
      BY <2>2, ObjectNumbers
    <3>2. r[o] = PushedWith(pusher, delta, r[o - 1], o)
      BY <1>8, <3>1
    <3>3. PushedWith(pusher, delta, r[o - 1], o) \in PushState
      BY <3>1, PushedWithType
    <3> QED
      BY <3>1, <3>2, <3>3
  <2>3. \A o \in 0 .. ObjCount : o \in T
    <3> HIDE DEF T
    <3> QED
      BY <2>0, <2>1, <2>2, InductionUpTo
  <2> QED
    BY <1>6, <2>3
<1> QED
  BY <1>7, <1>8, <1>9

\* Everything in the way can be pushed, and is pushed.
PushedTogether(pusher, delta, Y) ==
  \A o \in Y : can_be_pushed(o, delta) /\ Obstructing(pusher, o, delta) \subseteq Y

\* What is true at the end was true all the time.
LEMMA ValidBefore ==
  ASSUME NEW N \in Nat, NEW r, \A i \in 1 .. N : r[i].valid => r[i - 1].valid, r[N].valid
  PROVE  \A i \in 0 .. N : r[i].valid
<1> DEFINE f == [i \in 0 .. N |-> IF r[i].valid THEN {} ELSE {0}]
<1>1. \A i \in 1 .. N : f[i - 1] \subseteq f[i]
  <2> TAKE i \in 1 .. N
  <2>1. i \in 0 .. N /\ i - 1 \in 0 .. N
    OBVIOUS
  <2> QED
    BY <2>1
<1>2. N \in 0 .. N /\ \A i \in 0 .. N : i <= N
  OBVIOUS
<1>3. \A i \in 0 .. N : f[i] \subseteq f[N]
  <2> HIDE DEF f
  <2> QED
    BY <1>1, <1>2, Ascending
<1> QED
  BY <1>2, <1>3

LEMMA PushPassFacts ==
  ASSUME NEW pusher, NEW delta, NEW X \in SUBSET Objects
  PROVE  /\ PushPass(pusher, delta, X) \in PushState /\ X \subseteq PushPass(pusher, delta, X).ids
         /\ PushPass(pusher, delta, X).valid /\ PushPass(pusher, delta, X).ids = X
              => PushedTogether(pusher, delta, X)
         /\ \A Y \in SUBSET Objects : X \subseteq Y /\ PushedTogether(pusher, delta, Y)
              => PushPass(pusher, delta, X).valid /\ PushPass(pusher, delta, X).ids \subseteq Y
<1> DEFINE p == PushPass(pusher, delta, X)
<1>1. PICK r \in [0 .. ObjCount -> PushState] :
        /\ r[0] = [valid |-> TRUE, ids |-> X] /\ p = r[ObjCount]
        /\ \A o \in Objects : r[o] = PushedWith(pusher, delta, r[o - 1], o)
  BY PushPassFollows
<1> HIDE DEF p
<1>2. /\ 0 \in 0 .. ObjCount /\ ObjCount \in 0 .. ObjCount /\ Objects = 1 .. ObjCount /\ ObjCount \in Nat
      /\ \A o \in 1 .. ObjCount : o - 1 \in 0 .. ObjCount /\ o \in 0 .. ObjCount
  BY ObjectNumbers
<1>3. \A o \in 1 .. ObjCount : r[o - 1].ids \subseteq r[o].ids /\ (r[o].valid => r[o - 1].valid)
  BY <1>1, <1>2, PushedWithType
<1>4. \A o \in 0 .. ObjCount : X \subseteq r[o].ids /\ r[o].ids \subseteq p.ids
  <2> DEFINE f == [i \in 0 .. ObjCount |-> r[i].ids]
  <2>1. \A i \in 1 .. ObjCount : f[i - 1] \subseteq f[i]
    BY <1>2, <1>3
  <2>2. \A m, n \in 0 .. ObjCount : m <= n => f[m] \subseteq f[n]
    <3> HIDE DEF f
    <3> QED
      BY <1>2, <2>1, Ascending
  <2>3. \A o \in 0 .. ObjCount : 0 <= o /\ o <= ObjCount
    BY <1>2
  <2>4. \A o \in 0 .. ObjCount : f[0] \subseteq f[o] /\ f[o] \subseteq f[ObjCount]
    <3> HIDE DEF f
    <3> QED
      BY <1>2, <2>2, <2>3
  <2>5. f[0] = X /\ f[ObjCount] = p.ids
    BY <1>1, <1>2
  <2> QED
    BY <2>4, <2>5
<1>5. p \in PushState /\ X \subseteq p.ids
  BY <1>1, <1>2, <1>4
<1>6. ASSUME p.valid, p.ids = X, NEW o \in X
      PROVE  can_be_pushed(o, delta) /\ Obstructing(pusher, o, delta) \subseteq X
  <2>1. o \in 1 .. ObjCount /\ o - 1 \in 0 .. ObjCount /\ o \in 0 .. ObjCount
    BY <1>2, <1>6
  <2>2. r[o - 1].ids = X /\ r[o].ids = X
    BY <1>4, <1>6, <2>1
  <2>3. r[o - 1].valid /\ r[o].valid
    <3>1. \A i \in 1 .. ObjCount : r[i].valid => r[i - 1].valid
      BY <1>3
    <3>2. r[ObjCount].valid
      BY <1>1, <1>6
    <3> QED
      BY <1>2, <2>1, <3>1, <3>2, ValidBefore
  <2>4. r[o] = PushedWith(pusher, delta, r[o - 1], o)
    BY <1>1, <1>2, <2>1
  <2>5. r[o] = [valid |-> can_be_pushed(o, delta), ids |-> X \union Obstructing(pusher, o, delta)]
    BY <1>6, <2>2, <2>3, <2>4 DEF PushedWith
  <2> QED
    BY <2>2, <2>3, <2>5
<1>7. ASSUME NEW Y \in SUBSET Objects, X \subseteq Y, PushedTogether(pusher, delta, Y)
      PROVE  p.valid /\ p.ids \subseteq Y
  <2> DEFINE T == {o \in 0 .. ObjCount : r[o].valid /\ r[o].ids \subseteq Y}
  <2>0. r[0].valid /\ r[0].ids \subseteq Y
    BY <1>1, <1>7
  <2>1. 0 \in T
    BY <1>2, <2>0
  <2>2. ASSUME NEW o \in 1 .. ObjCount, o - 1 \in T PROVE o \in T
    <3>1. r[o] = PushedWith(pusher, delta, r[o - 1], o) /\ o \in 0 .. ObjCount
      BY <1>1, <1>2
    <3>2. r[o - 1].valid /\ r[o - 1].ids \subseteq Y
      BY <2>2
    <3>3. CASE o \notin r[o - 1].ids
      BY <3>1, <3>2, <3>3 DEF PushedWith
    <3>4. CASE o \in r[o - 1].ids
      <4>1. can_be_pushed(o, delta) /\ Obstructing(pusher, o, delta) \subseteq Y
        BY <1>7, <3>2, <3>4 DEF PushedTogether
      <4>2. r[o] = [valid |-> can_be_pushed(o, delta),
                    ids |-> r[o - 1].ids \union Obstructing(pusher, o, delta)]
        BY <3>1, <3>2, <3>4 DEF PushedWith
      <4> QED
        BY <3>1, <3>2, <4>1, <4>2
    <3> QED
      BY <3>3, <3>4
  <2>3. \A o \in 0 .. ObjCount : o \in T
    <3> HIDE DEF T
    <3> QED
      BY <1>2, <2>1, <2>2, InductionUpTo
  <2> QED
    BY <1>1, <1>2, <2>3
<1> QED
  BY <1>5, <1>6, <1>7 DEF PushedTogether, p

PushLooped(pusher, delta, before) ==
  IF before.valid THEN PushPass(pusher, delta, before.ids) ELSE before

LEMMA PushLoopedType ==
  ASSUME NEW pusher, NEW delta, NEW r \in PushState
  PROVE  /\ PushLooped(pusher, delta, r) \in PushState
         /\ r.ids \subseteq PushLooped(pusher, delta, r).ids
         /\ PushLooped(pusher, delta, r).valid => r.valid
  BY PushPassFacts DEF PushLooped, PushState

PushPasses(r, pusher, delta, X) ==
  /\ r \in [0 .. (ObjCount + 1) -> PushState]
  /\ r[0] = [valid |-> TRUE, ids |-> X] /\ PushLoop(pusher, delta, X) = r[ObjCount + 1]
  /\ \A n \in 1 .. (ObjCount + 1) : r[n] = PushLooped(pusher, delta, r[n - 1])

LEMMA PushLoopFollows ==
  ASSUME NEW pusher, NEW delta, NEW X \in SUBSET Objects
  PROVE  \E r : PushPasses(r, pusher, delta, X)
<1> DEFINE N == ObjCount + 1
           base == [valid |-> TRUE, ids |-> X]
           step == [p \in Nat \X PushState |-> PushLooped(pusher, delta, p[2])]
           r[n \in 0 .. (ObjCount + 1)] ==
             IF n = 0 THEN [valid |-> TRUE, ids |-> X]
             ELSE LET before == r[n - 1]
                  IN  IF before.valid THEN PushPass(pusher, delta, before.ids) ELSE before
<1>0. /\ N \in Nat /\ 0 \in 0 .. N /\ N \in 0 .. N
      /\ \A n \in 1 .. N : n \in Nat /\ n # 0 /\ n \in 0 .. N /\ n - 1 \in 0 .. N
      /\ \A n \in 0 .. N : n = 0 \/ n \in 1 .. N
  BY ObjectNumbers
<1>1. step \in [Nat \X PushState -> PushState] /\ base \in PushState
  <2>1. base \in PushState
    BY DEF PushState
  <2>2. \A p \in Nat \X PushState : p[2] \in PushState /\ PushLooped(pusher, delta, p[2]) \in PushState
    BY PushLoopedType
  <2> HIDE DEF r
  <2> QED
    BY <2>1, <2>2
<1>2. PICK g : Follows(g, N, PushState, base, step)
  <2> HIDE DEF base, step, N
  <2> QED
    BY <1>0, <1>1, FollowsExists
<1>3. g \in [0 .. N -> PushState] /\ g[0] = base
  BY <1>2 DEF Follows
<1>4. ASSUME NEW n \in 1 .. N PROVE g[n] = PushLooped(pusher, delta, g[n - 1])
  <2>1. n \in Nat /\ n - 1 \in 0 .. N
    BY <1>0
  <2>2. g[n] = step[<<n, g[n - 1]>>] /\ g[n - 1] \in PushState
    BY <1>2, <1>3, <2>1 DEF Follows
  <2> HIDE DEF r
  <2> QED
    BY <2>1, <2>2
<1>5. g = [n \in 0 .. (ObjCount + 1) |->
             IF n = 0 THEN [valid |-> TRUE, ids |-> X]
             ELSE LET before == g[n - 1]
                  IN  IF before.valid THEN PushPass(pusher, delta, before.ids) ELSE before]
  <2> HIDE DEF r, step
  <2> QED
    BY <1>0, <1>3, <1>4 DEF PushLooped
<1>6. r = [n \in 0 .. (ObjCount + 1) |->
             IF n = 0 THEN [valid |-> TRUE, ids |-> X]
             ELSE LET before == r[n - 1]
                  IN  IF before.valid THEN PushPass(pusher, delta, before.ids) ELSE before]
  <2> HIDE DEF step
  <2> QED
    BY <1>5
<1>7. PushLoop(pusher, delta, X) = r[N]
  BY DEF PushLoop
<1> HIDE DEF r
<1>8. r[0] = base /\ \A n \in 1 .. N : r[n] = PushLooped(pusher, delta, r[n - 1])
  BY <1>0, <1>6 DEF PushLooped
<1>9. r \in [0 .. N -> PushState]
  <2> DEFINE T == {n \in 0 .. N : r[n] \in PushState}
  <2>1. 0 \in T
    BY <1>0, <1>1, <1>8
  <2>2. ASSUME NEW n \in 1 .. N, n - 1 \in T PROVE n \in T
    <3>1. n \in 0 .. N /\ r[n - 1] \in PushState
      BY <1>0, <2>2
    <3> QED
      BY <1>8, <3>1, PushLoopedType
  <2>3. \A n \in 0 .. N : n \in T
    <3> HIDE DEF T, N
    <3> QED
      BY <1>0, <2>1, <2>2, InductionUpTo
  <2> QED
    BY <1>6, <2>3
<1> QED
  BY <1>7, <1>8, <1>9 DEF PushPasses

\* The loop ends with the least set that can be pushed, if there is one.
LEMMA PushLoopFacts ==
  ASSUME NEW pusher, NEW delta, NEW X \in SUBSET Objects
  PROVE  /\ PushLoop(pusher, delta, X) \in PushState /\ X \subseteq PushLoop(pusher, delta, X).ids
         /\ PushLoop(pusher, delta, X).valid
              => PushedTogether(pusher, delta, PushLoop(pusher, delta, X).ids)
         /\ \A Y \in SUBSET Objects : X \subseteq Y /\ PushedTogether(pusher, delta, Y)
              => PushLoop(pusher, delta, X).valid /\ PushLoop(pusher, delta, X).ids \subseteq Y
<1> DEFINE p == PushLoop(pusher, delta, X)
           N == ObjCount + 1
<1>0. PICK r : PushPasses(r, pusher, delta, X)
  BY PushLoopFollows
<1>1. /\ r \in [0 .. N -> PushState]
      /\ r[0] = [valid |-> TRUE, ids |-> X] /\ p = r[N]
      /\ \A n \in 1 .. N : r[n] = PushLooped(pusher, delta, r[n - 1])
  BY <1>0 DEF PushPasses
<1> HIDE DEF p
<1>2. /\ N \in Nat /\ 0 \in 0 .. N /\ N \in 0 .. N /\ ObjCount \in Nat /\ ObjCount \in 0 .. N
      /\ \A n \in 1 .. N : n \in 0 .. N /\ n - 1 \in 0 .. N
      /\ N \in 1 .. N /\ N - 1 = ObjCount
      /\ \A n \in 1 .. ObjCount : n \in 1 .. N /\ n \in 0 .. ObjCount /\ n - 1 \in 0 .. ObjCount
      /\ \A n \in 0 .. ObjCount : n \in 0 .. N
  BY ObjectNumbers
<1> HIDE DEF N
<1>3. \A n \in 1 .. N : r[n - 1].ids \subseteq r[n].ids /\ (r[n].valid => r[n - 1].valid)
  BY <1>1, <1>2, PushLoopedType
<1>4. p \in PushState /\ X \subseteq p.ids
  <2> DEFINE f == [i \in 0 .. N |-> r[i].ids]
  <2>1. \A i \in 1 .. N : f[i - 1] \subseteq f[i]
    BY <1>2, <1>3
  <2>2. 0 <= N
    BY <1>2
  <2>3. f[0] \subseteq f[N]
    <3> HIDE DEF f
    <3> QED
      BY <1>2, <2>1, <2>2, Ascending
  <2> QED
    BY <1>1, <1>2, <2>3
<1>5. ASSUME p.valid PROVE PushedTogether(pusher, delta, p.ids)
  <2> DEFINE f    == [i \in 0 .. ObjCount |-> r[i].ids]
             pass == [Y \in SUBSET Objects |-> PushPass(pusher, delta, Y).ids]
  <2>1. \A i \in 0 .. N : r[i].valid /\ r[i].ids \in SUBSET Objects
    <3>1. \A i \in 1 .. N : r[i].valid => r[i - 1].valid
      BY <1>3
    <3>2. r[N].valid
      BY <1>1, <1>5
    <3>3. \A i \in 0 .. N : r[i].valid
      BY <1>2, <3>1, <3>2, ValidBefore
    <3> QED
      BY <1>1, <3>3 DEF PushState
  <2>2. \A n \in 1 .. N : r[n] = PushPass(pusher, delta, r[n - 1].ids)
    BY <1>1, <1>2, <2>1 DEF PushLooped
  <2>3. f \in [0 .. ObjCount -> SUBSET Objects]
    BY <1>2, <2>1
  <2>4. pass \in [SUBSET Objects -> SUBSET Objects] /\ \A Y \in SUBSET Objects : Y \subseteq pass[Y]
    BY PushPassFacts DEF PushState
  <2>5. \A n \in 1 .. ObjCount : f[n] = pass[f[n - 1]]
    <3> TAKE n \in 1 .. ObjCount
    <3>1. f[n] = r[n].ids /\ f[n - 1] = r[n - 1].ids
      BY <1>2
    <3>2. r[n] = PushPass(pusher, delta, r[n - 1].ids) /\ r[n - 1].ids \in SUBSET Objects
      BY <1>2, <2>1, <2>2
    <3> HIDE DEF f
    <3> QED
      BY <3>1, <3>2
  <2>6. pass[f[ObjCount]] = f[ObjCount]
    <3>1. IsFiniteSet(Objects) /\ Cardinality(Objects) <= ObjCount
      BY ObjectsType, ObjectNumbers
    <3>2. ObjCount \in Nat
      BY <1>2
    <3> HIDE DEF pass, f
    <3>3. \A g \in [0 .. ObjCount -> SUBSET Objects] :
            (\A n \in 1 .. ObjCount : g[n] = pass[g[n - 1]]) => pass[g[ObjCount]] = g[ObjCount]
      BY <2>4, <3>1, <3>2, Saturates, ZenonT(90)
    <3> QED
      BY <2>3, <2>5, <3>3
  <2>7. f[ObjCount] = r[ObjCount].ids /\ ObjCount \in 0 .. N
    BY <1>2
  <2>8. p = PushPass(pusher, delta, r[ObjCount].ids)
    BY <1>1, <1>2, <2>2
  <2>9. r[ObjCount].ids \in SUBSET Objects /\ p.ids = r[ObjCount].ids
    BY <2>1, <2>6, <2>7, <2>8
  <2> HIDE DEF f, pass
  <2> QED
    BY <1>5, <2>8, <2>9, PushPassFacts
<1>6. ASSUME NEW Y \in SUBSET Objects, X \subseteq Y, PushedTogether(pusher, delta, Y)
      PROVE  p.valid /\ p.ids \subseteq Y
  <2> DEFINE T == {n \in 0 .. N : r[n].valid /\ r[n].ids \subseteq Y}
  <2>0. r[0].valid /\ r[0].ids \subseteq Y
    BY <1>1, <1>6
  <2>1. 0 \in T
    BY <1>2, <2>0
  <2>2. ASSUME NEW n \in 1 .. N, n - 1 \in T PROVE n \in T
    <3>1. r[n] = PushPass(pusher, delta, r[n - 1].ids) /\ n \in 0 .. N
      BY <1>1, <1>2, <2>2 DEF PushLooped
    <3>2. r[n - 1].ids \in SUBSET Objects /\ r[n - 1].ids \subseteq Y
      BY <1>6, <2>2
    <3> QED
      BY <1>6, <3>1, <3>2, PushPassFacts
  <2>3. \A n \in 0 .. N : n \in T
    <3> HIDE DEF T
    <3> QED
      BY <1>2, <2>1, <2>2, InductionUpTo
  <2> QED
    BY <1>1, <1>2, <2>3
<1> QED
  BY <1>4, <1>5, <1>6 DEF p

LEMMA InTheWayIsInPlay ==
  ASSUME NEW pusher, NEW i, NEW o \in PushMapObjectsAt(pusher, i), o # pusher
  PROVE  InPlay(o)
  BY DEF PushMapObjectsAt, PushMapCells, InPlay

LEMMA LoopPushesLeast ==
  ASSUME NEW s \in Snakes, NEW delta \in Steps
  PROVE  LET front == PushMapObjectsAt(s, snakes[s][1] + delta)
         IN  IF front = {} \/ PushableSets(s, delta) = {} THEN Pushed(s, delta) = {}
             ELSE is_valid_push(s, delta, Pushed(s, delta))
<1> DEFINE front == PushMapObjectsAt(s, snakes[s][1] + delta)
           L == PushLoop(s, delta, front)
<1>1. front \in SUBSET Objects
  BY DEF PushMapObjectsAt
<1>2. /\ L \in PushState /\ front \subseteq L.ids
      /\ L.valid => PushedTogether(s, delta, L.ids)
      /\ \A Y \in SUBSET Objects : front \subseteq Y /\ PushedTogether(s, delta, Y)
           => L.valid /\ L.ids \subseteq Y
  <2> HIDE DEF front
  <2> QED
    BY <1>1, PushLoopFacts
<1>3. Pushed(s, delta) = IF front \subseteq {s} \/ ~L.valid \/ s \in L.ids THEN {} ELSE L.ids
  BY DEF Pushed
<1>4. \A P \in PushableSets(s, delta) : /\ P \in SUBSET Objects /\ s \notin P /\ front \subseteq P
                                        /\ PushedTogether(s, delta, P)
  BY DEF PushableSets, PushedTogether
<1>5. ASSUME L.valid, s \notin L.ids PROVE L.ids \in PushableSets(s, delta)
  <2>1. PushedTogether(s, delta, L.ids) /\ L.ids \in SUBSET Objects
    BY <1>2, <1>5 DEF PushState
  <2> DEFINE seen == {o \in L.ids : InPlay(o)}
  <2>2. front \subseteq seen
    BY <1>2, <1>5, InTheWayIsInPlay
  <2>3. \A o \in L.ids : Obstructing(s, o, delta) \subseteq seen
    <3> SUFFICES ASSUME NEW o \in L.ids, NEW q \in Obstructing(s, o, delta) PROVE q \in seen
      OBVIOUS
    <3>1. q \in L.ids /\ q # s
      BY <1>5, <2>1 DEF PushedTogether
    <3>2. \E i : q \in PushMapObjectsAt(s, i)
      BY DEF Obstructing, PushMapObjectsAt
    <3> QED
      BY <3>1, <3>2, InTheWayIsInPlay
  <2>4. PushedTogether(s, delta, seen)
    BY <2>1, <2>3 DEF PushedTogether
  <2>5. L.ids = seen
    <3>1. seen \in SUBSET Objects
      BY <2>1
    <3>2. L.ids \subseteq seen
      <4> HIDE DEF seen, L, front
      <4> QED
        BY <1>2, <2>2, <2>4, <3>1
    <3> HIDE DEF L
    <3> QED
      BY <3>2
  <2>6. \A o \in L.ids : o \in Objects \ {s} /\ InPlay(o) /\ can_be_pushed(o, delta)
    <3> HIDE DEF L
    <3> QED
      BY <1>5, <2>1, <2>5 DEF PushedTogether
  <2> HIDE DEF L
  <2> QED
    BY <1>2, <2>1, <2>6 DEF PushableSets, PushedTogether
<1> HIDE DEF L, front
<1>6. ASSUME front # {}, PushableSets(s, delta) # {} PROVE is_valid_push(s, delta, Pushed(s, delta))
  <2>1. PICK P \in PushableSets(s, delta) : TRUE
    BY <1>6
  <2>2. L.valid /\ \A Q \in PushableSets(s, delta) : L.ids \subseteq Q
    BY <1>2, <1>4, <2>1
  <2>3. s \notin L.ids /\ ~(front \subseteq {s})
    BY <1>4, <1>6, <2>1, <2>2
  <2>4. Pushed(s, delta) = L.ids /\ L.ids \in PushableSets(s, delta)
    BY <1>3, <1>5, <2>2, <2>3
  <2> QED
    BY <2>2, <2>4 DEF is_valid_push
<1>7. ASSUME front = {} \/ PushableSets(s, delta) = {} PROVE Pushed(s, delta) = {}
  BY <1>3, <1>5, <1>7
<1> QED
  BY <1>6, <1>7 DEF front

\* The passes of is_valid_push end with the least set of objects that has to
\* move, where one can, however the objects are numbered.
THEOREM PushIsFound == Spec => []PushLoopFindsLeast
<1>1. PushLoopFindsLeast
  BY LoopPushesLeast DEF PushLoopFindsLeast
<1> QED
  BY <1>1, PTL

=============================================================================
