---------------------------- MODULE SolverProofs ----------------------------
(***************************************************************************)
(* Proofs about Solver, the whole program of a level.  The search unpacks  *)
(* a state, leaves it half way and loads another, so what it works on is   *)
(* no behaviour of Snakebird.  The inductive invariant is that the state   *)
(* at hand keeps the rules all the same, and that what the search has kept *)
(* are keys of such states, whose objects are in the order of canonicalize.*)
(* Such a key is determined by what can be seen of its state.              *)
(***************************************************************************)
EXTENDS Solver, StatePackingProofs

-----------------------------------------------------------------------------
(***************************************************************************)
(* States as records: what a key has to unpack to.                         *)
(***************************************************************************)
\* The members of a State, as they are unpacked.
Current == [snakes |-> snakes, tail_ |-> tail_, fruit |-> fruit, gadgets |-> gadgets]

\* CellsOf and HeadCell, in a given state.
CellsIn(st, o) ==
  IF o \in Snakes THEN Range(st.snakes[o])
  ELSE IF st.gadgets[o] = kGadgetDeleted THEN {} ELSE {st.gadgets[o] + d : d \in Shape[o]}

HeadIn(st, s) == IF st.snakes[s] = <<>> THEN 0 ELSE st.snakes[s][1]

\* Objects are in the order of canonicalize.
InOrder(st) ==
  /\ \A s, t \in Snakes : s < t => HeadIn(st, s) <= HeadIn(st, t)
  /\ \A g, h \in Gadgets : g < h /\ ShapeRank[g] = ShapeRank[h] => st.gadgets[g] <= st.gadgets[h]

\* A state that do_valid_moves can be called on.
Sound(st) ==
  /\ st.snakes \in [Snakes -> Seq(Coord)] /\ st.gadgets \in [Gadgets -> Coord]
  /\ st.fruit \subseteq Fruit
  /\ \A o, p \in Objects : o # p => CellsIn(st, o) \intersect CellsIn(st, p) = {}
  /\ \A o \in Objects : /\ CellsIn(st, o) \intersect st.fruit = {}
                        /\ CellsIn(st, o) \subseteq OpenTerrain
  /\ \A s \in Snakes : /\ Distinct(st.snakes[s]) /\ Linked(st.snakes[s])
                       /\ Len(st.snakes[s]) + Cardinality(st.fruit) <= SnakeMaxLen
  /\ st.tail_ \in [Snakes -> SUBSET Nat]
  /\ \A s \in Snakes : Describes(st.tail_[s], st.snakes[s])
  /\ InOrder(st)

Between == phase = "moves" /\ orig_tele_mask = {} /\ recompute_falling = {}

LEMMA CurrentCells == \A o \in Objects : CellsIn(Current, o) = CellsOf(o)
  BY DEF CellsIn, Current, CellsOf, GadgetCells

LEMMA SoundIsInv ==
  ASSUME Sound(Current), Between
  PROVE  Inv /\ SnakeInv /\ TailInv
  <1>1. TypeOK
    BY DEF Sound, Between, Current, TypeOK, Phase
  <1>2. NoOverlap
    BY CurrentCells DEF Sound, Current, NoOverlap, Distinct
  <1>3. InTheOpen
    BY CurrentCells DEF Sound, InTheOpen
  <1>4. SnakeInv
    BY SnakeInvFacts DEF Sound, Current
  <1>5. TailInv
    BY DEF Sound, Current, TailInv
  <1>6. QED
    BY <1>1, <1>2, <1>3, <1>4, <1>5 DEF Inv

LEMMA InvIsSound ==
  ASSUME Inv, SnakeInv, TailInv, InOrder(Current)
  PROVE  Sound(Current)
  <1>1. /\ Current.snakes = snakes /\ Current.gadgets = gadgets /\ Current.fruit = fruit
        /\ Current.tail_ = tail_
    BY DEF Current
  <1>2. /\ snakes \in [Snakes -> Seq(Coord)] /\ gadgets \in [Gadgets -> Coord]
        /\ fruit \subseteq Fruit
    BY DEF Inv, TypeOK
  <1>3. /\ \A o, p \in Objects : o # p => CellsIn(Current, o) \intersect CellsIn(Current, p) = {}
        /\ \A o \in Objects : CellsIn(Current, o) \intersect fruit = {}
        /\ \A s \in Snakes : Distinct(snakes[s])
    BY CurrentCells DEF Inv, NoOverlap, Distinct
  <1>4. \A o \in Objects : CellsIn(Current, o) \subseteq OpenTerrain
    BY CurrentCells DEF Inv, InTheOpen
  <1>5. QED
    BY <1>1, <1>2, <1>3, <1>4, SnakeInvFacts DEF Sound, TailInv

LEMMA SoundGivesInv == Sound(Current) /\ Between => Inv /\ SnakeInv /\ TailInv
  BY SoundIsInv

\* The same of the state after a step.
LEMMA SoundIsInvNext ==
  (Sound(Current) /\ Between)' => (Inv /\ SnakeInv /\ TailInv)'
  BY SoundGivesInv, PTL

-----------------------------------------------------------------------------
(***************************************************************************)
(* Keys. operator< compares packed states in chunks of eight, four and one *)
(* bytes. Chunks do not overlap and cover the bytes, so each bit has a     *)
(* place of its own in the number that is compared, and the number         *)
(* determines the bytes.                                                   *)
(***************************************************************************)
\* Where the chunk begins that a byte is compared in.
ChunkStart(byte) == ChunkSize(byte) * (byte \div ChunkSize(byte))

LEMMA ChunkFacts ==
  ASSUME NEW byte \in 0 .. (P!Bytes - 1)
  PROVE  /\ ChunkSize(byte) \in Nat /\ ChunkStart(byte) \in Nat
         /\ ChunkStart(byte) <= byte /\ byte < ChunkStart(byte) + ChunkSize(byte)
         /\ ChunkStart(byte) + ChunkSize(byte) <= P!Bytes
  <1> DEFINE n == P!Bytes
             eights == 8 * (n \div 8)
             fours == 4 * (n \div 4)
  <1>1. n \in Nat
    BY PackedBitsType
  <1>2. ChunkSize(byte) = IF byte < eights THEN 8 ELSE IF byte < fours THEN 4 ELSE 1
    BY DEF ChunkSize
  <1> HIDE DEF n
  <1>3. byte \in Nat /\ byte < n
    BY <1>1 DEF n
  <1>4. CASE byte < eights
    BY <1>1, <1>2, <1>3, <1>4 DEF ChunkStart, n
  <1>5. CASE ~(byte < eights) /\ byte < fours
    BY <1>1, <1>2, <1>3, <1>5 DEF ChunkStart, n
  <1>6. CASE ~(byte < eights) /\ ~(byte < fours)
    BY <1>1, <1>2, <1>3, <1>6 DEF ChunkStart, n
  <1>7. QED
    BY <1>4, <1>5, <1>6

\* Chunks do not overlap.
LEMMA ChunksApart ==
  ASSUME NEW a \in 0 .. (P!Bytes - 1), NEW b \in 0 .. (P!Bytes - 1), a < b
  PROVE  \/ ChunkStart(a) = ChunkStart(b) /\ ChunkSize(a) = ChunkSize(b)
         \/ ChunkStart(a) + ChunkSize(a) <= ChunkStart(b)
  <1> DEFINE n == P!Bytes
             eights == 8 * (n \div 8)
             fours == 4 * (n \div 4)
  <1>1. n \in Nat
    BY PackedBitsType
  <1>2. /\ ChunkSize(a) = IF a < eights THEN 8 ELSE IF a < fours THEN 4 ELSE 1
        /\ ChunkSize(b) = IF b < eights THEN 8 ELSE IF b < fours THEN 4 ELSE 1
    BY DEF ChunkSize
  <1> HIDE DEF n
  <1>3. a \in Nat /\ b \in Nat /\ a < b /\ b < n
    BY <1>1 DEF n
  <1>4. CASE b < eights
    BY <1>1, <1>2, <1>3, <1>4 DEF ChunkStart
  <1>5. CASE ~(b < eights) /\ b < fours
    BY <1>1, <1>2, <1>3, <1>5 DEF ChunkStart
  <1>6. CASE ~(b < eights) /\ ~(b < fours)
    BY <1>1, <1>2, <1>3, <1>6 DEF ChunkStart
  <1>7. QED
    BY <1>4, <1>5, <1>6

LEMMA BytesTimes ==
  ASSUME NEW x \in Int, NEW y \in Int
  PROVE  /\ ByteBits * x \in Int /\ ByteBits * (x + y) = ByteBits * x + ByteBits * y
         /\ ByteBits * (x - y) = ByteBits * x - ByteBits * y
         /\ x <= y => ByteBits * x <= ByteBits * y
  <1>1. ByteBits \in Nat \ {0}
    BY WidthFacts
  <1>2. ASSUME x <= y PROVE ByteBits * x <= ByteBits * y
    <2>1. ByteBits * (y - x) >= 0
      BY <1>1, <1>2
    <2>2. QED
      BY <1>1, <2>1
  <1>3. QED
    BY <1>1, <1>2

\* A bit of a packed state, by the chunk it is in.
LEMMA BitPlaces ==
  ASSUME NEW bit \in 0 .. (packed_bits - 1)
  PROVE  \E byte \in 0 .. (P!Bytes - 1) :
           LET first == ByteBits * ChunkStart(byte)
               size  == ByteBits * ChunkSize(byte)
           IN  /\ first \in Nat /\ size \in Nat /\ first + size <= ByteBits * P!Bytes
               /\ first <= bit /\ bit < first + size
               /\ Significance(bit) = (ByteBits * P!Bytes - first - size) + (bit - first)
               /\ byte = bit \div ByteBits
  <1> DEFINE byte == bit \div ByteBits
  <1>1. ByteBits \in Nat \ {0} /\ P!Bytes \in Nat /\ packed_bits \in Nat /\ bit \in Nat
        /\ bit < ByteBits * P!Bytes /\ ByteBits * P!Bytes \in Nat
    BY WidthFacts, PackedBitsType
  <1>2. byte \in Nat /\ ByteBits * byte <= bit /\ bit < ByteBits * byte + ByteBits
    BY <1>1, DivisionFacts
  <1> HIDE DEF byte
  <1>3. byte < P!Bytes
    <2> SUFFICES ASSUME P!Bytes <= byte PROVE FALSE
      BY <1>1, <1>2
    <2>1. ByteBits * P!Bytes <= ByteBits * byte
      BY <1>1, <1>2, BytesTimes
    <2>2. QED
      BY <1>1, <1>2, <2>1
  <1>4. byte \in 0 .. (P!Bytes - 1)
    BY <1>1, <1>2, <1>3
  <1> DEFINE start == ChunkStart(byte)
             chunk == ChunkSize(byte)
             first == ByteBits * start
             size == ByteBits * chunk
  <1>5. start \in Nat /\ chunk \in Nat /\ start <= byte /\ byte + 1 <= start + chunk
        /\ start + chunk <= P!Bytes
    BY <1>1, <1>2, <1>4, ChunkFacts
  <1>6. Significance(bit) = ByteBits * (P!Bytes - start - chunk) + (bit - first)
    BY DEF Significance, ChunkStart, byte
  <1> HIDE DEF start, chunk
  <1>7. first \in Nat /\ size \in Nat
    BY <1>1, <1>5
  <1>8. first <= ByteBits * byte
    BY <1>2, <1>5, BytesTimes
  <1>9. ByteBits * byte + ByteBits <= first + size
    <2>1. ByteBits * (byte + 1) <= ByteBits * (start + chunk)
      BY <1>2, <1>5, BytesTimes
    <2>2. ByteBits * (byte + 1) = ByteBits * byte + ByteBits /\ ByteBits * (start + chunk) = first + size
      BY <1>1, <1>2, <1>5, BytesTimes
    <2>3. QED
      BY <2>1, <2>2
  <1>10. first + size <= ByteBits * P!Bytes
    <2>1. ByteBits * (start + chunk) <= ByteBits * P!Bytes
      BY <1>1, <1>5, BytesTimes
    <2>2. ByteBits * (start + chunk) = first + size
      BY <1>5, BytesTimes
    <2>3. QED
      BY <2>1, <2>2
  <1>11. ByteBits * (P!Bytes - start - chunk) = ByteBits * P!Bytes - first - size
    <2>1. P!Bytes - start \in Int
      BY <1>1, <1>5
    <2>2. ByteBits * (P!Bytes - start - chunk) = ByteBits * (P!Bytes - start) - size
      BY <1>5, <2>1, BytesTimes
    <2>3. ByteBits * (P!Bytes - start) = ByteBits * P!Bytes - first
      BY <1>1, <1>5, BytesTimes
    <2>4. QED
      BY <2>2, <2>3
  <1> HIDE DEF first, size
  <1>12. first <= bit /\ bit < first + size
    BY <1>1, <1>2, <1>7, <1>8, <1>9
  <1>13. Significance(bit) = (ByteBits * P!Bytes - first - size) + (bit - first)
    BY <1>6, <1>11
  <1>14. QED
    BY <1>4, <1>7, <1>10, <1>12, <1>13 DEF first, size, start, chunk, byte

\* Every bit has its place in the number, and a place of its own.
LEMMA SignificanceFacts ==
  /\ \A b \in 0 .. (packed_bits - 1) : Significance(b) \in 0 .. (ByteBits * P!Bytes - 1)
  /\ \A a, b \in 0 .. (packed_bits - 1) : Significance(a) = Significance(b) => a = b
  <1>1. ByteBits * P!Bytes \in Nat /\ packed_bits \in Nat
    BY WidthFacts, PackedBitsType
  <1> DEFINE all == ByteBits * P!Bytes
  <1>2. ASSUME NEW b \in 0 .. (packed_bits - 1) PROVE Significance(b) \in 0 .. (all - 1)
    <2>1. PICK byte \in 0 .. (P!Bytes - 1) :
            LET first == ByteBits * ChunkStart(byte)
                size  == ByteBits * ChunkSize(byte)
            IN  /\ first \in Nat /\ size \in Nat /\ first + size <= all
                /\ first <= b /\ b < first + size
                /\ Significance(b) = (all - first - size) + (b - first)
      BY BitPlaces
    <2> DEFINE first == ByteBits * ChunkStart(byte)
               size == ByteBits * ChunkSize(byte)
    <2>2. /\ first \in Nat /\ size \in Nat /\ first + size <= all
          /\ first <= b /\ b < first + size
          /\ Significance(b) = (all - first - size) + (b - first)
      BY <2>1
    <2> HIDE DEF first, size, all
    <2>3. all \in Nat /\ b \in Nat
      BY <1>1 DEF all
    <2>4. QED
      BY <2>2, <2>3
  <1>3. ASSUME NEW a \in 0 .. (packed_bits - 1), NEW b \in 0 .. (packed_bits - 1), a < b
        PROVE  Significance(a) # Significance(b)
    <2>1. PICK x \in 0 .. (P!Bytes - 1) :
            LET first == ByteBits * ChunkStart(x)
                size  == ByteBits * ChunkSize(x)
            IN  /\ first \in Nat /\ size \in Nat /\ first + size <= all
                /\ first <= a /\ a < first + size
                /\ Significance(a) = (all - first - size) + (a - first)
                /\ x = a \div ByteBits
      BY BitPlaces
    <2>2. PICK y \in 0 .. (P!Bytes - 1) :
            LET first == ByteBits * ChunkStart(y)
                size  == ByteBits * ChunkSize(y)
            IN  /\ first \in Nat /\ size \in Nat /\ first + size <= all
                /\ first <= b /\ b < first + size
                /\ Significance(b) = (all - first - size) + (b - first)
                /\ y = b \div ByteBits
      BY BitPlaces
    <2>3. x <= y
      <3>1. ByteBits \in Nat \ {0} /\ a \in Nat /\ b \in Nat
        BY <1>1, WidthFacts
      <3>2. /\ x \in Int /\ y \in Int
            /\ ByteBits * x <= a /\ b < ByteBits * y + ByteBits
        BY <2>1, <2>2, <3>1, DivisionFacts
      <3>3. ASSUME y < x PROVE FALSE
        <4>1. ByteBits * (y + 1) <= ByteBits * x /\ ByteBits * (y + 1) = ByteBits * y + ByteBits
          BY <3>1, <3>2, <3>3, BytesTimes
        <4>2. ByteBits * y \in Int /\ ByteBits * x \in Int
          BY <3>2, BytesTimes
        <4>3. QED
          BY <1>3, <3>1, <3>2, <4>1, <4>2
      <3>4. QED
        BY <3>2, <3>3
    <2> DEFINE f == ByteBits * ChunkStart(x)
               m == ByteBits * ChunkSize(x)
               g == ByteBits * ChunkStart(y)
               n == ByteBits * ChunkSize(y)
    <2>4. /\ f \in Nat /\ m \in Nat /\ a < f + m /\ Significance(a) = (all - f - m) + (a - f)
          /\ f <= a
      BY <2>1
    <2>5. /\ g \in Nat /\ n \in Nat /\ g <= b /\ b < g + n
          /\ Significance(b) = (all - g - n) + (b - g)
      BY <2>2
    <2>6. (f = g /\ m = n) \/ f + m <= g
      <3>1. CASE x = y
        BY <3>1
      <3>2. CASE x < y
        <4>1. \/ ChunkStart(x) = ChunkStart(y) /\ ChunkSize(x) = ChunkSize(y)
              \/ ChunkStart(x) + ChunkSize(x) <= ChunkStart(y)
          BY <3>2, ChunksApart
        <4>2. ChunkStart(x) \in Int /\ ChunkSize(x) \in Int /\ ChunkStart(y) \in Int
          BY ChunkFacts
        <4>3. CASE ChunkStart(x) + ChunkSize(x) <= ChunkStart(y)
          <5>1. ByteBits * (ChunkStart(x) + ChunkSize(x)) = f + m
            BY <4>2, BytesTimes
          <5>2. ChunkStart(x) + ChunkSize(x) \in Int
            BY <4>2
          <5>3. ByteBits * (ChunkStart(x) + ChunkSize(x)) <= g
            BY <4>2, <4>3, <5>2, BytesTimes
          <5>4. QED
            BY <5>1, <5>3
        <4>4. QED
          BY <4>1, <4>3
      <3>3. QED
        BY <2>3, <3>1, <3>2
    <2> HIDE DEF f, g, m, n, all
    <2>7. all \in Nat /\ a \in Nat /\ b \in Nat
      BY <1>1 DEF all
    <2>8. QED
      BY <1>3, <2>4, <2>5, <2>6, <2>7
  <1> HIDE DEF all
  <1>4. ASSUME NEW a \in 0 .. (packed_bits - 1), NEW b \in 0 .. (packed_bits - 1),
               Significance(a) = Significance(b)
        PROVE  a = b
    <2>1. a \in Int /\ b \in Int
      BY <1>1
    <2>2. a < b \/ a = b \/ b < a
      BY <2>1
    <2>3. QED
      BY <1>3, <1>4, <2>2
  <1>5. QED
    BY <1>2, <1>4 DEF all

\* A key is a number of so many bits.
KeyRange == 0 .. (2 ^ (ByteBits * P!Bytes) - 1)

\* Nothing is lost between the bytes and the number they are compared as.
LEMMA KeyHasBytes ==
  ASSUME NEW bytes, bytes \subseteq 0 .. (packed_bits - 1)
  PROVE  KeyFrom(bytes) \in KeyRange /\ BytesOf(KeyFrom(bytes)) = bytes
  <1> DEFINE w == ByteBits * P!Bytes
             places == {Significance(b) : b \in bytes}
             key == NumberOf(places, w)
  <1>1. w \in Nat
    BY WidthFacts, PackedBitsType
  <1>2. key \in Nat /\ key < 2 ^ w /\ \A b \in 0 .. w - 1 : IsSet(b, key) <=> b \in places
    <2> HIDE DEF w, places
    <2>1. QED
      BY <1>1, NumberHasBits
  <1>3. KeyFrom(bytes) = key
    BY DEF KeyFrom
  <1>4. key \in KeyRange
    <2> HIDE DEF key
    <2>1. 2 ^ w \in Nat
      BY <1>1, PowerFacts
    <2>2. QED
      BY <1>2, <2>1 DEF KeyRange
  <1>5. \A b \in 0 .. (packed_bits - 1) : IsSet(Significance(b), key) <=> b \in bytes
    <2> TAKE b \in 0 .. (packed_bits - 1)
    <2>1. Significance(b) \in 0 .. w - 1
      BY SignificanceFacts
    <2>2. Significance(b) \in places <=> b \in bytes
      BY SignificanceFacts
    <2> HIDE DEF places, w, key
    <2>3. QED
      BY <1>2, <2>1, <2>2
  <1> HIDE DEF key
  <1>6. BytesOf(key) = {b \in 0 .. (packed_bits - 1) : IsSet(Significance(b), key)}
    BY DEF BytesOf, P!mask_n_bits
  <1>7. BytesOf(key) = bytes
    BY <1>5, <1>6
  <1>8. QED
    BY <1>3, <1>4, <1>7

-----------------------------------------------------------------------------
(***************************************************************************)
(* The keys of sound states.                                               *)
(***************************************************************************)
\* The bits of a packed state are below packed_bits.
LEMMA PackedInRange ==
  ASSUME Inv, SnakeInv, TailInv
  PROVE  Packed \subseteq 0 .. (packed_bits - 1)
  <1> DEFINE n == FieldCount
             fields == Fields
             widths == FieldWidths
             off == Offset
  <1>1. Legal(fields, widths, off, n)
    BY FieldsLegal
  <1>2. Packed = Laid(fields, off, n)
    BY <1>1, PacksAll DEF Packed
  <1>3. /\ n \in Nat /\ n \in 0 .. n /\ packed_bits \in Nat
        /\ off[n] <= packed_bits /\ \A k \in 0 .. n : off[k] \in Nat
    BY <1>1, PackedBitsType, CountFacts DEF Legal
  <1> HIDE DEF n, fields, widths, off
  <1>4. ASSUME NEW b \in Nat, NEW i \in 1 .. n, b - off[i - 1] \in fields[i].data
        PROVE  b < packed_bits
    <2>1. /\ i - 1 \in 0 .. n /\ i \in 0 .. n /\ widths[i] \in Nat
          /\ fields[i].data \subseteq 0 .. (widths[i] - 1) /\ off[i] = off[i - 1] + widths[i]
      BY <1>1, LegalFacts
    <2>2. off[i] <= off[n]
      BY <1>1, <1>3, <2>1, OffsetsRise
    <2>3. off[i - 1] \in Nat /\ off[i] \in Nat /\ off[n] \in Nat
      BY <1>3, <2>1
    <2>4. b - off[i - 1] \in 0 .. (widths[i] - 1)
      BY <1>4, <2>1
    <2>5. QED
      BY <1>3, <2>1, <2>2, <2>3, <2>4
  <1>5. QED
    BY <1>2, <1>3, <1>4 DEF Laid

\* PackedState(st), of a state that is given as a record.
FieldsIn(st) ==
  FlattenSeq([s \in Snakes |->
                << Field(st.tail_[s], kTailBits), Field(BitsOf(HeadIn(st, s)), kIndexBits),
                   Field(BitsOf(Len(st.snakes[s])), kLenBits) >>])
  \o << Field(fruit_bits(st.fruit), FruitCount) >>
  \o [i \in 1 .. GadgetCount |-> Field(BitsOf(st.gadgets[SnakeCount + i]), kIndexBits)]

KeyOf(st) == KeyFrom(P!PackFields(FieldsIn(st)))

LEMMA PackedKeyIsKeyOf == PackedKey = KeyOf(Current)
  <1>1. /\ Current.snakes = snakes /\ Current.gadgets = gadgets /\ Current.fruit = fruit
        /\ Current.tail_ = tail_
    BY DEF Current
  <1>2. \A s \in Snakes : HeadIn(Current, s) = HeadCell(s)
    BY <1>1 DEF HeadIn, HeadCell
  <1>3. [s \in Snakes |-> SnakeFields(s)] =
          [s \in Snakes |->
             << Field(Current.tail_[s], kTailBits), Field(BitsOf(HeadIn(Current, s)), kIndexBits),
                Field(BitsOf(Len(Current.snakes[s])), kLenBits) >>]
    BY <1>1, <1>2 DEF SnakeFields
  <1>4. Fields = FieldsIn(Current)
    BY <1>1, <1>3 DEF Fields, FieldsIn
  <1>5. QED
    BY <1>4 DEF PackedKey, Packed, KeyOf

\* A key that stands for a state do_valid_moves can be called on.
StateOf(key) == Unpacked(BytesOf(key))

IsState(st) ==
  st = [snakes |-> st.snakes, tail_ |-> st.tail_, fruit |-> st.fruit, gadgets |-> st.gadgets]

Keys == {k \in KeyRange : Sound(StateOf(k)) /\ IsState(StateOf(k)) /\ KeyOf(StateOf(k)) = k}

\* Packing makes such a key.
LEMMA PackedKeyIsKey ==
  ASSUME Inv, SnakeInv, TailInv, InOrder(Current)
  PROVE  PackedKey \in Keys /\ StateOf(PackedKey) = Current
  <1>1. Packed \subseteq 0 .. (packed_bits - 1)
    BY PackedInRange
  <1>2. PackedKey \in KeyRange /\ BytesOf(PackedKey) = Packed
    <2> HIDE DEF Packed
    <2>1. QED
      BY <1>1, KeyHasBytes DEF PackedKey
  <1>3. StateOf(PackedKey) = Current
    BY <1>2, UnpacksState DEF StateOf, Current
  <1>4. Sound(Current)
    BY InvIsSound
  <1>5. IsState(Current)
    BY DEF IsState, Current
  <1>6. QED
    BY <1>2, <1>3, <1>4, <1>5, PackedKeyIsKeyOf DEF Keys

LEMMA KeysAreFinite == IsFiniteSet(Keys)
  <1>1. ByteBits * P!Bytes \in Nat
    BY WidthFacts, PackedBitsType
  <1>2. 2 ^ (ByteBits * P!Bytes) \in Nat
    BY <1>1, PowerFacts
  <1>3. IsFiniteSet(KeyRange)
    BY <1>2, FS_Interval DEF KeyRange
  <1>4. QED
    BY <1>3, FS_Subset DEF Keys

-----------------------------------------------------------------------------
(***************************************************************************)
(* What can be seen of a sound state determines it. Its snakes are in the  *)
(* order of their heads and its gadgets, shape by shape, in the order of   *)
(* their offsets; nothing is in the same place; so the order can be told   *)
(* from what is where.                                                     *)
(***************************************************************************)
\* Numbers in ascending order, 0 as often as there is room.
Ascends(f, I) ==
  /\ \A i \in I : f[i] \in Nat
  /\ \A i, j \in I : i < j => f[i] <= f[j] /\ (f[i] = f[j] => f[i] = 0)

\* What f lists, g lists too.
Covers(g, f, I) == \A i \in I : f[i] # 0 => \E j \in I : g[j] = f[i]

\* All of I is up to b.
Below(I, b) == b \in Nat /\ I \subseteq 0 .. b

\* There is one way only to list a set like that.
LEMMA AscentsAgree ==
  ASSUME NEW b, NEW I, Below(I, b), NEW f, NEW g, Ascends(f, I), Ascends(g, I),
         Covers(g, f, I), Covers(f, g, I)
  PROVE  \A i \in I : f[i] = g[i]
  <1>0. b \in Nat /\ I \subseteq 0 .. b
    BY DEF Below
  <1> DEFINE T == {i \in I : f[i] # g[i]}
  <1> SUFFICES ASSUME T # {} PROVE FALSE
    OBVIOUS
  <1>1. PICK i \in T : \A j \in T : j <= i
    <2>0. \A n \in T : n \in 0 .. b
      BY <1>0
    <2> HIDE DEF T
    <2>1. T \subseteq Nat /\ \A n \in T : n <= b
      BY <1>0, <2>0
    <2>2. QED
      BY <1>0, <2>1, GreatestNatural
  <1>2. i \in I /\ f[i] # g[i] /\ \A j \in I : i < j => f[j] = g[j]
    <2>0. \A j \in I : j \in 0 .. b
      BY <1>0
    <2>1. \A j \in I : j \in Int
      BY <1>0, <2>0
    <2>2. QED
      BY <1>1, <2>1
  <1> HIDE DEF T
  <1>3. ASSUME NEW u, NEW v, Ascends(u, I), Ascends(v, I), u[i] < v[i],
               \A j \in I : i < j => u[j] = v[j],
               Covers(u, v, I)
        PROVE  FALSE
    <2>1. u[i] \in Nat /\ v[i] \in Nat /\ v[i] # 0
      BY <1>2, <1>3 DEF Ascends
    <2>3. PICK j \in I : u[j] = v[i]
      BY <1>2, <1>3, <2>1 DEF Covers
    <2>4. i \in Int /\ j \in Int
      BY <1>0, <1>2
    <2>5. j # i /\ ~(j < i)
      <3>1. j < i => u[j] <= u[i]
        BY <1>2, <1>3 DEF Ascends
      <3>2. QED
        BY <1>3, <2>1, <2>3, <3>1
    <2>6. i < j
      BY <2>4, <2>5
    <2>7. v[j] = v[i]
      BY <1>3, <2>3, <2>6
    <2>8. QED
      BY <1>2, <1>3, <2>1, <2>6, <2>7 DEF Ascends
  <1>4. f[i] \in Nat /\ g[i] \in Nat
    BY <1>2 DEF Ascends
  <1>5. f[i] < g[i] \/ g[i] < f[i]
    BY <1>2, <1>4
  <1>6. QED
    BY <1>2, <1>3, <1>5

\* Steps in different directions differ.
LEMMA StepsDiffer ==
  \A d, e \in Direction : apply_direction[d] = apply_direction[e] => d = e
  <1>1. W \in Nat /\ W >= 3
    BY MapSizeType
  <1>2. QED
    BY <1>1 DEF apply_direction, Direction

\* One body, one tail_.
LEMMA OneTail ==
  ASSUME NEW T, NEW U, NEW body, Describes(T, body), Describes(U, body),
         Len(body) \in Nat
  PROVE  T = U
  <1> DEFINE n == Len(body)
  <1>1. T \subseteq 0 .. (2 * (n - 1) - 1) /\ U \subseteq 0 .. (2 * (n - 1) - 1) /\ n \in Nat
    BY DEF Describes, kDirBits
  <1>2. ASSUME NEW v \in 0 .. (2 * (n - 1) - 1) PROVE v \in T <=> v \in U
    <2> DEFINE i == v \div 2 + 1
               x == v % 2
    <2>1. i \in 1 .. (n - 1) /\ x \in {0, 1} /\ v = 2 * (i - 1) + x
      BY <1>1
    <2> HIDE DEF i, x
    <2>2. PICK d \in Direction : body[i] - body[i + 1] = apply_direction[d] /\ Holds(T, i - 1, d)
      BY <2>1 DEF Describes
    <2>3. PICK e \in Direction : body[i] - body[i + 1] = apply_direction[e] /\ Holds(U, i - 1, e)
      BY <2>1 DEF Describes
    <2>4. d = e
      BY <2>2, <2>3, StepsDiffer
    <2>5. QED
      BY <2>1, <2>2, <2>3, <2>4 DEF Holds, kDirBits
  <1>3. QED
    BY <1>1, <1>2

\* A gadget is known by its cells.
LEMMA CellsTellGadget ==
  ASSUME NEW x \in Nat, NEW y \in Nat, NEW S, S \subseteq Nat, NEW R, R \subseteq Nat,
         0 \in S, 0 \in R, {x + d : d \in S} = {y + d : d \in R}
  PROVE  x = y /\ S = R
  <1>1. x \in {x + d : d \in S} /\ y \in {y + d : d \in R}
    OBVIOUS
  <1>2. x \in {y + d : d \in R} /\ y \in {x + d : d \in S}
    BY <1>1
  <1>3. (\E d \in R : x = y + d) /\ (\E d \in S : y = x + d)
    BY <1>2
  <1>4. x = y
    BY <1>3
  <1>5. ASSUME NEW d \in S PROVE d \in R
    <2>1. x + d \in {y + e : e \in R}
      OBVIOUS
    <2>2. PICK e \in R : x + d = y + e
      BY <2>1
    <2>3. d = e
      BY <1>4, <2>2
    <2>4. QED
      BY <2>3
  <1>6. ASSUME NEW d \in R PROVE d \in S
    <2>1. y + d \in {x + e : e \in S}
      OBVIOUS
    <2>2. PICK e \in S : y + d = x + e
      BY <2>1
    <2>3. d = e
      BY <1>4, <2>2
    <2>4. QED
      BY <2>3
  <1>7. QED
    BY <1>4, <1>5, <1>6

PictureIn(st) ==
  << {st.snakes[s] : s \in Snakes},
     {{st.gadgets[g] + d : d \in Shape[g]} : g \in {h \in Gadgets : st.gadgets[h] # kGadgetDeleted}},
     st.fruit >>

\* What a sound state has in its cells: a snake is gone when its head is at 0.
LEMMA SoundCells ==
  ASSUME NEW st, Sound(st)
  PROVE  /\ \A s \in Snakes : /\ HeadIn(st, s) \in Nat
                              /\ HeadIn(st, s) = 0 <=> st.snakes[s] = <<>>
                              /\ st.snakes[s] # <<>> => HeadIn(st, s) \in CellsIn(st, s)
         /\ \A g \in Gadgets : /\ st.gadgets[g] \in Nat
                               /\ st.gadgets[g] # 0 => st.gadgets[g] \in CellsIn(st, g)
         /\ \A o, p \in Objects : o # p => CellsIn(st, o) \intersect CellsIn(st, p) = {}
  <1>1. 0 \notin OpenTerrain
    <2>1. W \in Nat /\ W >= 3 /\ MapSize \in Nat
      BY MapSizeType
    <2>2. 0 \in Coord => 0 \in Border
      BY <2>1 DEF Border
    <2>3. QED
      BY <2>2, TerrainAssumption DEF OpenTerrain, LegalTerrain
  <1>2. ASSUME NEW s \in Snakes
        PROVE  /\ HeadIn(st, s) \in Nat
               /\ HeadIn(st, s) = 0 <=> st.snakes[s] = <<>>
               /\ st.snakes[s] # <<>> => HeadIn(st, s) \in CellsIn(st, s)
    <2> DEFINE body == st.snakes[s]
    <2>1. body \in Seq(Coord) /\ CellsIn(st, s) = Range(body) /\ Range(body) \subseteq OpenTerrain
      BY DEF Sound, CellsIn, Objects
    <2>2. HeadIn(st, s) = IF body = <<>> THEN 0 ELSE body[1]
      BY DEF HeadIn
    <2> HIDE DEF body
    <2>3. body # <<>> => body[1] \in Coord /\ body[1] \in Range(body)
      <3>1. body # <<>> => Len(body) \in Nat \ {0} /\ body \in [1 .. Len(body) -> Coord]
        BY <2>1, EmptySeq, LenProperties
      <3>2. QED
        BY <3>1 DEF Range
    <2>4. Coord \subseteq Nat
      BY MapSizeType DEF Coord
    <2>5. QED
      BY <1>1, <2>1, <2>2, <2>3, <2>4 DEF body
  <1>3. ASSUME NEW g \in Gadgets
        PROVE  st.gadgets[g] \in Nat /\ (st.gadgets[g] # 0 => st.gadgets[g] \in CellsIn(st, g))
    <2>1. st.gadgets[g] \in Nat
      BY MapSizeType DEF Sound, Coord
    <2>2. 0 \in Shape[g] /\ g \notin Snakes
      BY ObjectsAssumption, SetupAssumption DEF LegalObjects, LegalSetup, Snakes, Gadgets
    <2>3. st.gadgets[g] # 0 => CellsIn(st, g) = {st.gadgets[g] + d : d \in Shape[g]}
      BY <2>2 DEF CellsIn, kGadgetDeleted
    <2>4. st.gadgets[g] = st.gadgets[g] + 0
      BY <2>1
    <2>5. QED
      BY <2>1, <2>2, <2>3, <2>4
  <1>4. QED
    BY <1>2, <1>3 DEF Sound

\* Sound states that show the same are the same: canonicalize leaves one order
\* only of the same objects.
LEMMA SameHeads ==
  ASSUME NEW a, NEW b, Sound(a), Sound(b), PictureIn(a) = PictureIn(b)
  PROVE  \A s \in Snakes : HeadIn(a, s) = HeadIn(b, s)
  <1> DEFINE HeadsOf(st) == [s \in Snakes |-> HeadIn(st, s)]
  <1>1. ASSUME NEW st, Sound(st) PROVE Ascends(HeadsOf(st), Snakes)
    <2>1. \A s \in Snakes : HeadsOf(st)[s] = HeadIn(st, s) /\ HeadIn(st, s) \in Nat
      BY <1>1, SoundCells
    <2>2. ASSUME NEW s \in Snakes, NEW t \in Snakes, s < t
          PROVE  HeadIn(st, s) <= HeadIn(st, t) /\ (HeadIn(st, s) = HeadIn(st, t) => HeadIn(st, s) = 0)
      <3>1. HeadIn(st, s) <= HeadIn(st, t)
        BY <1>1, <2>2 DEF Sound, InOrder
      <3>2. s # t /\ s \in Objects /\ t \in Objects
        BY <2>2, SetupAssumption DEF Snakes, Objects, LegalSetup
      <3>3. CellsIn(st, s) \intersect CellsIn(st, t) = {}
        BY <1>1, <3>2, SoundCells
      <3>4. HeadIn(st, s) # 0 => HeadIn(st, s) \in CellsIn(st, s)
        BY <1>1, SoundCells
      <3>5. HeadIn(st, t) # 0 => HeadIn(st, t) \in CellsIn(st, t)
        BY <1>1, SoundCells
      <3>6. QED
        BY <3>1, <3>3, <3>4, <3>5
    <2>3. QED
      BY <2>1, <2>2 DEF Ascends
  <1>2. Ascends(HeadsOf(a), Snakes) /\ Ascends(HeadsOf(b), Snakes)
    BY <1>1
  <1>3. ASSUME NEW x, NEW y, PictureIn(x) = PictureIn(y) PROVE Covers(HeadsOf(y), HeadsOf(x), Snakes)
    <2>1. {x.snakes[s] : s \in Snakes} = {y.snakes[s] : s \in Snakes}
      BY <1>3 DEF PictureIn
    <2>2. ASSUME NEW s \in Snakes PROVE \E t \in Snakes : HeadIn(y, t) = HeadIn(x, s)
      <3>1. PICK t \in Snakes : x.snakes[s] = y.snakes[t]
        BY <2>1
      <3>2. QED
        BY <3>1 DEF HeadIn
    <2>3. QED
      BY <2>2 DEF Covers
  <1>6. Below(Snakes, SnakeCount)
    BY SetupAssumption DEF Snakes, LegalSetup, Below
  <1>7. \A s \in Snakes : HeadsOf(a)[s] = HeadsOf(b)[s]
    <2> DEFINE fa == HeadsOf(a)
               fb == HeadsOf(b)
    <2>1. /\ Ascends(fa, Snakes) /\ Ascends(fb, Snakes)
          /\ Covers(fa, fb, Snakes) /\ Covers(fb, fa, Snakes)
      BY <1>2, <1>3
    <2> HIDE DEF fa, fb
    <2>2. \A s \in Snakes : fa[s] = fb[s]
      BY <1>6, <2>1, AscentsAgree
    <2>3. QED
      BY <2>2 DEF fa, fb
  <1>8. QED
    BY <1>7

LEMMA SameSnakes ==
  ASSUME NEW a, NEW b, Sound(a), Sound(b), PictureIn(a) = PictureIn(b)
  PROVE  a.snakes = b.snakes
  <1>1. \A s \in Snakes : HeadIn(a, s) = HeadIn(b, s)
    BY SameHeads
  <1>2. {a.snakes[s] : s \in Snakes} = {b.snakes[s] : s \in Snakes}
    BY DEF PictureIn
  <1>3. ASSUME NEW s \in Snakes PROVE a.snakes[s] = b.snakes[s]
    <2>1. PICK t \in Snakes : a.snakes[s] = b.snakes[t]
      BY <1>2
    <2>2. HeadIn(b, s) = HeadIn(b, t)
      BY <1>1, <2>1 DEF HeadIn
    <2>3. CASE HeadIn(b, s) = 0
      <3>1. b.snakes[s] = <<>>
        BY <2>3, SoundCells
      <3>2. a.snakes[s] = <<>>
        BY <1>1, <2>3, SoundCells
      <3>3. QED
        BY <3>1, <3>2
    <2>4. CASE HeadIn(b, s) # 0
      <3>1. b.snakes[s] # <<>> /\ b.snakes[t] # <<>>
        BY <2>2, <2>4, SoundCells
      <3>2. HeadIn(b, s) \in CellsIn(b, s) /\ HeadIn(b, s) \in CellsIn(b, t)
        BY <2>2, <3>1, SoundCells
      <3>3. s \in Objects /\ t \in Objects
        BY DEF Objects
      <3>4. s = t
        BY <3>2, <3>3, SoundCells
      <3>5. QED
        BY <2>1, <3>4
    <2>5. QED
      BY <2>3, <2>4
  <1>4. a.snakes = [s \in Snakes |-> a.snakes[s]] /\ b.snakes = [s \in Snakes |-> b.snakes[s]]
    BY DEF Sound
  <1>5. QED
    BY <1>3, <1>4

LEMMA SameGadgets ==
  ASSUME NEW a, NEW b, Sound(a), Sound(b), PictureIn(a) = PictureIn(b)
  PROVE  a.gadgets = b.gadgets
  <1> DEFINE Seen(st) == {{st.gadgets[g] + d : d \in Shape[g]}
                            : g \in {h \in Gadgets : st.gadgets[h] # kGadgetDeleted}}
             I(r) == {g \in Gadgets : ShapeRank[g] = r}
  <1>1. Seen(a) = Seen(b)
    BY DEF PictureIn
  <1>2. \A g \in Gadgets : Shape[g] \subseteq Nat /\ 0 \in Shape[g]
    BY ObjectsAssumption DEF LegalObjects
  <1>3. \A g, h \in Gadgets : Shape[g] = Shape[h] => ShapeRank[g] = ShapeRank[h]
    BY ObjectsAssumption DEF LegalObjects
  <1>4. ASSUME NEW x, NEW y, Sound(x), Sound(y), Seen(x) = Seen(y), NEW g \in Gadgets, x.gadgets[g] # 0
        PROVE  \E h \in I(ShapeRank[g]) : y.gadgets[h] = x.gadgets[g]
    <2>1. {x.gadgets[g] + d : d \in Shape[g]} \in Seen(y)
      <3>1. g \in {h \in Gadgets : x.gadgets[h] # kGadgetDeleted}
        BY <1>4 DEF kGadgetDeleted
      <3>2. {x.gadgets[g] + d : d \in Shape[g]} \in Seen(x)
        BY <3>1
      <3> HIDE DEF Seen
      <3>3. QED
        BY <1>4, <3>2
    <2>2. PICK h \in Gadgets : {x.gadgets[g] + d : d \in Shape[g]} = {y.gadgets[h] + d : d \in Shape[h]}
      BY <2>1
    <2>3. x.gadgets[g] \in Nat /\ y.gadgets[h] \in Nat
      BY <1>4, SoundCells
    <2>4. x.gadgets[g] = y.gadgets[h] /\ Shape[g] = Shape[h]
      BY <1>2, <2>2, <2>3, CellsTellGadget
    <2>5. QED
      BY <1>3, <2>4
  <1>5. ASSUME NEW st, Sound(st), NEW r PROVE Ascends(st.gadgets, I(r))
    <2>1. \A g \in I(r) : st.gadgets[g] \in Nat
      BY <1>5, SoundCells
    <2>2. ASSUME NEW g \in I(r), NEW h \in I(r), g < h
          PROVE  st.gadgets[g] <= st.gadgets[h] /\ (st.gadgets[g] = st.gadgets[h] => st.gadgets[g] = 0)
      <3>1. st.gadgets[g] <= st.gadgets[h]
        BY <1>5, <2>2 DEF Sound, InOrder
      <3>2. g \in Gadgets /\ h \in Gadgets /\ g \in Objects /\ h \in Objects
        BY DEF Objects
      <3>3. g # h
        BY <2>2, <3>2, SetupAssumption DEF Gadgets, ObjCount, LegalSetup
      <3>4. CellsIn(st, g) \intersect CellsIn(st, h) = {}
        BY <1>5, <3>2, <3>3, SoundCells
      <3>5. st.gadgets[g] # 0 => st.gadgets[g] \in CellsIn(st, g)
        BY <1>5, <3>2, SoundCells
      <3>6. st.gadgets[h] # 0 => st.gadgets[h] \in CellsIn(st, h)
        BY <1>5, <3>2, SoundCells
      <3>7. QED
        BY <3>1, <3>4, <3>5, <3>6
    <2>3. QED
      BY <2>1, <2>2 DEF Ascends
  <1>6. ASSUME NEW r, NEW g \in I(r) PROVE a.gadgets[g] = b.gadgets[g]
    <2>1. Below(I(r), ObjCount)
      BY SetupAssumption DEF Gadgets, ObjCount, LegalSetup, Below
    <2>3. ASSUME NEW x, NEW y, Sound(x), Sound(y), Seen(x) = Seen(y)
          PROVE  Covers(y.gadgets, x.gadgets, I(r))
      <3>1. ASSUME NEW h \in I(r), x.gadgets[h] # 0
            PROVE  \E k \in I(r) : y.gadgets[k] = x.gadgets[h]
        <4>1. h \in Gadgets /\ ShapeRank[h] = r
          OBVIOUS
        <4> HIDE DEF I, Seen
        <4>2. QED
          BY <1>4, <2>3, <3>1, <4>1
      <3> HIDE DEF I, Seen
      <3>2. QED
        BY <3>1 DEF Covers
    <2>4. Ascends(a.gadgets, I(r)) /\ Ascends(b.gadgets, I(r))
      BY <1>5
    <2> DEFINE fa == a.gadgets
               fb == b.gadgets
    <2> HIDE DEF I, Seen, fa, fb
    <2>5. \A h \in I(r) : fa[h] = fb[h]
      <3>1. Covers(fa, fb, I(r)) /\ Covers(fb, fa, I(r))
        BY <1>1, <2>3 DEF fa, fb
      <3>2. Ascends(fa, I(r)) /\ Ascends(fb, I(r))
        BY <2>4 DEF fa, fb
      <3> DEFINE J == I(r)
      <3> HIDE DEF J
      <3>3. /\ Below(J, ObjCount) /\ Ascends(fa, J) /\ Ascends(fb, J)
            /\ Covers(fa, fb, J) /\ Covers(fb, fa, J)
        BY <2>1, <3>1, <3>2 DEF J
      <3>4. \A h \in J : fa[h] = fb[h]
        BY <2>1, <3>3, AscentsAgree
      <3>5. QED
        BY <3>4 DEF J
    <2>6. g \in I(r)
      BY <1>6
    <2>7. QED
      BY <2>5, <2>6 DEF fa, fb
  <1>7. \A g \in Gadgets : a.gadgets[g] = b.gadgets[g]
    BY <1>6
  <1>8. a.gadgets = [g \in Gadgets |-> a.gadgets[g]] /\ b.gadgets = [g \in Gadgets |-> b.gadgets[g]]
    BY DEF Sound
  <1>9. QED
    BY <1>7, <1>8

LEMMA PictureTells ==
  ASSUME NEW a, NEW b, Sound(a), Sound(b), IsState(a), IsState(b), PictureIn(a) = PictureIn(b)
  PROVE  a = b
  <1>1. a.snakes = b.snakes /\ a.gadgets = b.gadgets
    BY SameSnakes, SameGadgets
  <1>2. a.fruit = b.fruit
    BY DEF PictureIn
  <1>3. a.tail_ = b.tail_
    <2>1. a.tail_ = [s \in Snakes |-> a.tail_[s]] /\ b.tail_ = [s \in Snakes |-> b.tail_[s]]
      BY DEF Sound
    <2>2. ASSUME NEW s \in Snakes PROVE a.tail_[s] = b.tail_[s]
      <3>1. Describes(a.tail_[s], a.snakes[s]) /\ Describes(b.tail_[s], a.snakes[s])
        BY <1>1 DEF Sound
      <3>2. Len(a.snakes[s]) \in Nat
        BY DEF Sound
      <3>3. QED
        BY <3>1, <3>2, OneTail
    <2>3. QED
      BY <2>1, <2>2
  <1>4. QED
    BY <1>1, <1>2, <1>3 DEF IsState

\* So are the keys that show the same.
LEMMA KeysTell ==
  ASSUME NEW k \in Keys, NEW m \in Keys, Picture(k) = Picture(m)
  PROVE  k = m
  <1>1. \A key : Picture(key) = PictureIn(StateOf(key))
    BY DEF Picture, PictureIn, StateOf
  <1>2. StateOf(k) = StateOf(m)
    <2>1. PictureIn(StateOf(k)) = PictureIn(StateOf(m))
      BY <1>1
    <2>2. /\ Sound(StateOf(k)) /\ IsState(StateOf(k)) /\ Sound(StateOf(m)) /\ IsState(StateOf(m))
      BY DEF Keys
    <2>3. QED
      BY <2>1, <2>2, PictureTells
  <1>3. KeyOf(StateOf(k)) = k /\ KeyOf(StateOf(m)) = m
    BY DEF Keys
  <1>4. QED
    BY <1>2, <1>3

LEMMA OnePictureEach ==
  ASSUME NEW S, S \subseteq Keys
  PROVE  IsFiniteSet(S) /\ Cardinality({Picture(k) : k \in S}) = Cardinality(S)
  <1>1. IsFiniteSet(S)
    BY KeysAreFinite, FS_Subset
  <1> DEFINE T == {Picture(k) : k \in S}
             f == [k \in S |-> Picture(k)]
  <1>2. f \in Bijection(S, T)
    <2>1. f \in [S -> T]
      OBVIOUS
    <2>2. ASSUME NEW k \in S, NEW m \in S, f[k] = f[m] PROVE k = m
      <3>1. Picture(k) = Picture(m)
        BY <2>2
      <3>2. QED
        BY <3>1, KeysTell
    <2>3. \A t \in T : \E k \in S : f[k] = t
      OBVIOUS
    <2> HIDE DEF f, T
    <2>4. f \in Injection(S, T)
      BY <2>1, <2>2 DEF Injection, IsInjective
    <2>5. f \in Surjection(S, T)
      BY <2>1, <2>3 DEF Surjection
    <2>6. QED
      BY <2>4, <2>5 DEF Bijection
  <1>3. ExistsBijection(S, T)
    BY <1>2 DEF ExistsBijection
  <1>4. QED
    BY <1>1, <1>3, FS_Bijection, FS_CountingElements

-----------------------------------------------------------------------------
(***************************************************************************)
(* canonicalize keeps the order.                                           *)
(***************************************************************************)
\* canonicalize puts the objects in order.
LEMMA SettleOrders == Inv /\ Settle => InOrder(Current)'
  <1> SUFFICES ASSUME Inv, Settle PROVE InOrder(Current)'
    OBVIOUS
  <1>0. Current'.snakes = snakes' /\ Current'.gadgets = gadgets'
    BY DEF Current
  <1>1. PICK p \in [Snakes -> Snakes] :
          SortsSnakes(p) /\ snakes' = [s \in Snakes |-> snakes[p[s]]]
    BY DEF Settle
  <1>2. PICK q \in [Gadgets -> Gadgets] :
          SortsGadgets(q) /\ gadgets' = [g \in Gadgets |-> gadgets[q[g]]]
    BY DEF Settle
  <1>3. ASSUME NEW s \in Snakes, NEW t \in Snakes, s < t
        PROVE  HeadIn(Current', s) <= HeadIn(Current', t)
    <2>1. HeadIn(Current', s) = HeadCell(p[s]) /\ HeadIn(Current', t) = HeadCell(p[t])
      BY <1>0, <1>1 DEF HeadIn, HeadCell
    <2>2. \A a \in Snakes : HeadCell(a) \in Nat
      <3> TAKE a \in Snakes
      <3>1. snakes[a] # <<>> => snakes[a][1] \in Coord
        <4>1. snakes[a] \in Seq(Coord)
          BY DEF Inv, TypeOK
        <4>2. QED
          BY <4>1, EmptySeq, LenProperties
      <3>2. QED
        BY <3>1, MapSizeType DEF HeadCell, Coord
    <2>3. ~(HeadCell(p[t]) < HeadCell(p[s]))
      BY <1>1, <1>3 DEF SortsSnakes, SnakeBefore
    <2>4. QED
      BY <2>1, <2>2, <2>3
  <1>4. ASSUME NEW g \in Gadgets, NEW h \in Gadgets, g < h, ShapeRank[g] = ShapeRank[h]
        PROVE  gadgets'[g] <= gadgets'[h]
    <2>1. Shape[q[g]] = Shape[g] /\ Shape[q[h]] = Shape[h]
      BY <1>2, SortKeepsShape
    <2>2. ShapeRank[q[g]] = ShapeRank[g] /\ ShapeRank[q[h]] = ShapeRank[h]
      BY <2>1, ObjectsAssumption DEF LegalObjects
    <2>3. ~(gadgets[q[h]] < gadgets[q[g]])
      BY <1>2, <1>4, <2>2 DEF SortsGadgets, GadgetBefore
    <2>4. gadgets[q[g]] \in Nat /\ gadgets[q[h]] \in Nat
      BY MapSizeType DEF Inv, TypeOK, Coord
    <2>5. QED
      BY <1>2, <2>3, <2>4
  <1>5. QED
    BY <1>0, <1>3, <1>4 DEF InOrder

LEMMA InvIsIInv == Inv => IInv
  BY DEF Inv, InTheOpen, IInv, InOpenTerrain

LEMMA OrderKept == IInv /\ NextPacking /\ phase' = "moves" => InOrder(Current)'
  <1> SUFFICES ASSUME IInv, NextPacking, phase' = "moves" PROVE Settle
    <2>1. Settle => phase # "lost"
      BY DEF Settle
    <2>2. QED
      BY <2>1, IInvIsInv, SettleOrders
  <1>1. \A s \in Snakes, dir \in Direction : ~MoveIn(s, dir)
    BY DEF MoveIn, Grow, Move, Push, StartPhysics
  <1>2. ~PackingExits
    BY DEF PackingExits, CheckExits
  <1>3. ~PackingRound
    BY DEF PackingRound, Teleport, NoTeleport, TeleportOffMap, Fall, Perish
  <1>4. QED
    BY <1>1, <1>2, <1>3 DEF NextPacking, PhysicsStep, PackingSettle

-----------------------------------------------------------------------------
(***************************************************************************)
(* The inductive invariant.                                                *)
(***************************************************************************)
FirstOf(pairs) == {x[1] : x \in pairs}

\* The state that is unpacked.
StateInv ==
  /\ IInv /\ SnakeInv /\ TailInv /\ GravityInv
  /\ phase = "moves" => InOrder(Current)

\* The call of do_valid_moves that is under way.
CallInv ==
  /\ visited \in Keys \union {None}
  /\ visited = None => ~moved
  /\ moved \in BOOLEAN /\ tried \in Nat
  /\ ~moved => phase = "moves"

\* What the search has is keys.
RunsInv ==
  /\ keys_by_depth \in Seq(SUBSET Keys) /\ Len(keys_by_depth) > 0
  /\ all_keys \subseteq Keys /\ todo \subseteq Keys
  /\ FirstOf(new_states) \subseteq Keys /\ FirstOf(new_pairs) \subseteq Keys
  /\ pc \in {"trace", "parents"} => depth \in 0 .. Len(keys_by_depth)
  /\ pc = "parents" => depth # 0

SolverInv == StateInv /\ CallInv /\ RunsInv

LEMMA KeyFacts ==
  /\ \A k \in Keys : k \in Nat /\ Sound(StateOf(k))
  /\ None \notin Keys
  <1>1. ByteBits * P!Bytes \in Nat
    BY WidthFacts, PackedBitsType
  <1>2. 2 ^ (ByteBits * P!Bytes) \in Nat
    BY <1>1, PowerFacts
  <1>3. KeyRange \subseteq Nat
    BY <1>2 DEF KeyRange
  <1>4. QED
    BY <1>3 DEF Keys, None

\* A state that is loaded is one to move from.
LEMMA LoadStateInv ==
  ASSUME NEW k \in Keys, Load(k)
  PROVE  StateInv' /\ phase' = "moves"
  <1> DEFINE st == StateOf(k)
  <1>1. /\ snakes' = st.snakes /\ tail_' = st.tail_ /\ fruit' = st.fruit /\ gadgets' = st.gadgets
        /\ phase' = "moves" /\ orig_tele_mask' = {} /\ recompute_falling' = {}
    BY DEF Load, StateOf
  <1>2. Sound(st) /\ st = [snakes |-> st.snakes, tail_ |-> st.tail_, fruit |-> st.fruit, gadgets |-> st.gadgets]
    BY DEF Keys, IsState
  <1> HIDE DEF st
  <1>3. Current' = st
    BY <1>1, <1>2 DEF Current
  <1>4. Sound(Current)' /\ Between'
    BY <1>1, <1>2, <1>3 DEF Between
  <1>5. (Inv /\ SnakeInv /\ TailInv)'
    BY <1>4, SoundIsInvNext
  <1>6. InOrder(Current)'
    BY <1>2, <1>3 DEF Sound
  <1>7. GravityInv'
    BY <1>1 DEF GravityInv
  <1>8. IInv'
    BY <1>5 DEF Inv, InTheOpen, IInv, InOpenTerrain
  <1>9. QED
    BY <1>1, <1>5, <1>6, <1>7, <1>8 DEF StateInv

\* A step of the rules.
LEMMA RulesStateInv == StateInv /\ [NextPacking]_packing_vars => StateInv'
  <1> SUFFICES ASSUME StateInv, [NextPacking]_packing_vars PROVE StateInv'
    OBVIOUS
  <1>1. IInv /\ SnakeInv /\ TailInv /\ GravityInv
    BY DEF StateInv
  <1>2. [Next]_vars
    <2>1. ASSUME NEW s \in Snakes, NEW dir \in Direction, MoveIn(s, dir)
          PROVE  Next
      BY <2>1 DEF MoveIn, Next, PlayerMove, Steps
    <2>2. PhysicsStep => Next
      BY DEF PhysicsStep, PackingExits, PackingRound, PackingSettle, Next, Physics
    <2>3. UNCHANGED packing_vars => UNCHANGED vars
      BY DEF packing_vars
    <2>4. QED
      BY <2>1, <2>2, <2>3 DEF NextPacking
  <1>3. IInv' /\ SnakeInv' /\ TailInv' /\ GravityInv'
    BY <1>1, <1>2, IInvNext, SnakeInvNext, TailInvNext, GravityInvNext
  <1>4. ASSUME phase' = "moves" PROVE InOrder(Current)'
    <2>1. CASE NextPacking
      BY <1>1, <1>4, <2>1, OrderKept
    <2>2. CASE UNCHANGED packing_vars
      <3>1. Current' = Current /\ phase' = phase
        BY <2>2 DEF packing_vars, vars, Current
      <3>2. InOrder(Current)
        BY <1>4, <3>1 DEF StateInv
      <3>3. QED
        BY <3>1, <3>2
    <2>3. QED
      BY <2>1, <2>2
  <1>5. QED
    BY <1>3, <1>4 DEF StateInv

-----------------------------------------------------------------------------
(***************************************************************************)
(* Every step of the program keeps it.                                     *)
(***************************************************************************)
\* The next move to look at is one of a snake, in a direction.
LEMMA NextMoveFacts ==
  ASSUME tried \in Nat, MovesLeft # {}
  PROVE  /\ Min(MovesLeft) \in Nat
         /\ Mover(Min(MovesLeft)) \in Snakes /\ Heading(Min(MovesLeft)) \in Direction
  <1> DEFINE n == Min(MovesLeft)
  <1>1. SnakeCount \in Nat \ {0} /\ MoveCount = 4 * SnakeCount
    BY SetupAssumption DEF LegalSetup, MoveCount
  <1>2. n \in MovesLeft
    <2> DEFINE M == MovesLeft
    <2>1. M \subseteq Nat /\ M # {}
      BY DEF MovesLeft
    <2> HIDE DEF M
    <2>2. \E x \in M : \A y \in M : x <= y
      BY <2>1, LeastNatural
    <2>3. Min(M) \in M
      BY <2>2 DEF Min
    <2>4. QED
      BY <2>3 DEF M
  <1>3. n \in Nat /\ n < 4 * SnakeCount
    BY <1>1, <1>2 DEF MovesLeft
  <1> HIDE DEF n
  <1>4. Mover(n) \in Snakes
    <2>1. n \div 4 \in Nat /\ 4 * (n \div 4) <= n
      BY <1>3
    <2>2. n \div 4 < SnakeCount
      BY <1>1, <1>3, <2>1
    <2>3. QED
      BY <1>1, <2>1, <2>2 DEF Mover, Snakes
  <1>5. Heading(n) \in Direction
    <2>1. n % 4 \in {0, 1, 2, 3}
      BY <1>3
    <2>2. QED
      BY <2>1 DEF Heading, dirs, Direction
  <1>6. QED
    BY <1>3, <1>4, <1>5 DEF n

LEMMA StillRuns == RunsInv /\ UNCHANGED search_vars => RunsInv'
  BY DEF RunsInv, search_vars, FirstOf

LEMMA InitSolverInv == InitSolver /\ InOrder(Current) => SolverInv
  <1> SUFFICES ASSUME InitSolver, InOrder(Current) PROVE SolverInv
    OBVIOUS
  <1>1. Inv /\ SnakeInv /\ TailInv
    BY InitInv, SnakeInvInit, TailInvInit DEF InitSolver, InitPacking
  <1>2. StateInv
    <2>1. GravityInv
      BY DEF InitSolver, InitPacking, Init, GravityInv
    <2>2. QED
      BY <1>1, <2>1, InvIsIInv DEF StateInv
  <1>3. PackedKey \in Keys
    BY <1>1, PackedKeyIsKey
  <1>4. CallInv
    BY DEF InitSolver, InitPacking, Init, CallInv
  <1>5. RunsInv
    <2> DEFINE key == PackedKey
    <2>1. /\ keys_by_depth = << {key} >> /\ all_keys = {key} /\ todo = {}
          /\ new_states = {} /\ new_pairs = {} /\ pc = "iterate"
      BY DEF InitSolver
    <2>2. key \in Keys
      BY <1>3
    <2> HIDE DEF key
    <2>3. {key} \in SUBSET Keys
      BY <2>2
    <2>4. keys_by_depth \in Seq(SUBSET Keys) /\ Len(keys_by_depth) > 0
      BY <2>1, <2>3
    <2>5. QED
      BY <2>1, <2>2, <2>4 DEF RunsInv, FirstOf
  <1>6. QED
    BY <1>2, <1>4, <1>5 DEF SolverInv

LEMMA TryMoveInv == SolverInv /\ TryMove => SolverInv'
  <1> SUFFICES ASSUME SolverInv, TryMove PROVE SolverInv'
    OBVIOUS
  <1> DEFINE n == Min(MovesLeft)
  <1>1. /\ visited # None /\ MovesLeft # {} /\ MoveIn(Mover(n), Heading(n)) /\ tried' = n + 1
        /\ moved' = TRUE /\ visited' = visited /\ UNCHANGED search_vars
    BY DEF TryMove
  <1>2. n \in Nat /\ Mover(n) \in Snakes /\ Heading(n) \in Direction
    BY <1>1, NextMoveFacts DEF SolverInv, CallInv
  <1> HIDE DEF n
  <1>3. StateInv'
    BY <1>1, <1>2, RulesStateInv DEF SolverInv, NextPacking
  <1>4. CallInv'
    BY <1>1, <1>2 DEF SolverInv, CallInv
  <1>5. RunsInv'
    BY <1>1, StillRuns DEF SolverInv
  <1>6. QED
    BY <1>3, <1>4, <1>5 DEF SolverInv

LEMMA RunPhysicsInv == SolverInv /\ RunPhysics => SolverInv'
  <1> SUFFICES ASSUME SolverInv, RunPhysics PROVE SolverInv'
    OBVIOUS
  <1>1. phase # "moves" /\ PhysicsStep /\ UNCHANGED call /\ UNCHANGED search_vars
    BY DEF RunPhysics
  <1>2. StateInv'
    BY <1>1, RulesStateInv DEF SolverInv, NextPacking
  <1>3. CallInv'
    BY <1>1 DEF SolverInv, CallInv, call
  <1>4. RunsInv'
    BY <1>1, StillRuns DEF SolverInv
  <1>5. QED
    BY <1>2, <1>3, <1>4 DEF SolverInv

\* A state is loaded and the search goes on as it was.
LEMMA BackInv ==
  ASSUME CallInv, visited # None, GoOn \/ Return
  PROVE  StateInv' /\ CallInv'
  <1>1. /\ Load(visited) /\ moved' = FALSE /\ visited' = visited
        /\ tried' = tried \/ tried' = MoveCount
    BY DEF GoOn, Return
  <1>2. visited \in Keys /\ MoveCount \in Nat
    BY SetupAssumption DEF CallInv, MoveCount, LegalSetup
  <1>3. StateInv' /\ phase' = "moves"
    BY <1>1, <1>2, LoadStateInv
  <1>4. QED
    BY <1>1, <1>2, <1>3 DEF CallInv

LEMMA DropLostInv == SolverInv /\ DropLost => SolverInv'
  <1> SUFFICES ASSUME SolverInv, DropLost PROVE SolverInv'
    OBVIOUS
  <1>1. visited # None
    BY DEF DropLost, SolverInv, CallInv
  <1>2. QED
    BY <1>1, BackInv, StillRuns DEF DropLost, SolverInv

LEMMA CalledInv ==
  ASSUME NEW k \in Keys, Call(k)
  PROVE  StateInv' /\ CallInv'
  <1>1. StateInv' /\ phase' = "moves"
    BY LoadStateInv DEF Call
  <1>2. QED
    BY <1>1 DEF Call, CallInv

LEMMA VisitInv == SolverInv /\ (Visit \/ TryParent) => SolverInv'
  <1> SUFFICES ASSUME SolverInv, Visit \/ TryParent PROVE SolverInv'
    OBVIOUS
  <1>1. PICK k \in todo : Call(k) /\ todo' = todo \ {k}
    BY DEF Visit, TryParent
  <1>2. /\ UNCHANGED <<keys_by_depth, all_keys, new_states, new_pairs, pc, depth>>
        /\ k \in Keys
    BY DEF Visit, TryParent, SolverInv, RunsInv
  <1>3. RunsInv'
    BY <1>1, <1>2 DEF SolverInv, RunsInv, FirstOf
  <1>4. QED
    BY <1>1, <1>2, <1>3, CalledInv DEF SolverInv

LEMMA CollectInv == SolverInv /\ Collect => SolverInv'
  <1> SUFFICES ASSUME SolverInv, Collect PROVE SolverInv'
    OBVIOUS
  <1> DEFINE key == PackedKey
  <1>1. /\ moved /\ phase = "moves" /\ (GoOn \/ Return)
        /\ new_states' = new_states \union {<<key, Hash[visited]>>}
        /\ UNCHANGED <<keys_by_depth, all_keys, new_pairs, todo, pc, depth>>
    BY DEF Collect, InCallback
  <1>2. key \in Keys
    BY <1>1, IInvIsInv, PackedKeyIsKey DEF SolverInv, StateInv
  <1>3. StateInv' /\ CallInv'
    BY <1>1, BackInv DEF SolverInv, CallInv
  <1> HIDE DEF key
  <1>4. FirstOf(new_states)' \subseteq Keys
    BY <1>1, <1>2 DEF SolverInv, RunsInv, FirstOf
  <1>5. RunsInv'
    BY <1>1, <1>4 DEF SolverInv, RunsInv, FirstOf
  <1>6. QED
    BY <1>3, <1>5 DEF SolverInv

\* A run has no keys but those of the pairs it is made of.
LEMMA PackedPairs ==
  ASSUME NEW pairs, FirstOf(pairs) \subseteq Keys, NEW run \in Search!Packings(pairs)
  PROVE  DOMAIN run \subseteq Keys /\ FirstOf(Search!PairsOf(run)) \subseteq Keys
  <1>1. DOMAIN run \subseteq FirstOf(pairs)
    BY DEF Search!Packings, Search!KeysOf, FirstOf
  <1>2. FirstOf(Search!PairsOf(run)) \subseteq DOMAIN run
    BY DEF Search!PairsOf, FirstOf
  <1>3. QED
    BY <1>1, <1>2

LEMMA VisitedInv == SolverInv /\ Visited => SolverInv'
  <1> SUFFICES ASSUME SolverInv, Visited PROVE SolverInv'
    OBVIOUS
  <1>1. /\ ~moved /\ visited' = None /\ UNCHANGED <<packing_vars, tried, moved>>
        /\ UNCHANGED <<keys_by_depth, all_keys, todo, pc, depth>>
        /\ Search!Collect(new_states)
    BY DEF Visited, Done
  <1>2. StateInv'
    BY <1>1, RulesStateInv DEF SolverInv
  <1>3. CallInv'
    BY <1>1 DEF SolverInv, CallInv, packing_vars, vars
  <1>4. FirstOf(new_states) \subseteq Keys /\ FirstOf(new_pairs) \subseteq Keys
    BY DEF SolverInv, RunsInv
  <1>5. FirstOf(new_states') \subseteq Keys /\ FirstOf(new_pairs') \subseteq Keys
    <2>1. CASE new_states' = new_states /\ new_pairs' = new_pairs
      BY <1>4, <2>1
    <2>2. CASE /\ \E run \in Search!Packings(new_states) :
                    new_pairs' = new_pairs \union Search!PairsOf(run)
               /\ new_states' = {}
      <3>1. PICK run \in Search!Packings(new_states) :
              new_pairs' = new_pairs \union Search!PairsOf(run)
        BY <2>2
      <3>2. FirstOf(Search!PairsOf(run)) \subseteq Keys
        BY <1>4, PackedPairs
      <3>3. QED
        BY <1>4, <2>2, <3>1, <3>2 DEF FirstOf
    <2>3. QED
      BY <1>1, <2>1, <2>2 DEF Search!Collect
  <1>6. RunsInv'
    BY <1>1, <1>5 DEF SolverInv, RunsInv, FirstOf
  <1>7. QED
    BY <1>2, <1>3, <1>6 DEF SolverInv

\* search and dedup touch nothing but the runs.
LEMMA SearchStepInv == SolverInv /\ SearchStep => SolverInv'
  <1> SUFFICES ASSUME SolverInv, SearchStep PROVE SolverInv'
    OBVIOUS
  <1>1. StateInv' /\ CallInv'
    <2>1. UNCHANGED packing_vars /\ UNCHANGED call
      BY DEF SearchStep
    <2>2. CallInv'
      BY <2>1 DEF SolverInv, CallInv, call, packing_vars, vars
    <2>3. QED
      BY <2>1, <2>2, RulesStateInv DEF SolverInv
  <1>2. /\ keys_by_depth \in Seq(SUBSET Keys) /\ Len(keys_by_depth) > 0
        /\ all_keys \subseteq Keys /\ todo \subseteq Keys
        /\ FirstOf(new_states) \subseteq Keys /\ FirstOf(new_pairs) \subseteq Keys
    BY DEF SolverInv, RunsInv
  <1>3. Len(keys_by_depth) \in Nat \ {0} /\ keys_by_depth[Len(keys_by_depth)] \in SUBSET Keys
    BY <1>2, LenProperties
  <1>4. CASE Search!StartIteration
    <2>1. /\ todo' = keys_by_depth[Len(keys_by_depth)] /\ new_states' = {} /\ new_pairs' = {}
          /\ pc' = "visit" /\ keys_by_depth' = keys_by_depth /\ all_keys' = all_keys
      BY <1>4 DEF Search!StartIteration, Search!LastRun, Search!data
    <2>2. RunsInv'
      BY <1>2, <1>3, <2>1 DEF RunsInv, FirstOf
    <2>3. QED
      BY <1>1, <2>2 DEF SolverInv
  <1>5. CASE Search!GiveUp \/ Search!TraceEnd
    <2>1. /\ UNCHANGED <<keys_by_depth, all_keys, todo, new_states, new_pairs>> /\ pc' = "done"
      BY <1>5 DEF Search!GiveUp, Search!TraceEnd, Search!data, Search!visiting
    <2>2. RunsInv'
      BY <1>2, <2>1 DEF RunsInv, FirstOf
    <2>3. QED
      BY <1>1, <2>2 DEF SolverInv
  <1>6. CASE Search!EndVisit
    <2>1. PICK run \in Search!Packings(new_states) :
            new_pairs' = new_pairs \union Search!PairsOf(run)
      BY <1>6 DEF Search!EndVisit
    <2>2. /\ new_states' = {} /\ pc' = "dedup"
          /\ keys_by_depth' = keys_by_depth /\ all_keys' = all_keys /\ todo' = todo
      BY <1>6 DEF Search!EndVisit, Search!data
    <2>3. FirstOf(Search!PairsOf(run)) \subseteq Keys
      BY <1>2, PackedPairs
    <2>4. FirstOf(new_pairs') \subseteq Keys /\ FirstOf(new_states') \subseteq Keys
      BY <1>2, <2>1, <2>2, <2>3 DEF FirstOf
    <2>5. RunsInv'
      BY <1>2, <2>2, <2>4 DEF RunsInv, FirstOf
    <2>6. QED
      BY <1>1, <2>5 DEF SolverInv
  <1>7. CASE Search!Dedup
    <2>1. PICK run \in Search!Packings(new_pairs) :
            /\ keys_by_depth' = Append(keys_by_depth, Search!Fresh(run))
            /\ all_keys' = all_keys \union Search!Fresh(run)
      BY <1>7 DEF Search!Dedup
    <2>2. /\ UNCHANGED <<todo, new_states, new_pairs>>
          /\ (pc' = "trace" /\ depth' = Len(keys_by_depth)) \/ pc' = "iterate"
      BY <1>7 DEF Search!Dedup, Search!visiting
    <2>3. Search!Fresh(run) \in SUBSET Keys
      BY <1>2, PackedPairs DEF Search!Fresh
    <2> DEFINE new == Search!Fresh(run)
    <2> HIDE DEF new
    <2>4. new \in SUBSET Keys /\ keys_by_depth' = Append(keys_by_depth, new)
          /\ all_keys' = all_keys \union new
      BY <2>1, <2>3 DEF new
    <2>5. keys_by_depth' \in Seq(SUBSET Keys) /\ Len(keys_by_depth') = Len(keys_by_depth) + 1
      BY <1>2, <2>4
    <2>6. RunsInv'
      BY <1>2, <1>3, <2>2, <2>4, <2>5 DEF RunsInv, FirstOf
    <2>7. QED
      BY <1>1, <2>6 DEF SolverInv
  <1>8. QED
    BY <1>4, <1>5, <1>6, <1>7 DEF SearchStep

LEMMA TraceDepthInv == SolverInv /\ TraceDepth => SolverInv'
  <1> SUFFICES ASSUME SolverInv, TraceDepth PROVE SolverInv'
    OBVIOUS
  <1>1. /\ pc = "trace" /\ depth > 0 /\ pc' = "parents"
        /\ todo' = {k \in keys_by_depth[depth] : Hash[k] = target[2]}
        /\ UNCHANGED <<keys_by_depth, all_keys, new_states, new_pairs, depth>>
        /\ UNCHANGED packing_vars /\ UNCHANGED call
    BY DEF TraceDepth
  <1>2. StateInv' /\ CallInv'
    <2>1. CallInv'
      BY <1>1 DEF SolverInv, CallInv, call, packing_vars, vars
    <2>2. QED
      BY <1>1, <2>1, RulesStateInv DEF SolverInv
  <1>3. /\ keys_by_depth \in Seq(SUBSET Keys)
        /\ depth \in 0 .. Len(keys_by_depth) /\ depth # 0
    BY <1>1 DEF SolverInv, RunsInv
  <1>4. keys_by_depth[depth] \in SUBSET Keys
    BY <1>3, LenProperties
  <1>5. todo' \subseteq Keys
    BY <1>1, <1>4
  <1>6. RunsInv'
    BY <1>1, <1>3, <1>5 DEF SolverInv, RunsInv, FirstOf
  <1>7. QED
    BY <1>2, <1>6 DEF SolverInv

LEMMA FoundParentInv == SolverInv /\ FoundParent => SolverInv'
  <1> SUFFICES ASSUME SolverInv, FoundParent PROVE SolverInv'
    OBVIOUS
  <1>1. /\ pc = "parents" /\ moved /\ depth' = depth - 1 /\ pc' = "trace"
        /\ Load(visited) /\ visited' = None /\ moved' = FALSE /\ tried' = tried
        /\ UNCHANGED <<keys_by_depth, all_keys, new_states, new_pairs, todo>>
    BY DEF FoundParent, InCallback
  <1>2. visited \in Keys
    BY <1>1 DEF SolverInv, CallInv
  <1>3. StateInv' /\ phase' = "moves"
    BY <1>1, <1>2, LoadStateInv
  <1>4. CallInv'
    BY <1>1, <1>3 DEF SolverInv, CallInv
  <1>5. RunsInv'
    <2>1. Len(keys_by_depth) \in Nat
      BY DEF SolverInv, RunsInv
    <2>2. depth - 1 \in 0 .. Len(keys_by_depth)
      BY <1>1, <2>1 DEF SolverInv, RunsInv
    <2>3. QED
      BY <1>1, <2>2 DEF SolverInv, RunsInv, FirstOf
  <1>6. QED
    BY <1>3, <1>4, <1>5 DEF SolverInv

LEMMA NotTheTargetInv == SolverInv /\ NotTheTarget => SolverInv'
  <1> SUFFICES ASSUME SolverInv, NotTheTarget PROVE SolverInv'
    OBVIOUS
  <1>1. moved /\ GoOn /\ UNCHANGED search_vars
    BY DEF NotTheTarget, InCallback
  <1>2. QED
    BY <1>1, BackInv, StillRuns DEF SolverInv, CallInv

LEMMA NotAParentInv == SolverInv /\ NotAParent => SolverInv'
  <1> SUFFICES ASSUME SolverInv, NotAParent PROVE SolverInv'
    OBVIOUS
  <1>1. /\ ~moved /\ visited' = None /\ tried' = tried /\ moved' = moved
        /\ UNCHANGED packing_vars /\ UNCHANGED search_vars
    BY DEF NotAParent, Done
  <1>2. CallInv'
    BY <1>1 DEF SolverInv, CallInv, packing_vars, vars
  <1>3. QED
    BY <1>1, <1>2, RulesStateInv, StillRuns DEF SolverInv

LEMMA SolverInvNext == SolverInv /\ [NextSolver]_all_vars => SolverInv'
  <1>1. ASSUME SolverInv, UNCHANGED all_vars PROVE SolverInv'
    <2>1. UNCHANGED packing_vars /\ UNCHANGED search_vars /\ UNCHANGED call
      BY <1>1 DEF all_vars
    <2>2. CallInv'
      BY <1>1, <2>1 DEF SolverInv, CallInv, call, packing_vars, vars
    <2>3. QED
      BY <1>1, <2>1, <2>2, RulesStateInv, StillRuns DEF SolverInv
  <1>2. QED
    BY <1>1, TryMoveInv, RunPhysicsInv, DropLostInv, VisitInv, CollectInv, VisitedInv, SearchStepInv,
       TraceDepthInv, FoundParentInv, NotTheTargetInv, NotAParentInv DEF NextSolver, Finished

LEMMA SolverInvariance == SolverSpec /\ InOrder(Current) => []SolverInv
  BY InitSolverInv, SolverInvNext, PTL DEF SolverSpec

\* Two states that the search has kept never show the same picture, in any
\* level and however the moves, falls, teleports and reloads lead from one to
\* the other: canonicalize leaves one order of the same objects, and packing
\* one key for it.  The snakes and the gadgets of the same shape have to be in
\* order at the start, which the search packs as Map's constructor leaves it
\* (State(const Map&), do_valid_moves, canonicalize, PackedState).
THEOREM PicturesHaveOneKey == SolverSpec /\ InOrder(Current) => []OneKeyForEachPicture
  <1>1. SolverInv => OneKeyForEachPicture
    BY OnePictureEach DEF SolverInv, RunsInv, OneKeyForEachPicture
  <1>2. QED
    BY <1>1, SolverInvariance, PTL

\* The state that do_valid_moves works on keeps the rules of module Snakebird
\* although the search leaves it half way and unpacks another: what is proved
\* of a game that is played through holds of every state the search looks at.
THEOREM LoadedStatesKeepTheRules ==
  SolverSpec /\ InOrder(Current) =>
    [](NoOverlap /\ InOpenTerrain /\ SnakesConnected /\ SnakesFitTheirArrays
       /\ RecomputeIsEnough /\ TailMatchesBody /\ PackedLosesNothing)
  <1>1. SolverInv => NoOverlap /\ InOpenTerrain /\ SnakesConnected /\ SnakesFitTheirArrays
    BY DEF SolverInv, StateInv, IInv, SnakeInv
  <1>2. SolverInv => TailMatchesBody /\ PackedLosesNothing
    BY IInvIsInv, TailInvMatches, UnpacksState DEF SolverInv, StateInv, PackedLosesNothing
  <1>3. SolverInv => RecomputeIsEnough
    BY HeldIsEnough DEF SolverInv, StateInv, IInv, TypeOK, GravityInv, RecomputeIsEnough
  <1>4. QED
    BY <1>1, <1>2, <1>3, SolverInvariance, PTL

=============================================================================
