-------------------------- MODULE DeltaCodecProofs --------------------------
(***************************************************************************)
(* What a run gives back: proofs of the invariants of module DeltaCodec.   *)
(*                                                                         *)
(* An integer is read as it was written; a mask of octets says which they  *)
(* are; and the octets that differ, put in their places, make a record of  *)
(* the one before.  So a record is read wherever it has been written and   *)
(* the one before is known.  The invariant then says where: how the output *)
(* is divided into blocks, which of the records each of them holds, and    *)
(* that the reader is at the beginning of the first it has not yet read.   *)
(***************************************************************************)
EXTENDS DeltaCodec, Induction, SequenceTheorems

(***************************************************************************)
(* Integers with stop bits.                                                *)
(***************************************************************************)
\* What an octet that is not the last counts up to.
T == TopBit

\* Products of it, as the bounds of the code are written.
LEMMA TopBitFacts ==
  /\ T \in Nat /\ T >= 2 /\ T # 0
  /\ T * T \in Nat /\ T * T # 0 /\ T * T >= T
  /\ (T * T) * T \in Nat
  /\ 2 * T * T = T * (2 * T) /\ 2 * T * T * T = T * (T * (2 * T))
  /\ 2 * T * T * T = (T * T) * (2 * T)
  /\ T * (2 * T) \in Nat
<1> DEFINE t == TopBit
<1>1. t \in Nat /\ t >= 2
  BY VarIntAssumption
<1> HIDE DEF t
<1>2. t * t \in Nat /\ t * t # 0 /\ t * t >= t
  <2>1. t * t >= t * 1
    BY <1>1
  <2>2. t * t \in Nat /\ t * 1 = t
    BY <1>1
  <2> QED
    BY <1>1, <2>1, <2>2
<1>3. (t * t) * t \in Nat
  BY <1>1, <1>2
<1>4. 2 * t * t = t * (2 * t) /\ 2 * t * t * t = t * (t * (2 * t)) /\ 2 * t * t * t = (t * t) * (2 * t) /\ t * (2 * t) \in Nat
  BY <1>1
<1> QED
  BY <1>1, <1>2, <1>3, <1>4 DEF t, T

\* e stands in s at position p.
At(s, p, e) ==
  /\ p \in Nat \ {0} /\ p + Len(e) <= Len(s) + 1
  /\ \A j \in 1 .. Len(e) : s[p + j - 1] = e[j]

\* Dividing twice by T takes an encodable integer apart.
LEMMA TwoGroups ==
  ASSUME NEW v \in Nat
  PROVE  /\ v % T \in 0 .. T - 1 /\ v \div T \in Nat
         /\ (v % T) + T * (v \div T) = v
         /\ ((v % T) + T) % T = v % T
         /\ v < T * T => v \div T \in 0 .. T - 1
         /\ v < 2 * T * T => v \div T \in 0 .. 2 * T - 1
<1>1. T \in Nat \ {0}
  BY TopBitFacts
<1>2. v % T \in 0 .. T - 1 /\ v \div T \in Nat /\ (v % T) + T * (v \div T) = v
  <2> HIDE DEF T
  <2>1. /\ v \div T \in Nat /\ v % T \in 0 .. T - 1 /\ v = T * (v \div T) + (v % T)
    BY <1>1, DivisionFacts
  <2>2. T * (v \div T) \in Nat
    BY <1>1, <2>1
  <2> QED
    BY <2>1, <2>2
<1> DEFINE r == v % T
<1>3. (r + T) % T = r
  <2>1. r \in 0 .. T - 1
    BY <1>2
  <2> HIDE DEF r, T
  <2>2. r + T = T * 1 + r /\ r + T \in Int
    BY <1>1, <2>1
  <2> QED
    BY <1>1, <2>1, <2>2, DivisionFound
<1>4. v < T * T => v \div T \in 0 .. T - 1
  <2> HIDE DEF T
  <2> QED
    BY <1>1, QuotientBelow
<1>5. v < 2 * T * T => v \div T \in 0 .. 2 * T - 1
  <2>1. 2 * T * T = T * (2 * T)
    BY TopBitFacts
  <2> DEFINE c == 2 * T
  <2> HIDE DEF T
  <2>2. c \in Nat
    BY <1>1
  <2> HIDE DEF c
  <2>3. v < T * c => v \div T \in 0 .. c - 1
    BY <1>1, <2>2, QuotientBelow
  <2> QED
    BY <2>1, <2>3 DEF c
<1> QED
  BY <1>2, <1>3, <1>4, <1>5

\* The first elements of e in s.
LEMMA AtStart ==
  ASSUME NEW s, NEW p, NEW e, At(s, p, e), Len(e) \in Nat
  PROVE  /\ p \in Nat
         /\ Len(e) >= 1 => s[p] = e[1]
         /\ Len(e) >= 2 => s[p + 1] = e[2]
         /\ Len(e) >= 3 => s[p + 2] = e[3]
<1>1. p \in Nat /\ \A j \in 1 .. Len(e) : s[p + j - 1] = e[j]
  BY DEF At
<1>2. p + 1 - 1 = p /\ p + 2 - 1 = p + 1 /\ p + 3 - 1 = p + 2
  BY <1>1
<1> QED
  BY <1>1, <1>2

\* What encode writes, and that decode reads it, by the number of octets.
Decodes(n, v, e) ==
  /\ e \in Seq(Octet) /\ Len(e) \in 1 .. n
  /\ \A s, p : At(s, p, e) => decode(n, s, p) = [value |-> v, next |-> p + Len(e)]

\* An integer of one octet.
LEMMA DecodesOne ==
  ASSUME NEW n \in 1 .. 3, NEW v \in Octet, n = 1 \/ v < T
  PROVE  Decodes(n, v, <<v>>)
<1>1. Len(<<v>>) = 1 /\ <<v>> \in Seq(Octet) /\ <<v>>[1] = v
  OBVIOUS
<1>2. ASSUME NEW s, NEW p, At(s, p, <<v>>)
      PROVE  decode(n, s, p) = [value |-> v, next |-> p + 1]
  <2>1. s[p] = v
    BY <1>1, <1>2, AtStart
  <2>2. CASE n = 1
    BY <2>1, <2>2 DEF decode
  <2>3. CASE n # 1 /\ v < T
    <3>1. v < TopBit /\ ~(v >= TopBit)
      BY <2>3, TopBitFacts DEF T, Octet
    <3>2. s[p] < TopBit /\ ~(s[p] >= TopBit)
      BY <2>1, <3>1
    <3> QED
      BY <2>1, <2>3, <3>2 DEF decode
  <2> QED
    BY <2>2, <2>3
<1> QED
  BY <1>1, <1>2 DEF Decodes

\* An integer of two octets.
LEMMA DecodesTwo ==
  ASSUME NEW n \in 2 .. 3, NEW a \in Octet, NEW b \in Octet, NEW v,
         a >= T, n = 2 \/ b < T, (a % T) + T * b = v
  PROVE  Decodes(n, v, <<a, b>>)
<1>1. Len(<<a, b>>) = 2 /\ <<a, b>> \in Seq(Octet) /\ <<a, b>>[1] = a /\ <<a, b>>[2] = b
  OBVIOUS
<1>2. T \in Nat /\ Octet = 0 .. 2 * T - 1
  BY TopBitFacts DEF Octet, T
<1>3. ASSUME NEW s, NEW p, At(s, p, <<a, b>>)
      PROVE  decode(n, s, p) = [value |-> v, next |-> p + 2]
  <2>1. s[p] = a /\ s[p + 1] = b
    BY <1>1, <1>3, AtStart
  <2>2. n # 1 /\ ~(s[p] < T)
    BY <1>2, <2>1
  <2>3. CASE n = 2
    BY <2>1, <2>2, <2>3 DEF decode, Payload, T
  <2>4. CASE n = 3
    <3>1. s[p] >= TopBit /\ ~(s[p] < TopBit) /\ s[p + 1] < TopBit /\ ~(s[p + 1] >= TopBit)
      BY <1>2, <2>1, <2>4 DEF T
    <3>2. decode(3, s, p) = [value |-> Payload(s[p]) + TopBit * s[p + 1], next |-> p + 2]
      BY <3>1 DEF decode
    <3> QED
      BY <2>1, <2>4, <3>2 DEF Payload, T
  <2> QED
    BY <2>3, <2>4
<1> QED
  BY <1>1, <1>3 DEF Decodes

\* An integer of three octets.
LEMMA DecodesThree ==
  ASSUME NEW a \in Octet, NEW b \in Octet, NEW c \in Octet, NEW v,
         a >= T, b >= T, (a % T) + T * (b % T) + (T * T) * c = v
  PROVE  Decodes(3, v, <<a, b, c>>)
<1>1. /\ Len(<<a, b, c>>) = 3 /\ <<a, b, c>> \in Seq(Octet)
      /\ <<a, b, c>>[1] = a /\ <<a, b, c>>[2] = b /\ <<a, b, c>>[3] = c
  OBVIOUS
<1>2. T \in Nat /\ Octet = 0 .. 2 * T - 1
  BY TopBitFacts DEF Octet, T
<1>3. ASSUME NEW s, NEW p, At(s, p, <<a, b, c>>)
      PROVE  decode(3, s, p) = [value |-> v, next |-> p + 3]
  <2>1. s[p] = a /\ s[p + 1] = b /\ s[p + 2] = c
    <3> DEFINE e == <<a, b, c>>
    <3>1. e[1] = a /\ e[2] = b /\ e[3] = c /\ Len(e) = 3 /\ At(s, p, e)
      BY <1>1, <1>3
    <3> HIDE DEF e
    <3>2. p \in Nat /\ \A j \in 1 .. 3 : s[p + j - 1] = e[j]
      BY <3>1 DEF At
    <3>3. p + 1 - 1 = p /\ p + 2 - 1 = p + 1 /\ p + 3 - 1 = p + 2
      BY <3>2
    <3>4. s[p + 1 - 1] = e[1] /\ s[p + 2 - 1] = e[2] /\ s[p + 3 - 1] = e[3]
      BY <3>2
    <3> QED
      BY <3>1, <3>3, <3>4
  <2>2. ~(s[p] < T) /\ ~(s[p + 1] < T) /\ s[p] >= T /\ s[p + 1] >= T
    BY <1>2, <2>1
  <2> QED
    BY <2>1, <2>2 DEF decode, Payload, T
<1> QED
  BY <1>1, <1>3 DEF Decodes

\* decode undoes encode, for every number of octets that the code has.
LEMMA EncodeDecode ==
  ASSUME NEW n \in 1 .. 3, NEW v \in Encodable(n)
  PROVE  Decodes(n, v, encode(n, v))
<1> DEFINE r == v % T
           w == v \div T
<1>1. T \in Nat /\ T >= 2 /\ T \in Nat \ {0} /\ Octet = 0 .. 2 * T - 1
  BY TopBitFacts DEF Octet, T
<1>2. v \in Nat
  <2>1. 2 * T * T \in Nat /\ 2 * T * T * T \in Nat
    BY TopBitFacts
  <2> QED
    BY <1>1, <2>1 DEF Encodable, T
<1>3. r \in 0 .. T - 1 /\ w \in Nat /\ r + T * w = v /\ (r + T) % T = r
  BY <1>2, TwoGroups
<1>4. /\ v < T * T => w \in 0 .. T - 1
      /\ v < 2 * T * T => w \in 0 .. 2 * T - 1
  BY <1>2, TwoGroups
<1>5. More(v) = r + T /\ Group(v, 2) = w /\ Group(v, 3) = v \div (T * T)
  BY DEF More, Payload, Group, T
<1> HIDE DEF r, w
<1>6. r + T \in Octet /\ r + T >= T
  BY <1>1, <1>3
<1>7. \A x \in Octet : LastOctet(x) = x
  <2> TAKE x \in Octet
  <2> DEFINE c == 2 * T
  <2>1. c \in Nat \ {0} /\ x \in Nat /\ x < c
    BY <1>1
  <2> HIDE DEF c
  <2>2. x % c = x
    BY <2>1, DivisionFacts
  <2> QED
    BY <2>2 DEF c, LastOctet, T
<1>8. \A x \in 0 .. T - 1 : Payload(x) = x
  <2> TAKE x \in 0 .. T - 1
  <2>1. x \in Nat /\ x < T
    BY <1>1
  <2> HIDE DEF T
  <2>2. x % T = x
    BY <1>1, <2>1, DivisionFacts
  <2> QED
    BY <2>2 DEF Payload, T
<1>9. CASE n = 1
  <2>1. v \in Octet
    BY <1>9 DEF Encodable
  <2>2. encode(n, v) = <<v>>
    <3>1. encode(1, v) = <<LastOctet(v)>>
      BY DEF encode
    <3> QED
      BY <1>7, <1>9, <2>1, <3>1
  <2> QED
    BY <1>9, <2>1, <2>2, DecodesOne
<1>10. CASE n # 1 /\ v < T
  <2>1. v \in Octet
    BY <1>1, <1>2, <1>10
  <2>2. encode(n, v) = <<v>>
    <3>1. n > 1 /\ v < TopBit
      BY <1>10 DEF T
    <3>2. ~(v >= TopBit)
      BY <1>1, <1>2, <1>10 DEF T
    <3>3. CASE n = 2
      <4>1. encode(2, v) = <<v>>
        BY <3>1, <3>2 DEF encode
      <4> QED
        BY <3>3, <4>1
    <3>4. CASE n = 3
      <4>1. ~(v >= TopBit * TopBit)
        BY <1>1, <1>2, <1>10, TopBitFacts DEF T
      <4>2. encode(3, v) = <<v>>
        BY <3>1, <3>2, <4>1 DEF encode
      <4> QED
        BY <3>4, <4>2
    <3> QED
      BY <3>3, <3>4, <1>10
  <2> QED
    BY <1>10, <2>1, <2>2, DecodesOne
<1>11. CASE n = 2 /\ v >= T
  <2>1. v < 2 * T * T
    <3>1. 2 * T * T \in Nat
      BY TopBitFacts
    <3> QED
      BY <1>11, <3>1 DEF Encodable, T
  <2>2. w \in Octet
    BY <1>1, <1>4, <2>1
  <2>3. encode(n, v) = <<r + T, w>>
    <3>1. ~(v < TopBit) /\ v >= TopBit
      BY <1>1, <1>2, <1>11 DEF T
    <3>2. encode(2, v) = <<More(v), LastOctet(Group(v, 2))>>
      BY <3>1 DEF encode
    <3> QED
      BY <1>5, <1>7, <1>11, <2>2, <3>2
  <2> QED
    <3>1. n \in 2 .. 3 /\ ((r + T) % T) + T * w = v
      BY <1>3, <1>11
    <3> QED
      BY <1>6, <1>11, <2>2, <2>3, <3>1, DecodesTwo
<1>12. CASE n = 3 /\ v >= T /\ v < T * T
  <2>1. w \in 0 .. T - 1 /\ w \in Octet /\ w < T
    BY <1>1, <1>4, <1>12
  <2>2. encode(n, v) = <<r + T, w>>
    <3>1. ~(v < TopBit) /\ v >= TopBit /\ v < TopBit * TopBit /\ ~(v >= TopBit * TopBit)
      BY <1>1, <1>2, <1>12, TopBitFacts DEF T
    <3>2. encode(3, v) = <<More(v), Payload(Group(v, 2))>>
      BY <3>1 DEF encode
    <3> QED
      BY <1>5, <1>8, <1>12, <2>1, <3>2
  <2> QED
    <3>1. n \in 2 .. 3 /\ ((r + T) % T) + T * w = v
      BY <1>3, <1>12
    <3> QED
      BY <1>6, <2>1, <2>2, <3>1, DecodesTwo
<1>13. CASE n = 3 /\ v >= T * T
  <2> DEFINE c == w \div T
             b == w % T
  <2>1. v < 2 * T * T * T
    <3>1. 2 * T * T * T \in Nat
      BY TopBitFacts
    <3> QED
      BY <1>13, <3>1 DEF Encodable, T
  <2>2. w < 2 * T * T
    <3> DEFINE d == T * (2 * T)
    <3>1. d \in Nat /\ v < T * d /\ d = 2 * T * T
      BY <2>1, TopBitFacts
    <3> HIDE DEF d, T
    <3>2. v \div T \in 0 .. d - 1
      BY <1>1, <1>2, <3>1, QuotientBelow
    <3> QED
      BY <3>1, <3>2 DEF w
  <2>3. b \in 0 .. T - 1 /\ c \in Nat /\ b + T * c = w /\ (b + T) % T = b
    BY <1>3, TwoGroups
  <2>4. c \in Octet
    BY <1>1, <1>3, <2>2, TwoGroups
  <2>5. v \div (T * T) = c
    <3> HIDE DEF T
    <3> QED
      BY <1>1, <1>2, DivisionTwice DEF w
  <2>6. More(w) = b + T
    BY DEF More, Payload, T
  <2> HIDE DEF b, c
  <2>7. b + T \in Octet /\ b + T >= T
    BY <1>1, <2>3
  <2>8. v >= T
    BY <1>1, <1>2, <1>13, TopBitFacts
  <2>9. encode(n, v) = <<r + T, b + T, c>>
    <3>1. ~(v < TopBit) /\ ~(v < TopBit * TopBit) /\ v >= TopBit * TopBit
      BY <1>1, <1>2, <1>13, <2>8, TopBitFacts DEF T
    <3>2. encode(3, v) = <<More(v), More(Group(v, 2)), LastOctet(Group(v, 3))>>
      BY <3>1 DEF encode
    <3> QED
      BY <1>5, <1>7, <1>13, <2>4, <2>5, <2>6, <3>2
  <2>10. r + T * b + (T * T) * c = v
    <3>1. T * w = T * b + (T * T) * c
      BY <1>1, <2>3
    <3>2. T * b \in Int /\ (T * T) * c \in Int /\ r \in Int
      BY <1>1, <1>3, <2>3
    <3> QED
      BY <1>3, <3>1, <3>2
  <2>11. ((r + T) % T) + T * ((b + T) % T) + (T * T) * c = v
    BY <1>3, <2>3, <2>10
  <2> QED
    BY <1>6, <1>13, <2>4, <2>7, <2>9, <2>11, DecodesThree
<1>14. n = 1 \/ (n # 1 /\ v < T) \/ (n = 2 /\ v >= T) \/ (n = 3 /\ v >= T /\ v < T * T) \/ (n = 3 /\ v >= T * T)
  BY <1>1, <1>2, TopBitFacts
<1> QED
  BY <1>9, <1>10, <1>11, <1>12, <1>13, <1>14

-----------------------------------------------------------------------------
(***************************************************************************)
(* Masks, and the octets of a record that differ from the one before.      *)
(***************************************************************************)
\* The numbers of Length bits are encodable by as many octets as a mask has.
LEMMA MaskOctetsFit ==
  MaskOctets \in 1 .. 3 /\ \A n \in Nat : n < 2 ^ Length => n \in Encodable(MaskOctets)
<1> DEFINE P == PayloadBits
           Fits(n) == Length <= n * P + 1 /\ (n > 1 => Length > (n - 1) * P + 1)
<1>1. P \in Nat /\ Length \in Nat /\ T = 2 ^ P /\ T \in Nat
  BY VarIntAssumption, CodecAssumption, TopBitFacts DEF T
<1>2. Length <= 3 * P + 1
  BY CodecAssumption
<1> HIDE DEF P
<1>3. \E n \in 1 .. 3 : Fits(n)
  <2>1. CASE Length <= P + 1
    <3>1. Fits(1)
      BY <1>1, <2>1
    <3> QED
      BY <3>1
  <2>2. CASE Length > P + 1 /\ Length <= 2 * P + 1
    <3>1. Fits(2)
      BY <1>1, <2>2
    <3> QED
      BY <3>1
  <2>3. CASE Length > 2 * P + 1
    <3>1. Fits(3)
      BY <1>1, <1>2, <2>3
    <3> QED
      BY <3>1
  <2> QED
    BY <1>1, <2>1, <2>2, <2>3
<1>4. MaskOctets \in 1 .. 3 /\ Length <= MaskOctets * P + 1
  <2>1. MaskOctets = CHOOSE n \in 1 .. 3 : Fits(n)
    BY DEF MaskOctets, Octets, P
  <2>2. Fits(MaskOctets) /\ MaskOctets \in 1 .. 3
    <3> HIDE DEF Fits
    <3> QED
      BY <1>3, <2>1
  <2> QED
    BY <2>2
<1>5. 2 ^ (P + 1) = 2 * T
  BY <1>1, PowerFacts
<1>6. 2 ^ (2 * P) = T * T /\ 2 ^ (2 * P + 1) = 2 * (T * T)
  <2>1. 2 ^ (P + P) = 2 ^ P * 2 ^ P
    BY <1>1, PowerSum
  <2>2. 2 * P \in Nat /\ 2 * P = P + P
    BY <1>1
  <2> QED
    BY <1>1, <2>1, <2>2, PowerFacts
<1>7. 2 ^ (3 * P + 1) = 2 * ((T * T) * T)
  <2>1. 2 * P \in Nat /\ 2 * P + P = 3 * P /\ 3 * P \in Nat
    BY <1>1
  <2>2. 2 ^ (2 * P + P) = 2 ^ (2 * P) * 2 ^ P
    BY <1>1, <2>1, PowerSum
  <2>3. 2 ^ (3 * P) = (T * T) * T
    BY <1>1, <1>6, <2>1, <2>2
  <2>4. 2 ^ (3 * P + 1) = 2 * 2 ^ (3 * P)
    BY <2>1, PowerFacts
  <2> QED
    BY <2>3, <2>4
<1>8. ASSUME NEW n \in Nat, n < 2 ^ Length, NEW m \in Nat, Length <= m PROVE n < 2 ^ m
  <2>1. 2 ^ Length <= 2 ^ m /\ 2 ^ m \in Nat /\ 2 ^ Length \in Nat
    BY <1>1, <1>8, PowerGrows, PowerFacts
  <2> QED
    BY <1>8, <2>1
<1>9. ASSUME NEW n \in Nat, n < 2 ^ Length PROVE n \in Encodable(MaskOctets)
  <2>1. CASE MaskOctets = 1
    <3>1. P + 1 \in Nat /\ Length <= P + 1
      BY <1>1, <1>4, <2>1
    <3>2. n < 2 * T
      BY <1>5, <1>8, <1>9, <3>1
    <3> QED
      BY <1>1, <2>1, <3>2 DEF Encodable, Octet, T
  <2>2. CASE MaskOctets = 2
    <3>1. 2 * P + 1 \in Nat /\ Length <= 2 * P + 1
      BY <1>1, <1>4, <2>2
    <3>2. n < 2 * (T * T)
      BY <1>6, <1>8, <1>9, <3>1
    <3>3. 2 * (T * T) = 2 * T * T /\ 2 * T * T \in Nat
      BY <1>1, TopBitFacts
    <3> QED
      BY <2>2, <3>2, <3>3 DEF Encodable, T
  <2>3. CASE MaskOctets = 3
    <3>1. 3 * P + 1 \in Nat /\ Length <= 3 * P + 1
      BY <1>1, <1>4, <2>3
    <3>2. n < 2 * ((T * T) * T)
      BY <1>7, <1>8, <1>9, <3>1
    <3>3. 2 * ((T * T) * T) = 2 * T * T * T /\ 2 * T * T * T \in Nat
      BY <1>1, TopBitFacts
    <3> QED
      BY <2>3, <3>2, <3>3 DEF Encodable, T
  <2> QED
    BY <1>4, <2>1, <2>2, <2>3
<1> QED
  BY <1>4, <1>9

\* Sets of octets of a record are finite.
LEMMA IndexFacts ==
  /\ Length \in Nat /\ Index \subseteq Int
  /\ \A S : S \subseteq Index => IsFiniteSet(S) /\ Cardinality(S) \in Nat
<1>1. Length \in Nat
  BY CodecAssumption
<1>2. IsFiniteSet(Index)
  <2>1. 0 \in Int /\ Length - 1 \in Int
    BY <1>1
  <2> QED
    BY <2>1, FS_Interval DEF Index
<1>3. ASSUME NEW S, S \subseteq Index PROVE IsFiniteSet(S) /\ Cardinality(S) \in Nat
  BY <1>2, <1>3, FS_Subset, FS_CardinalityType
<1> QED
  BY <1>1, <1>3 DEF Index

\* The mask of a set of octets can be written, and says which they are.
LEMMA MaskFacts ==
  ASSUME NEW S \in SUBSET Index
  PROVE  Mask(S) \in Encodable(MaskOctets) /\ Changed(Mask(S)) = S
<1> DEFINE n == NumberOf(S, Length)
<1>1. n \in Nat /\ n < 2 ^ Length /\ \A b \in 0 .. Length - 1 : IsSet(b, n) <=> b \in S
  BY IndexFacts, NumberHasBits
<1> HIDE DEF n
<1>2. {j \in Index : IsSet(j, n)} = S
  BY <1>1 DEF Index
<1> QED
  BY <1>1, <1>2, MaskOctetsFit DEF Mask, Changed, n

\* InOrder lists a set of octets in ascending order.
LEMMA InOrderRises ==
  ASSUME NEW S \in SUBSET Index
  PROVE  Rises(InOrder(S), S)
<1>1. PICK s : Rises(s, S)
  BY IndexFacts, RisingExists
<1>2. /\ s \in [1 .. Cardinality(S) -> S]
      /\ \A i, k \in DOMAIN s : i < k => s[i] < s[k]
  BY <1>1 DEF Rises
<1> QED
  BY <1>2 DEF InOrder, Rises

\* The octets that differ, and what a record is written as.
Differ(from, to) == {j \in Index : from[j] # to[j]}
MaskWritten(from, to) == encode(MaskOctets, Mask(Differ(from, to)))
OctetsWritten(from, to) == [k \in 1 .. Cardinality(Differ(from, to)) |-> to[InOrder(Differ(from, to))[k]]]

\* The two parts of what a record is written as.
LEMMA DeltaShape ==
  ASSUME NEW from, NEW to \in [Index -> Octet]
  PROVE  /\ Delta(from, to) = MaskWritten(from, to) \o OctetsWritten(from, to)
         /\ OctetsWritten(from, to) \in Seq(Octet) /\ Len(OctetsWritten(from, to)) = Cardinality(Differ(from, to))
         /\ Decodes(MaskOctets, Mask(Differ(from, to)), MaskWritten(from, to))
         /\ Differ(from, to) \in SUBSET Index
<1> DEFINE S == Differ(from, to)
<1>1. S \in SUBSET Index
  BY DEF Differ
<1>2. Cardinality(S) \in Nat
  BY <1>1, IndexFacts
<1>3. Delta(from, to) = MaskWritten(from, to) \o OctetsWritten(from, to)
  BY DEF Delta, MaskWritten, OctetsWritten, Differ
<1>4. InOrder(S) \in [1 .. Cardinality(S) -> S]
  BY <1>1, InOrderRises DEF Rises
<1> HIDE DEF S
<1>5. [k \in 1 .. Cardinality(S) |-> to[InOrder(S)[k]]] \in [1 .. Cardinality(S) -> Octet]
  BY <1>1, <1>4
<1>6. /\ [k \in 1 .. Cardinality(S) |-> to[InOrder(S)[k]]] \in Seq(Octet)
      /\ Len([k \in 1 .. Cardinality(S) |-> to[InOrder(S)[k]]]) = Cardinality(S)
  BY <1>2, <1>5
<1>7. Decodes(MaskOctets, Mask(S), encode(MaskOctets, Mask(S)))
  BY <1>1, MaskFacts, MaskOctetsFit, EncodeDecode
<1> QED
  BY <1>1, <1>3, <1>6, <1>7 DEF S, MaskWritten, OctetsWritten

\* Replacing the octets that differ by what is written makes the next record of the one before.
LEMMA ChangeUndoesDelta ==
  ASSUME NEW from \in [Index -> Octet], NEW to \in [Index -> Octet], NEW octets,
         \A k \in 1 .. Cardinality(Differ(from, to)) : octets[k] = OctetsWritten(from, to)[k]
  PROVE  Change(from, Differ(from, to), octets) = to
<1> DEFINE S == Differ(from, to)
           c == Change(from, S, octets)
<1>1. S \in SUBSET Index
  BY DEF Differ
<1>2. \A x \in S : Place(S, x) \in 1 .. Cardinality(S) /\ InOrder(S)[Place(S, x)] = x
  BY <1>1, IndexFacts, InOrderRises, RisingByPlace
<1>3. ASSUME NEW j \in Index PROVE c[j] = to[j]
  <2>1. CASE j \in S
    <3>1. c[j] = octets[Place(S, j)]
      BY <2>1 DEF Change, Place, Upto
    <3>2. octets[Place(S, j)] = OctetsWritten(from, to)[Place(S, j)]
      BY <1>2, <2>1
    <3>3. OctetsWritten(from, to)[Place(S, j)] = to[InOrder(S)[Place(S, j)]]
      BY <1>2, <2>1 DEF OctetsWritten
    <3> QED
      BY <1>2, <2>1, <3>1, <3>2, <3>3
  <2>2. CASE j \notin S
    BY <2>2 DEF Change, Differ
  <2> QED
    BY <2>1, <2>2
<1>4. c = [j \in Index |-> c[j]]
  BY DEF Change
<1> HIDE DEF c, S
<1>5. c = to
  BY <1>3, <1>4
<1> QED
  BY <1>5 DEF c, S

-----------------------------------------------------------------------------
(***************************************************************************)
(* One record in a buffer.                                                 *)
(***************************************************************************)
\* t has what s has at the positions of s.
Agrees(t, s) == Len(s) <= Len(t) /\ \A j \in 1 .. Len(s) : t[j] = s[j]

\* The parts of what stands in s stand there too.
LEMMA AtParts ==
  ASSUME NEW s, NEW p, NEW a \in Seq(Octet), NEW b \in Seq(Octet), At(s, p, a \o b),
         Len(s) \in Nat
  PROVE  At(s, p, a) /\ At(s, p + Len(a), b)
<1>1. Len(a) \in Nat /\ Len(b) \in Nat /\ Len(a \o b) = Len(a) + Len(b)
  OBVIOUS
<1>2. /\ p \in Nat \ {0} /\ p + Len(a) + Len(b) <= Len(s) + 1
      /\ \A j \in 1 .. Len(a) + Len(b) : s[p + j - 1] = (a \o b)[j]
  BY <1>1 DEF At
<1>3. \A j \in 1 .. Len(a) : (a \o b)[j] = a[j]
  BY <1>1
<1>4. \A j \in 1 .. Len(b) : (a \o b)[Len(a) + j] = b[j]
  BY <1>1
<1>5. At(s, p, a)
  <2>1. p + Len(a) <= Len(s) + 1
    BY <1>1, <1>2
  <2>2. \A j \in 1 .. Len(a) : s[p + j - 1] = a[j]
    BY <1>1, <1>2, <1>3
  <2> QED
    BY <1>2, <2>1, <2>2 DEF At
<1>6. At(s, p + Len(a), b)
  <2>1. p + Len(a) \in Nat \ {0} /\ (p + Len(a)) + Len(b) <= Len(s) + 1
    BY <1>1, <1>2
  <2>2. ASSUME NEW j \in 1 .. Len(b) PROVE s[(p + Len(a)) + j - 1] = b[j]
    <3>1. /\ Len(a) + j \in 1 .. Len(a) + Len(b)
          /\ p + (Len(a) + j) - 1 = (p + Len(a)) + j - 1
      BY <1>1, <1>2
    <3> QED
      BY <1>2, <1>4, <3>1
  <2> QED
    BY <2>1, <2>2 DEF At
<1> QED
  BY <1>5, <1>6

\* What stands in s stands in every sequence that agrees with it.
LEMMA AtAgrees ==
  ASSUME NEW s, NEW t, NEW p, NEW e, At(s, p, e), Agrees(t, s),
         Len(s) \in Nat, Len(t) \in Nat, Len(e) \in Nat
  PROVE  At(t, p, e)
<1>1. /\ p \in Nat \ {0} /\ p + Len(e) <= Len(s) + 1 /\ Len(s) <= Len(t)
      /\ \A j \in 1 .. Len(e) : s[p + j - 1] = e[j]
  BY DEF At, Agrees
<1>2. \A j \in 1 .. Len(e) : p + j - 1 \in 1 .. Len(s)
  BY <1>1
<1>3. \A j \in 1 .. Len(e) : t[p + j - 1] = e[j]
  BY <1>1, <1>2 DEF Agrees
<1> QED
  BY <1>1, <1>3 DEF At

\* A sequence that is continued agrees with what it was.
LEMMA ConcatAgrees ==
  ASSUME NEW A, NEW s \in Seq(A), NEW e \in Seq(A)
  PROVE  /\ Agrees(s \o e, s) /\ s \o e \in Seq(A) /\ Len(s \o e) = Len(s) + Len(e)
         /\ At(s \o e, Len(s) + 1, e)
<1>1. /\ Len(s) \in Nat /\ Len(e) \in Nat /\ Len(s \o e) = Len(s) + Len(e)
      /\ s \o e \in Seq(A)
  OBVIOUS
<1>2. Agrees(s \o e, s)
  BY <1>1 DEF Agrees
<1>3. ASSUME NEW j \in 1 .. Len(e) PROVE (s \o e)[(Len(s) + 1) + j - 1] = e[j]
  <2>1. (Len(s) + 1) + j - 1 = Len(s) + j
    BY <1>1
  <2> QED
    BY <1>1, <2>1
<1> QED
  BY <1>1, <1>2, <1>3 DEF At

\* A record is read where it has been written, whatever follows it.
LEMMA ReadsDelta ==
  ASSUME NEW from \in [Index -> Octet], NEW to \in [Index -> Octet], value = from,
         NEW buffer \in Seq(Octet), NEW p, At(buffer, p, Delta(from, to)),
         unpack_internal(buffer, p)
  PROVE  /\ value' = to /\ unpacked' = Append(unpacked, to)
         /\ it' = p + Len(Delta(from, to)) /\ pc' = pc
<1> DEFINE e == MaskWritten(from, to)
           o == OctetsWritten(from, to)
           S == Differ(from, to)
           s == buffer \o <<0, 0, 0>>
           mask == decode(MaskOctets, s, p)
           after == mask.next + Cardinality(Changed(mask.value))
<1>1. /\ Delta(from, to) = e \o o /\ o \in Seq(Octet) /\ Len(o) = Cardinality(S)
      /\ Decodes(MaskOctets, Mask(S), e) /\ S \in SUBSET Index
  BY DeltaShape
<1>2. e \in Seq(Octet) /\ Len(e) \in Nat /\ Len(o) \in Nat /\ Len(buffer) \in Nat
      /\ Len(Delta(from, to)) = Len(e) + Len(o)
  <2>1. e \in Seq(Octet) /\ o \in Seq(Octet)
    BY <1>1 DEF Decodes
  <2> HIDE DEF e, o
  <2>2. Len(e \o o) = Len(e) + Len(o) /\ Len(e) \in Nat /\ Len(o) \in Nat
    BY <2>1
  <2>3. Len(buffer) \in Nat
    OBVIOUS
  <2>4. Len(Delta(from, to)) = Len(e \o o)
    BY <1>1
  <2> QED
    BY <2>1, <2>2, <2>3, <2>4
<1>3. At(buffer, p, e) /\ At(buffer, p + Len(e), o)
  BY <1>1, <1>2, AtParts
<1>4. At(s, p, e)
  <2>1. <<0, 0, 0>> \in Seq(Octet)
    BY VarIntAssumption DEF Octet
  <2>2. Agrees(s, buffer) /\ Len(s) \in Nat
    <3> DEFINE z == <<0, 0, 0>>
    <3> HIDE DEF z
    <3>1. Agrees(buffer \o z, buffer) /\ buffer \o z \in Seq(Octet)
      BY <2>1, ConcatAgrees DEF z
    <3> QED
      BY <3>1 DEF z
  <2> HIDE DEF s
  <2> QED
    BY <1>2, <1>3, <2>2, AtAgrees
<1>5. mask.value = Mask(S) /\ mask.next = p + Len(e)
  <2> HIDE DEF s, e, S
  <2> QED
    BY <1>1, <1>4 DEF Decodes
<1>6. Changed(mask.value) = S
  BY <1>1, <1>5, MaskFacts
<1>7. p \in Nat \ {0} /\ p + Len(Delta(from, to)) <= Len(buffer) + 1
  BY DEF At
<1>8. after = p + Len(Delta(from, to)) /\ ~(after > Len(buffer) + 1)
  <2> HIDE DEF mask, e, o, S
  <2> QED
    BY <1>1, <1>2, <1>5, <1>6, <1>7
<1>9. /\ value' = Change(value, Changed(mask.value), SubSeq(buffer, mask.next, after - 1))
      /\ unpacked' = Append(unpacked, value') /\ it' = after /\ pc' = pc
  BY <1>8 DEF unpack_internal
<1> DEFINE octets == SubSeq(buffer, mask.next, after - 1)
<1>10. \A k \in 1 .. Cardinality(S) : octets[k] = o[k]
  <2> DEFINE a == p + Len(e)
             b == p + Len(e) + Len(o) - 1
  <2>1. octets = SubSeq(buffer, a, b)
    <3>1. after - 1 = b
      <4> HIDE DEF mask, after, e, o
      <4> QED
        BY <1>2, <1>7, <1>8
    <3> QED
      BY <1>5, <3>1
  <2>2. a \in Nat \ {0} /\ b \in Int /\ b <= Len(buffer) /\ b - a + 1 = Len(o)
    BY <1>2, <1>7
  <2> HIDE DEF a, b, octets
  <2>3. ASSUME NEW k \in 1 .. Len(o) PROVE octets[k] = o[k]
    <3>1. octets[k] = buffer[a + k - 1]
      <4>1. a \in 1 .. Len(buffer) + 1 /\ b \in a - 1 .. Len(buffer) /\ k \in 1 .. (b - a + 1)
        BY <1>2, <2>2, <2>3
      <4> QED
        BY <2>1, <4>1, SubSeqProperties
    <3>2. buffer[a + k - 1] = o[k]
      BY <1>3 DEF At, a
    <3> QED
      BY <3>1, <3>2
  <2> QED
    BY <1>1, <2>3
<1>11. Change(from, S, octets) = to
  <2> HIDE DEF octets, S
  <2>1. \A k \in 1 .. Cardinality(Differ(from, to)) : octets[k] = OctetsWritten(from, to)[k]
    BY <1>10 DEF S
  <2> QED
    BY <2>1, ChangeUndoesDelta DEF S
<1> QED
  BY <1>6, <1>8, <1>9, <1>11

\* Whatever is read, a record is made of it, or the end of the buffer is reached.
LEMMA ReadsSomething ==
  ASSUME NEW buffer \in Seq(Octet), NEW p \in 1 .. Len(buffer) + 1,
         value \in [Index -> Octet], unpack_internal(buffer, p)
  PROVE  \/ pc' = "overrun" /\ UNCHANGED <<it, value, unpacked>>
         \/ /\ pc' = pc /\ it' \in 1 .. Len(buffer) + 1 /\ value' \in [Index -> Octet]
            /\ unpacked' = Append(unpacked, value')
<1> DEFINE s == buffer \o <<0, 0, 0>>
           mask == decode(MaskOctets, s, p)
           bits == Changed(mask.value)
           after == mask.next + Cardinality(bits)
<1>1. Len(buffer) \in Nat /\ T \in Nat /\ T >= 2 /\ Octet = 0 .. 2 * T - 1
  BY TopBitFacts DEF Octet, T
<1>2. s \in Seq(Octet) /\ Len(s) = Len(buffer) + 3
  <2>1. <<0, 0, 0>> \in Seq(Octet)
    BY VarIntAssumption DEF Octet
  <2> QED
    BY <2>1
<1>3. mask.next \in Nat /\ mask.next >= p
  <2>1. s[p] \in Octet /\ s[p + 1] \in Octet
    <3>1. p \in 1 .. Len(s) /\ p + 1 \in 1 .. Len(s)
      BY <1>1, <1>2
    <3> HIDE DEF s
    <3> QED
      BY <1>2, <3>1
  <2>2. MaskOctets \in 1 .. 3
    BY MaskOctetsFit
  <2> HIDE DEF s
  <2>3. (s[p] < T \/ s[p] >= T) /\ ~(s[p] < T /\ s[p] >= T)
        /\ (s[p + 1] < T \/ s[p + 1] >= T) /\ ~(s[p + 1] < T /\ s[p + 1] >= T)
    BY <1>1, <2>1
  <2>4. mask.next \in {p + 1, p + 2, p + 3}
    <3>1. CASE MaskOctets = 1
      BY <3>1 DEF decode
    <3>2. CASE MaskOctets = 2
      BY <2>3, <3>2 DEF decode, T
    <3>3. CASE MaskOctets = 3
      BY <2>3, <3>3 DEF decode, T
    <3> QED
      BY <2>2, <3>1, <3>2, <3>3
  <2> QED
    BY <1>1, <2>4
<1>4. bits \in SUBSET Index /\ Cardinality(bits) \in Nat
  BY IndexFacts DEF Changed
<1> HIDE DEF mask, bits
<1>5. CASE after > Len(buffer) + 1
  BY <1>5 DEF unpack_internal, mask, bits
<1>6. CASE ~(after > Len(buffer) + 1)
  <2> DEFINE octets == SubSeq(buffer, mask.next, after - 1)
  <2>1. /\ value' = Change(value, bits, octets)
        /\ unpacked' = Append(unpacked, value') /\ it' = after /\ pc' = pc
    BY <1>6 DEF unpack_internal, mask, bits
  <2>2. after \in 1 .. Len(buffer) + 1
    BY <1>1, <1>3, <1>4, <1>6
  <2>3. \A k \in 1 .. Cardinality(bits) : octets[k] \in Octet
    <3> TAKE k \in 1 .. Cardinality(bits)
    <3> DEFINE a == mask.next
               b == after - 1
    <3>1. a \in 1 .. Len(buffer) + 1 /\ b \in a - 1 .. Len(buffer) /\ k \in 1 .. b - a + 1
          /\ a + k - 1 \in 1 .. Len(buffer)
      <4> DEFINE c == Cardinality(bits)
                 l == Len(buffer)
      <4>1. a \in Nat /\ a >= p /\ p \in 1 .. l + 1 /\ l \in Nat /\ c \in Nat /\ b = a + c - 1
            /\ ~(a + c > l + 1) /\ k \in 1 .. c
        BY <1>1, <1>3, <1>4, <1>6
      <4> HIDE DEF a, b, c, l
      <4>2. b \in a - 1 .. l /\ a \in 1 .. l + 1 /\ k \in 1 .. b - a + 1 /\ a + k - 1 \in 1 .. l
        BY <4>1
      <4> QED
        BY <4>2 DEF l
    <3> HIDE DEF a, b
    <3>2. SubSeq(buffer, a, b)[k] = buffer[a + k - 1]
      BY <3>1, SubSeqProperties
    <3>3. buffer[a + k - 1] \in Octet
      BY <3>1
    <3> QED
      BY <3>2, <3>3 DEF a, b
  <2>4. \A j \in bits : Place(bits, j) \in 1 .. Cardinality(bits)
    BY <1>4, IndexFacts, PlaceFacts
  <2> HIDE DEF octets
  <2>5. Change(value, bits, octets) \in [Index -> Octet]
    <3>1. \A j \in bits : octets[Cardinality({i \in bits : i <= j})] \in Octet
      BY <2>3, <2>4 DEF Place, Upto
    <3> QED
      BY <3>1 DEF Change
  <2> QED
    BY <2>1, <2>2, <2>5
<1> QED
  BY <1>5, <1>6

-----------------------------------------------------------------------------
(***************************************************************************)
(* The records of a block.                                                 *)
(***************************************************************************)
\* A record, record i of a sequence of them, and what it is written as.
Record == [Index -> Octet]
Rec(q, i) == IF i = 0 THEN Zeros ELSE q[i]
Nth(q, i) == Delta(Rec(q, i - 1), Rec(q, i))

\* s holds the records of q behind a and up to b: record i is at pos[i - 1].
Marks(pos, q, s, a, b) ==
  /\ a \in Nat /\ b \in Nat /\ a <= b
  /\ pos \in [a .. b -> Nat \ {0}]
  /\ pos[a] = 1 /\ pos[b] = Len(s) + 1
  /\ \A i \in a + 1 .. b : At(s, pos[i - 1], Nth(q, i)) /\ pos[i] = pos[i - 1] + Len(Nth(q, i))

Part(q, s, a, b) == \E pos : Marks(pos, q, s, a, b)

\* What the first record is compared with is a record.
LEMMA ZerosIsRecord == Zeros \in Record
  BY VarIntAssumption DEF Zeros, Record, Octet

\* Every record is written as one octet at least.
LEMMA NthFacts ==
  ASSUME NEW q \in Seq(Record)
  PROVE  /\ \A i \in 0 .. Len(q) : Rec(q, i) \in Record
         /\ \A i \in 1 .. Len(q) : Nth(q, i) \in Seq(Octet) /\ Len(Nth(q, i)) \in Nat \ {0}
<1>1. ASSUME NEW i \in 0 .. Len(q) PROVE Rec(q, i) \in Record
  <2>1. CASE i = 0
    BY <2>1, ZerosIsRecord DEF Rec
  <2>2. CASE i # 0
    <3>1. i \in 1 .. Len(q)
      BY <2>2
    <3> QED
      BY <2>2, <3>1 DEF Rec
  <2> QED
    BY <2>1, <2>2
<1>2. ASSUME NEW i \in 1 .. Len(q)
      PROVE  Nth(q, i) \in Seq(Octet) /\ Len(Nth(q, i)) \in Nat \ {0}
  <2> DEFINE from == Rec(q, i - 1)
             to == Rec(q, i)
  <2>1. from \in Record /\ to \in Record
    <3>1. i - 1 \in 0 .. Len(q) /\ i \in 0 .. Len(q)
      OBVIOUS
    <3> QED
      BY <1>1, <3>1
  <2> HIDE DEF from, to
  <2> DEFINE e == MaskWritten(from, to)
             o == OctetsWritten(from, to)
  <2>2. Delta(from, to) = e \o o /\ o \in Seq(Octet) /\ e \in Seq(Octet) /\ Len(e) >= 1
    BY <2>1, DeltaShape, MaskOctetsFit DEF Decodes, Record
  <2> HIDE DEF e, o
  <2>3. e \o o \in Seq(Octet) /\ Len(e \o o) = Len(e) + Len(o) /\ Len(e) \in Nat /\ Len(o) \in Nat
    BY <2>2
  <2>4. Nth(q, i) = e \o o
    BY <2>2 DEF Nth, from, to
  <2>5. Len(e \o o) \in Nat \ {0}
    BY <2>2, <2>3
  <2> QED
    BY <2>3, <2>4, <2>5
<1> QED
  BY <1>1, <1>2

\* A block that is empty.
LEMMA PartNone ==
  ASSUME NEW q, NEW a \in Nat
  PROVE  Part(q, <<>>, a, a)
<1> DEFINE pos == [i \in a .. a |-> 1]
<1>1. Marks(pos, q, <<>>, a, a)
  BY DEF Marks
<1> QED
  BY <1>1 DEF Part

\* The records before one that is added are written as they were.
LEMMA NthKept ==
  ASSUME NEW q \in Seq(Record), NEW r \in Record
  PROVE  /\ \A i \in 0 .. Len(q) : Rec(Append(q, r), i) = Rec(q, i)
         /\ \A i \in 1 .. Len(q) : Nth(Append(q, r), i) = Nth(q, i)
         /\ Nth(Append(q, r), Len(q) + 1) = Delta(Rec(q, Len(q)), r)
<1>1. Len(q) \in Nat /\ Append(q, r)[Len(q) + 1] = r /\ \A i \in 1 .. Len(q) : Append(q, r)[i] = q[i]
  OBVIOUS
<1>2. \A i \in 0 .. Len(q) : Rec(Append(q, r), i) = Rec(q, i)
  BY <1>1 DEF Rec
<1>3. ASSUME NEW i \in 1 .. Len(q) PROVE Nth(Append(q, r), i) = Nth(q, i)
  <2>1. i \in 0 .. Len(q) /\ i - 1 \in 0 .. Len(q)
    BY <1>1
  <2> QED
    BY <1>2, <2>1 DEF Nth
<1>4. Nth(Append(q, r), Len(q) + 1) = Delta(Rec(q, Len(q)), r)
  <2>1. (Len(q) + 1) - 1 = Len(q) /\ Len(q) \in 0 .. Len(q) /\ Len(q) + 1 # 0
    BY <1>1
  <2>2. Rec(Append(q, r), Len(q) + 1) = r
    BY <1>1, <2>1 DEF Rec
  <2>3. Rec(Append(q, r), Len(q)) = Rec(q, Len(q))
    BY <1>2, <2>1
  <2> QED
    BY <2>1, <2>2, <2>3 DEF Nth
<1> QED
  BY <1>2, <1>3, <1>4

\* A block holds what it holds when a record is added to the run.
LEMMA PartKept ==
  ASSUME NEW q \in Seq(Record), NEW r \in Record, NEW s, NEW a, NEW b, b <= Len(q), Part(q, s, a, b)
  PROVE  Part(Append(q, r), s, a, b)
<1>1. PICK pos : Marks(pos, q, s, a, b)
  BY DEF Part
<1>2. \A i \in a + 1 .. b : i \in 1 .. Len(q)
  BY <1>1 DEF Marks
<1>3. \A i \in a + 1 .. b : Nth(Append(q, r), i) = Nth(q, i)
  BY <1>2, NthKept
<1>4. Marks(pos, Append(q, r), s, a, b)
  BY <1>1, <1>3 DEF Marks
<1> QED
  BY <1>4 DEF Part

\* A block to which the next record is written.
LEMMA PartMore ==
  ASSUME NEW q \in Seq(Record), NEW r \in Record, NEW s \in Seq(Octet), NEW a, Part(q, s, a, Len(q))
  PROVE  Part(Append(q, r), s \o Delta(Rec(q, Len(q)), r), a, Len(q) + 1)
<1> DEFINE n == Len(q)
           p == Append(q, r)
           d == Delta(Rec(q, n), r)
<1>1. PICK pos : Marks(pos, q, s, a, n)
  BY DEF Part
<1>2. p \in Seq(Record) /\ Len(p) = n + 1 /\ n \in Nat
  OBVIOUS
<1>3. d \in Seq(Octet) /\ Len(d) \in Nat \ {0} /\ Nth(p, n + 1) = d
  <2>1. n + 1 \in 1 .. Len(p) /\ Nth(p, n + 1) = d
    BY <1>2, NthKept
  <2> HIDE DEF p, d
  <2> QED
    BY <1>2, <2>1, NthFacts
<1> HIDE DEF d
<1> DEFINE mark == [i \in a .. n + 1 |-> IF i = n + 1 THEN Len(s) + 1 + Len(d) ELSE pos[i]]
<1>4. /\ Agrees(s \o d, s) /\ Len(s \o d) = Len(s) + Len(d) /\ At(s \o d, Len(s) + 1, d)
      /\ Len(s) \in Nat
  BY <1>3, ConcatAgrees
<1>5. /\ a \in Nat /\ a <= n /\ pos \in [a .. n -> Nat \ {0}] /\ pos[a] = 1 /\ pos[n] = Len(s) + 1
      /\ \A i \in a + 1 .. n : At(s, pos[i - 1], Nth(q, i)) /\ pos[i] = pos[i - 1] + Len(Nth(q, i))
  BY <1>1 DEF Marks
<1> HIDE DEF n
<1>6. mark \in [a .. n + 1 -> Nat \ {0}]
  <2>1. ASSUME NEW i \in a .. n + 1 PROVE mark[i] \in Nat \ {0}
    <3>1. CASE i = n + 1
      BY <1>3, <1>4, <3>1
    <3>2. CASE i # n + 1
      BY <1>2, <1>5, <3>2
    <3> QED
      BY <3>1, <3>2
  <2> QED
    BY <2>1
<1>7. mark[a] = 1 /\ mark[n + 1] = Len(s \o d) + 1 /\ \A i \in a .. n : mark[i] = pos[i]
  <2>1. a \in a .. n + 1 /\ a # n + 1 /\ n + 1 \in a .. n + 1
    BY <1>2, <1>5
  <2>2. \A i \in a .. n : i \in a .. n + 1 /\ i # n + 1
    BY <1>2, <1>5
  <2>3. Len(s) + 1 + Len(d) = Len(s \o d) + 1
    BY <1>3, <1>4
  <2> QED
    BY <1>5, <2>1, <2>2, <2>3
<1> HIDE DEF mark
<1>8. ASSUME NEW i \in a + 1 .. n + 1
      PROVE  At(s \o d, mark[i - 1], Nth(p, i)) /\ mark[i] = mark[i - 1] + Len(Nth(p, i))
  <2>1. CASE i = n + 1
    <3>1. i - 1 = n /\ n \in a .. n
      BY <1>2, <1>5, <2>1
    <3>2. mark[i - 1] = Len(s) + 1
      BY <1>5, <1>7, <3>1
    <3>3. mark[i] = (Len(s) + 1) + Len(d)
      BY <1>3, <1>4, <1>7, <2>1
    <3> QED
      BY <1>3, <1>4, <2>1, <3>2, <3>3
  <2>2. CASE i # n + 1
    <3>1. i \in a + 1 .. n /\ i \in a .. n /\ i - 1 \in a .. n /\ i \in 1 .. n
      BY <1>2, <1>5, <2>2
    <3>2. Nth(p, i) = Nth(q, i) /\ Len(Nth(q, i)) \in Nat
      BY <3>1, NthKept, NthFacts DEF n
    <3>3. At(s, pos[i - 1], Nth(q, i)) /\ pos[i] = pos[i - 1] + Len(Nth(q, i))
      BY <1>5, <3>1
    <3>4. Len(s \o d) \in Nat
      BY <1>3, <1>4
    <3>5. At(s \o d, pos[i - 1], Nth(q, i))
      BY <1>4, <3>2, <3>3, <3>4, AtAgrees
    <3> QED
      BY <1>7, <3>1, <3>2, <3>3, <3>5
  <2> QED
    BY <2>1, <2>2
<1>9. Marks(mark, p, s \o d, a, n + 1)
  <2>1. a \in Nat /\ n + 1 \in Nat /\ a <= n + 1
    BY <1>2, <1>5
  <2> HIDE DEF p
  <2> QED
    BY <1>6, <1>7, <1>8, <2>1 DEF Marks
<1> QED
  BY <1>9 DEF Part, d, n

\* A record that is not the last one of its part begins before the end of it.
LEMMA MarksFacts ==
  ASSUME NEW q \in Seq(Record), NEW s, Len(s) \in Nat, NEW a, NEW b, b <= Len(q),
         NEW pos, Marks(pos, q, s, a, b)
  PROVE  /\ \A i \in a .. b : pos[i] \in 1 .. Len(s) + 1
         /\ \A i \in a .. b : i < b => pos[i] <= Len(s)
<1>1. /\ a \in Nat /\ b \in Nat /\ a <= b /\ pos \in [a .. b -> Nat \ {0}]
      /\ pos[b] = Len(s) + 1
      /\ \A i \in a + 1 .. b : At(s, pos[i - 1], Nth(q, i))
  BY DEF Marks
<1>2. ASSUME NEW i \in a .. b, i < b PROVE pos[i] <= Len(s)
  <2>1. i + 1 \in a + 1 .. b /\ (i + 1) - 1 = i /\ i + 1 \in 1 .. Len(q)
    BY <1>1, <1>2
  <2>2. At(s, pos[i], Nth(q, i + 1))
    BY <1>1, <2>1
  <2>3. Len(Nth(q, i + 1)) \in Nat \ {0}
    BY <2>1, NthFacts
  <2>4. pos[i] \in Nat /\ pos[i] + Len(Nth(q, i + 1)) <= Len(s) + 1
    BY <2>2 DEF At
  <2> QED
    BY <2>3, <2>4
<1>3. ASSUME NEW i \in a .. b PROVE pos[i] \in 1 .. Len(s) + 1
  <2>1. pos[i] \in Nat \ {0}
    BY <1>1
  <2>2. i = b \/ i < b
    BY <1>1
  <2> QED
    BY <1>1, <1>2, <2>1, <2>2
<1> QED
  BY <1>2, <1>3

\* A block has no octets if it has no records.
LEMMA PartEmpty ==
  ASSUME NEW q \in Seq(Record), NEW s, Len(s) \in Nat, NEW a, NEW b, b <= Len(q), Part(q, s, a, b)
  PROVE  /\ a \in Nat /\ b \in Nat /\ a <= b
         /\ Len(s) = 0 <=> a = b
<1>1. PICK pos : Marks(pos, q, s, a, b)
  BY DEF Part
<1>2. a \in Nat /\ b \in Nat /\ a <= b /\ pos[a] = 1 /\ pos[b] = Len(s) + 1
  BY <1>1 DEF Marks
<1>3. CASE a = b
  BY <1>2, <1>3
<1>4. CASE a # b
  <2>1. a \in a .. b /\ a < b
    BY <1>2, <1>4
  <2>2. 1 <= Len(s)
    BY <1>1, <1>2, <2>1, MarksFacts
  <2> QED
    BY <1>2, <1>4, <2>2
<1> QED
  BY <1>3, <1>4

-----------------------------------------------------------------------------
(***************************************************************************)
(* The invariant.                                                          *)
(***************************************************************************)
\* The reader has been opened; and where it reads.
Started == pc \notin {"pack", "open"}
Buffer == IF Compress THEN zbuffer ELSE output

\* At p there is the length of a frame; the frame, at f, is of the records
\* behind a and up to b and is followed by what is at next.
BlockAt(p, f, next, a, b) ==
  /\ \E len \in FrameLengths : /\ At(output, p, encode(LenOctets, len))
                               /\ f = p + Len(encode(LenOctets, len))
                               /\ next = f + len
  /\ f \in DOMAIN frames
  /\ Part(packed, frames[f], a, b)

\* The output is m blocks: block k is at lay[k - 1], its frame at fr[k], and
\* the last of its records is rb[k].
Layout(m, lay, fr, rb) ==
  /\ m \in Nat
  /\ lay \in [0 .. m -> Nat \ {0}] /\ lay[0] = 1 /\ lay[m] = Len(output) + 1
  /\ rb \in [0 .. m -> Nat] /\ rb[0] = 0
  /\ \A k \in 0 .. m : rb[k] <= Len(packed)
  /\ \A k \in 1 .. m : BlockAt(lay[k - 1], fr[k], lay[k], rb[k - 1], rb[k])

\* Every block has a record, except that the last may be empty once the
\* compressor is gone; until then the rest of the records are in the block
\* that is being filled.
Filled(m, rb) ==
  IF pc = "pack"
    THEN /\ Part(packed, delta_transformed, rb[m], Len(packed))
         /\ \A k \in 1 .. m : rb[k - 1] < rb[k]
    ELSE /\ m >= 1 /\ rb[m] = Len(packed)
         /\ \A k \in 1 .. m - 1 : rb[k - 1] < rb[k]

\* The buffer holds s, and the reader is at the record after the last one
\* unpacked.
Reading(buffer, s, a, b) ==
  \E pos : /\ Marks(pos, packed, s, a, b) /\ Agrees(buffer, s)
           /\ Len(unpacked) \in a .. b
           /\ it = pos[Len(unpacked)] /\ end = Len(s) + 1

\* The reader is in block k, or has not been opened.
AtBlock(m, lay, fr, rb, k) ==
  /\ k \in 0 .. m /\ raw_it = lay[k]
  /\ ~Started => k = 0
  /\ Started /\ ~EmptyLastBlock =>
       k >= 1 /\ Reading(zbuffer, frames[fr[k]], rb[k - 1], rb[k])

\* The output with blocks, and without.
WithBlocks ==
  \E m, lay, fr, rb : /\ Layout(m, lay, fr, rb) /\ Filled(m, rb)
                      /\ \E k \in 0 .. m : AtBlock(m, lay, fr, rb, k)

WithoutBlocks ==
  /\ output \in Seq(Octet) /\ frames = <<>>
  /\ pc = "pack" => Part(packed, output \o delta_transformed, 0, Len(packed))
  /\ pc # "pack" => Part(packed, output, 0, Len(packed))
  /\ Started => Reading(output, output, 0, Len(packed))

\* The records that have been unpacked are the first ones packed.
ReadSoFar ==
  /\ Len(unpacked) <= Len(packed)
  /\ \A i \in 1 .. Len(unpacked) : unpacked[i] = packed[i]
  /\ value = Rec(packed, Len(unpacked))
  /\ pc = "empty" => Len(unpacked) = Len(packed)
  /\ pc # "overrun"

\* The inductive invariant.
IInv ==
  /\ TypeOK
  /\ prev = Rec(packed, Len(packed))
  /\ ~Started => /\ raw_it = 1 /\ it = 1 /\ end = 1 /\ zbuffer = <<>>
                 /\ value = Zeros /\ unpacked = <<>>
  /\ pc = "unpack" => it \in 1 .. Len(Buffer) + 1
  /\ Started /\ ~EmptyLastBlock => ReadSoFar
  /\ IF Compress THEN WithBlocks ELSE WithoutBlocks

\* What the proofs use of it all the time.
LEMMA TypeFacts ==
  ASSUME IInv
  PROVE  /\ packed \in Seq(Record) /\ Len(packed) \in Nat
         /\ delta_transformed \in Seq(Octet) /\ Len(output) \in Nat
         /\ 0 \in Octet /\ Octet \subseteq Octet \union {Opaque}
<1>1. packed \in Seq(Records) /\ delta_transformed \in Seq(Octet)
      /\ output \in Seq(Octet \union {Opaque})
  BY DEF IInv, TypeOK
<1>2. Records \subseteq Record
  BY CodecAssumption DEF Record
<1>3. packed \in Seq(Record) /\ Len(packed) \in Nat
  BY <1>1, <1>2
<1> QED
  BY <1>1, <1>3, VarIntAssumption DEF Octet

\* It holds at first.
LEMMA InitFirst == Init => IInv
<1> SUFFICES ASSUME Init PROVE IInv
  OBVIOUS
<1>1. /\ Compress \in BOOLEAN /\ packed = <<>> /\ prev = Zeros
      /\ delta_transformed = <<>> /\ output = <<>> /\ frames = <<>>
      /\ raw_it = 1 /\ it = 1 /\ end = 1 /\ zbuffer = <<>>
      /\ value = Zeros /\ unpacked = <<>> /\ pc = "pack"
  BY DEF Init
<1>2. TypeOK
  BY <1>1, ZerosIsRecord DEF TypeOK, Record
<1>3. prev = Rec(packed, Len(packed)) /\ ~Started /\ Len(output) = 0 /\ Len(packed) = 0
  BY <1>1 DEF Rec, Started
<1>4. Part(<<>>, <<>>, 0, 0) /\ <<>> \o <<>> = <<>>
  BY PartNone
<1>5. CASE Compress
  <2> DEFINE lay == [k \in 0 .. 0 |-> 1]
             rb == [k \in 0 .. 0 |-> 0]
  <2>1. lay \in [0 .. 0 -> Nat \ {0}] /\ lay[0] = 1 /\ rb \in [0 .. 0 -> Nat] /\ rb[0] = 0
    OBVIOUS
  <2> HIDE DEF lay, rb
  <2>2. Layout(0, lay, lay, rb)
    BY <1>1, <1>3, <2>1 DEF Layout
  <2>3. Filled(0, rb)
    BY <1>1, <1>3, <1>4, <2>1 DEF Filled
  <2>4. AtBlock(0, lay, lay, rb, 0) /\ 0 \in 0 .. 0
    BY <1>1, <1>3, <2>1 DEF AtBlock
  <2>5. WithBlocks
    BY <2>2, <2>3, <2>4 DEF WithBlocks
  <2> QED
    BY <1>1, <1>2, <1>3, <1>5, <2>5 DEF IInv
<1>6. CASE ~Compress
  <2>1. WithoutBlocks
    BY <1>1, <1>3, <1>4 DEF WithoutBlocks
  <2> QED
    BY <1>1, <1>2, <1>3, <1>6, <2>1 DEF IInv
<1> QED
  BY <1>5, <1>6

\* A flush adds a block to those that there are.
LEMMA FlushAddsBlock ==
  ASSUME TypeOK, Compress, NEW m, NEW lay, NEW fr, NEW rb, Layout(m, lay, fr, rb),
         NEW block \in Seq(Octet), flush(block), packed \in Seq(Record),
         packed' = packed \/ \E r \in Record : packed' = Append(packed, r),
         Part(packed', block, rb[m], Len(packed'))
  PROVE  /\ output' \in Seq(Octet \union {Opaque})
         /\ \A p \in DOMAIN frames' : p \in DOMAIN output' /\ frames'[p] \in Seq(Octet)
         /\ \E lay2, fr2, rb2 :
              /\ Layout(m + 1, lay2, fr2, rb2)'
              /\ \A k \in 0 .. m : lay2[k] = lay[k] /\ rb2[k] = rb[k]
              /\ rb2[m + 1] = Len(packed')
<1>1. PICK len \in FrameLengths :
        LET start == output \o encode(LenOctets, len)
        IN  /\ output' = start \o [i \in 1 .. len |-> Opaque]
            /\ frames' = Framed(Len(start) + 1, block)
  BY DEF flush
<1> DEFINE e == encode(LenOctets, len)
           start == output \o e
           tail == [i \in 1 .. len |-> Opaque]
           Cell == Octet \union {Opaque}
           f == Len(start) + 1
<1>2. len \in Nat \ {0} /\ len \in Encodable(3)
  <2>1. Encodable(3) \subseteq Nat
    <3>1. 2 * T * T * T \in Nat
      BY TopBitFacts
    <3> QED
      BY <3>1 DEF Encodable, T
  <2> QED
    BY <2>1, CodecAssumption
<1>3. e \in Seq(Octet) /\ Len(e) \in Nat \ {0} /\ e \in Seq(Cell)
  <2>1. e \in Seq(Octet) /\ Len(e) \in Nat \ {0}
    <3>1. 3 \in 1 .. 3 /\ LenOctets = 3
      BY DEF LenOctets
    <3>2. Decodes(3, len, encode(3, len))
      BY <1>2, <3>1, EncodeDecode
    <3>3. encode(3, len) \in Seq(Octet) /\ Len(encode(3, len)) \in 1 .. 3
      BY <3>2 DEF Decodes
    <3>4. e = encode(3, len)
      BY DEF LenOctets
    <3> HIDE DEF e
    <3>5. e \in Seq(Octet)
      BY <3>3, <3>4
    <3>6. Len(e) \in 1 .. 3
      BY <3>3, <3>4
    <3>7. \A x \in 1 .. 3 : x \in Nat \ {0}
      OBVIOUS
    <3> QED
      BY <3>5, <3>6, <3>7
  <2> HIDE DEF e
  <2> QED
    BY <2>1
<1>4. tail \in Seq(Cell) /\ Len(tail) = len
  BY <1>2
<1>5. output \in Seq(Cell) /\ Len(output) \in Nat
  BY DEF TypeOK
<1>6. output' = start \o tail /\ frames' = Framed(f, block)
  BY <1>1
<1> HIDE DEF e, tail
<1>7. /\ start \in Seq(Cell) /\ Len(start) = Len(output) + Len(e)
      /\ Agrees(start, output) /\ At(start, Len(output) + 1, e)
  <2> HIDE DEF Cell
  <2> QED
    BY <1>3, <1>5, ConcatAgrees
<1> HIDE DEF start
<1>8. /\ output' \in Seq(Cell) /\ Len(output') = Len(start) + len /\ Agrees(output', start)
  <2> HIDE DEF Cell
  <2> QED
    BY <1>4, <1>6, <1>7, ConcatAgrees
<1>9. Len(start) \in Nat /\ Len(output') \in Nat /\ f \in Nat \ {0}
      /\ f = Len(output) + 1 + Len(e)
  BY <1>2, <1>3, <1>5, <1>7, <1>8
<1>10. Agrees(output', output) /\ At(output', Len(output) + 1, e)
  <2>1. At(output', Len(output) + 1, e)
    BY <1>3, <1>7, <1>8, <1>9, AtAgrees
  <2>2. Len(output) <= Len(output') /\ \A j \in 1 .. Len(output) : j \in 1 .. Len(start)
    BY <1>2, <1>3, <1>5, <1>7, <1>8
  <2>3. \A j \in 1 .. Len(output) : output'[j] = output[j]
    BY <1>7, <1>8, <2>2 DEF Agrees
  <2> QED
    BY <2>1, <2>2, <2>3 DEF Agrees
<1>11. \A p \in DOMAIN frames : p \in 1 .. Len(output) /\ frames[p] \in Seq(Octet)
  BY <1>5 DEF TypeOK
<1>12. /\ DOMAIN frames' = DOMAIN frames \union {f} /\ frames'[f] = block
       /\ \A p \in DOMAIN frames : frames'[p] = frames[p]
  <2>1. f \notin DOMAIN frames
    BY <1>3, <1>5, <1>9, <1>11
  <2> HIDE DEF f
  <2> QED
    BY <1>6, <2>1 DEF Framed
<1>13. \A p \in DOMAIN frames' : p \in DOMAIN output' /\ frames'[p] \in Seq(Octet)
  <2>1. DOMAIN output' = 1 .. Len(output')
    BY <1>8
  <2>2. f \in 1 .. Len(output')
    BY <1>2, <1>8, <1>9
  <2>3. \A p \in 1 .. Len(output) : p \in 1 .. Len(output')
    BY <1>2, <1>3, <1>5, <1>7, <1>8
  <2> HIDE DEF f
  <2> QED
    BY <1>11, <1>12, <2>1, <2>2, <2>3
<1> HIDE DEF f, Cell
<1> DEFINE n == m + 1
<1>14. /\ m \in Nat
       /\ lay \in [0 .. m -> Nat \ {0}] /\ lay[0] = 1 /\ lay[m] = Len(output) + 1
       /\ rb \in [0 .. m -> Nat] /\ rb[0] = 0
       /\ \A k \in 0 .. m : rb[k] <= Len(packed)
       /\ \A k \in 1 .. m : BlockAt(lay[k - 1], fr[k], lay[k], rb[k - 1], rb[k])
  BY DEF Layout
<1>15. /\ n \in Nat /\ n \in 0 .. n /\ n \in 1 .. n /\ n - 1 = m /\ m # n
       /\ \A k \in 0 .. m : k \in 0 .. n /\ k # n
       /\ \A k \in 0 .. n : k = n \/ k \in 0 .. m
       /\ \A k \in 1 .. n : k = n \/ k \in 1 .. m
  BY <1>14
<1>16. Len(packed) \in Nat /\ Len(packed') \in Nat /\ Len(packed) <= Len(packed')
  OBVIOUS
<1> HIDE DEF n
<1>17. f + len \in Nat \ {0} /\ f + len = Len(output') + 1
  BY <1>2, <1>8, <1>9 DEF f
<1>18. PICK lay2, fr2, rb2 :
         /\ lay2 = [k \in 0 .. n |-> IF k = n THEN f + len ELSE lay[k]]
         /\ fr2 = [k \in 1 .. n |-> IF k = n THEN f ELSE fr[k]]
         /\ rb2 = [k \in 0 .. n |-> IF k = n THEN Len(packed') ELSE rb[k]]
  OBVIOUS
<1>19. \A k \in 0 .. m : lay2[k] = lay[k] /\ rb2[k] = rb[k]
  BY <1>15, <1>18
<1>20. lay2[n] = f + len /\ rb2[n] = Len(packed') /\ fr2[n] = f /\ \A k \in 1 .. m : fr2[k] = fr[k]
  BY <1>15, <1>18
<1>21. lay2 \in [0 .. n -> Nat \ {0}] /\ rb2 \in [0 .. n -> Nat]
  BY <1>14, <1>15, <1>16, <1>17, <1>18
<1>22. \A k \in 0 .. n : rb2[k] <= Len(packed')
  <2> TAKE k \in 0 .. n
  <2>1. CASE k = n
    BY <1>16, <1>20, <2>1
  <2>2. CASE k # n
    <3>1. k \in 0 .. m /\ rb2[k] \in Nat
      BY <1>15, <1>21, <2>2
    <3> QED
      BY <1>14, <1>16, <1>19, <3>1
  <2> QED
    BY <2>1, <2>2
<1>23. \A k \in 1 .. n : BlockAt(lay2[k - 1], fr2[k], lay2[k], rb2[k - 1], rb2[k])'
  <2> SUFFICES ASSUME NEW k \in 1 .. n
               PROVE  BlockAt(lay2[k - 1], fr2[k], lay2[k], rb2[k - 1], rb2[k])'
    OBVIOUS
  <2>1. CASE k = n
    <3>1. k - 1 = m /\ m \in 0 .. m
      BY <1>14, <1>15, <2>1
    <3>2. lay2[k - 1] = Len(output) + 1 /\ rb2[k - 1] = rb[m]
      BY <1>14, <1>19, <3>1
    <3>3. lay2[k] = f + len /\ rb2[k] = Len(packed') /\ fr2[k] = f
      BY <1>20, <2>1
    <3>4. f = (Len(output) + 1) + Len(e)
      BY <1>9
    <3>5. f \in DOMAIN frames' /\ frames'[f] = block
      BY <1>12
    <3> QED
      BY <1>10, <3>2, <3>3, <3>4, <3>5 DEF BlockAt, e
  <2>2. CASE k # n
    <3>1. k \in 1 .. m /\ k - 1 \in 0 .. m /\ k \in 0 .. m
      BY <1>14, <1>15, <2>2
    <3>2. /\ lay2[k - 1] = lay[k - 1] /\ lay2[k] = lay[k] /\ fr2[k] = fr[k]
          /\ rb2[k - 1] = rb[k - 1] /\ rb2[k] = rb[k]
      BY <1>19, <1>20, <3>1
    <3>3. BlockAt(lay[k - 1], fr[k], lay[k], rb[k - 1], rb[k]) /\ rb[k] <= Len(packed)
      BY <1>14, <3>1
    <3>4. PICK l \in FrameLengths : /\ At(output, lay[k - 1], encode(LenOctets, l))
                                    /\ fr[k] = lay[k - 1] + Len(encode(LenOctets, l))
                                    /\ lay[k] = fr[k] + l
      BY <3>3 DEF BlockAt
    <3>5. Len(encode(LenOctets, l)) \in Nat
      BY CodecAssumption, EncodeDecode DEF Decodes, LenOctets
    <3>6. At(output', lay[k - 1], encode(LenOctets, l))
      BY <1>5, <1>9, <1>10, <3>4, <3>5, AtAgrees
    <3>7. fr[k] \in DOMAIN frames' /\ frames'[fr[k]] = frames[fr[k]]
      BY <1>12, <3>3 DEF BlockAt
    <3>8. Part(packed', frames[fr[k]], rb[k - 1], rb[k])
      <4>1. Part(packed, frames[fr[k]], rb[k - 1], rb[k])
        BY <3>3 DEF BlockAt
      <4> QED
        BY <3>3, <4>1, PartKept
    <3> QED
      BY <3>2, <3>4, <3>6, <3>7, <3>8 DEF BlockAt
  <2> QED
    BY <2>1, <2>2
<1>24. Layout(n, lay2, fr2, rb2)'
  <2>1. /\ lay2[0] = 1 /\ rb2[0] = 0
    <3>1. 0 \in 0 .. m
      BY <1>14
    <3> QED
      BY <1>14, <1>19, <3>1
  <2> QED
    BY <1>15, <1>20, <1>17, <1>21, <1>22, <1>23, <2>1 DEF Layout
<1> QED
  BY <1>8, <1>13, <1>19, <1>20, <1>24 DEF n, Cell

-----------------------------------------------------------------------------
(***************************************************************************)
(* The compressor keeps it.                                                *)
(***************************************************************************)
\* What is true of a record that is added to the run.
LEMMA PackFacts ==
  ASSUME IInv, NEW record \in Records
  PROVE  /\ record \in Record
         /\ Delta(prev, record) \in Seq(Octet)
         /\ delta_transformed \o Delta(prev, record) \in Seq(Octet)
         /\ Append(packed, record) \in Seq(Records)
         /\ Rec(Append(packed, record), Len(Append(packed, record))) = record
         /\ Len(Append(packed, record)) = Len(packed) + 1
         /\ prev = Rec(packed, Len(packed))
<1>1. packed \in Seq(Record) /\ Len(packed) \in Nat /\ delta_transformed \in Seq(Octet)
  BY TypeFacts
<1>2. record \in Record /\ packed \in Seq(Records)
  BY CodecAssumption DEF Record, IInv, TypeOK
<1>3. prev = Rec(packed, Len(packed))
  BY DEF IInv
<1> DEFINE q == Append(packed, record)
           d == Delta(prev, record)
<1>4. q \in Seq(Record) /\ Len(q) = Len(packed) + 1 /\ q[Len(packed) + 1] = record /\ q \in Seq(Records)
  BY <1>1, <1>2
<1>5. Nth(q, Len(packed) + 1) = d
  BY <1>1, <1>2, <1>3, NthKept
<1>6. d \in Seq(Octet)
  <2>1. Len(packed) + 1 \in 1 .. Len(q)
    BY <1>1, <1>4
  <2> HIDE DEF q, d
  <2> QED
    BY <1>4, <1>5, <2>1, NthFacts
<1>7. Rec(q, Len(q)) = record
  <2>1. Len(packed) + 1 # 0
    BY <1>1
  <2> HIDE DEF q
  <2> QED
    BY <1>4, <2>1 DEF Rec
<1>8. delta_transformed \o d \in Seq(Octet)
  <2> HIDE DEF d
  <2> QED
    BY <1>1, <1>6
<1> QED
  BY <1>2, <1>3, <1>4, <1>6, <1>7, <1>8

\* The blocks stay when a record is added to the block that is being filled.
LEMMA LayoutKept ==
  ASSUME packed \in Seq(Record), NEW r \in Record, packed' = Append(packed, r),
         UNCHANGED <<output, frames>>,
         NEW m, NEW lay, NEW fr, NEW rb, Layout(m, lay, fr, rb)
  PROVE  Layout(m, lay, fr, rb)'
<1>1. /\ m \in Nat
      /\ lay \in [0 .. m -> Nat \ {0}] /\ lay[0] = 1 /\ lay[m] = Len(output) + 1
      /\ rb \in [0 .. m -> Nat] /\ rb[0] = 0
      /\ \A k \in 0 .. m : rb[k] <= Len(packed)
      /\ \A k \in 1 .. m : BlockAt(lay[k - 1], fr[k], lay[k], rb[k - 1], rb[k])
  BY DEF Layout
<1>2. Len(packed) \in Nat /\ Len(packed') = Len(packed) + 1
  OBVIOUS
<1>3. \A k \in 0 .. m : rb[k] <= Len(packed')
  <2> TAKE k \in 0 .. m
  <2>1. rb[k] \in Nat /\ rb[k] <= Len(packed)
    BY <1>1
  <2> QED
    BY <1>2, <2>1
<1>4. ASSUME NEW k \in 1 .. m PROVE BlockAt(lay[k - 1], fr[k], lay[k], rb[k - 1], rb[k])'
  <2>1. BlockAt(lay[k - 1], fr[k], lay[k], rb[k - 1], rb[k]) /\ rb[k] <= Len(packed)
    BY <1>1
  <2>2. Part(packed, frames[fr[k]], rb[k - 1], rb[k])
    BY <2>1 DEF BlockAt
  <2>3. Part(packed', frames[fr[k]], rb[k - 1], rb[k])
    BY <2>1, <2>2, PartKept
  <2> QED
    BY <2>1, <2>3 DEF BlockAt
<1> QED
  BY <1>1, <1>3, <1>4 DEF Layout

\* Packing a record keeps the invariant, whether it ends a block or not.
LEMMA PackKeeps ==
  ASSUME IInv, NEW record \in Records, pack(record)
  PROVE  IInv'
<1> DEFINE d == Delta(prev, record)
           block == delta_transformed \o d
           n == Len(packed)
<1>1. /\ pc = "pack" /\ packed' = Append(packed, record) /\ prev' = record
      /\ IF Len(block) > FlushSize
           THEN flush(block) /\ delta_transformed' = <<>>
           ELSE delta_transformed' = block /\ UNCHANGED <<output, frames>>
      /\ UNCHANGED <<Compress, raw_it, it, end, zbuffer, value, unpacked, pc>>
  BY DEF pack, reader
<1>2. /\ record \in Record /\ d \in Seq(Octet) /\ block \in Seq(Octet)
      /\ packed' \in Seq(Records) /\ Rec(packed', Len(packed')) = record
      /\ Len(packed') = n + 1 /\ prev = Rec(packed, n)
  BY <1>1, PackFacts
<1>3. /\ packed \in Seq(Record) /\ n \in Nat /\ delta_transformed \in Seq(Octet)
  BY TypeFacts
<1>4. ~Started /\ ~Started' /\ TypeOK /\ pc' = "pack"
      /\ raw_it = 1 /\ it = 1 /\ end = 1 /\ zbuffer = <<>> /\ value = Zeros /\ unpacked = <<>>
  BY <1>1 DEF Started, IInv
<1> HIDE DEF d
<1>5. ASSUME NEW s \in Seq(Octet), NEW a, Part(packed, s, a, n) PROVE Part(packed', s \o d, a, n + 1)
  BY <1>1, <1>2, <1>3, <1>5, PartMore DEF d
<1> HIDE DEF block, n
<1>6. SUFFICES /\ output' \in Seq(Octet \union {Opaque})
               /\ \A p \in DOMAIN frames' : p \in DOMAIN output' /\ frames'[p] \in Seq(Octet)
               /\ IF Compress THEN WithBlocks' ELSE WithoutBlocks'
  <2>1. delta_transformed' \in Seq(Octet)
    <3>1. delta_transformed' = <<>> \/ delta_transformed' = block
      BY <1>1
    <3>2. <<>> \in Seq(Octet)
      OBVIOUS
    <3> QED
      BY <1>2, <3>1, <3>2
  <2>2. prev' \in [Index -> Octet]
    BY <1>1, <1>2 DEF Record
  <2>3. TypeOK'
    BY <1>1, <1>2, <1>4, <1>6, <2>1, <2>2 DEF TypeOK
  <2> QED
    BY <1>1, <1>2, <1>4, <1>6, <2>3 DEF IInv
<1>7. CASE Compress
  <2>1. PICK m, lay, fr, rb : /\ Layout(m, lay, fr, rb) /\ Filled(m, rb)
                              /\ \E k \in 0 .. m : AtBlock(m, lay, fr, rb, k)
    BY <1>7 DEF IInv, WithBlocks
  <2>2. Part(packed, delta_transformed, rb[m], n) /\ \A k \in 1 .. m : rb[k - 1] < rb[k]
    BY <1>1, <2>1 DEF Filled, n
  <2>3. Part(packed', block, rb[m], n + 1)
    BY <1>3, <1>5, <2>2 DEF block
  <2>4. m \in Nat /\ lay[0] = 1 /\ rb[m] <= n /\ rb[m] \in Nat
    <3>1. m \in Nat => m \in 0 .. m
      OBVIOUS
    <3> QED
      BY <2>1, <3>1 DEF Layout, n
  <2>5. CASE Len(block) > FlushSize
    <3>1. flush(block) /\ delta_transformed' = <<>>
      BY <1>1, <2>5
    <3>2. /\ output' \in Seq(Octet \union {Opaque})
          /\ \A p \in DOMAIN frames' : p \in DOMAIN output' /\ frames'[p] \in Seq(Octet)
          /\ \E lay2, fr2, rb2 :
               /\ Layout(m + 1, lay2, fr2, rb2)'
               /\ \A k \in 0 .. m : lay2[k] = lay[k] /\ rb2[k] = rb[k]
               /\ rb2[m + 1] = Len(packed')
      <4>1. packed' = packed \/ \E r \in Record : packed' = Append(packed, r)
        BY <1>1, <1>2
      <4>2. Part(packed', block, rb[m], Len(packed'))
        BY <1>2, <2>3
      <4> QED
        BY <1>2, <1>3, <1>4, <1>7, <2>1, <3>1, <4>1, <4>2, FlushAddsBlock
    <3>3. PICK lay2, fr2, rb2 : /\ Layout(m + 1, lay2, fr2, rb2)'
                                /\ \A k \in 0 .. m : lay2[k] = lay[k] /\ rb2[k] = rb[k]
                                /\ rb2[m + 1] = Len(packed')
      BY <3>2
    <3>4. Filled(m + 1, rb2)'
      <4>1. Part(packed', <<>>, n + 1, n + 1)
        BY <1>3, PartNone DEF n
      <4>2. ASSUME NEW k \in 1 .. m + 1 PROVE rb2[k - 1] < rb2[k]
        <5>1. CASE k = m + 1
          <6>1. k - 1 = m /\ m \in 0 .. m
            BY <2>4, <5>1
          <6>2. rb2[k - 1] = rb[m] /\ rb2[k] = n + 1
            BY <1>2, <3>3, <5>1, <6>1
          <6> QED
            BY <1>3, <2>4, <6>2 DEF n
        <5>2. CASE k # m + 1
          <6>1. k \in 1 .. m /\ k - 1 \in 0 .. m /\ k \in 0 .. m
            BY <2>4, <5>2
          <6> QED
            BY <2>2, <3>3, <6>1
        <5> QED
          BY <5>1, <5>2
      <4> QED
        BY <1>2, <1>4, <3>1, <3>3, <4>1, <4>2 DEF Filled
    <3>5. AtBlock(m + 1, lay2, fr2, rb2, 0)' /\ 0 \in 0 .. m + 1
      <4>1. 0 \in 0 .. m + 1 /\ 0 \in 0 .. m
        BY <2>4
      <4>2. raw_it' = lay2[0]
        BY <1>1, <1>4, <2>4, <3>3, <4>1
      <4> QED
        BY <1>4, <4>1, <4>2 DEF AtBlock
    <3>6. WithBlocks'
      BY <3>3, <3>4, <3>5 DEF WithBlocks
    <3> QED
      BY <1>7, <3>2, <3>6
  <2>6. CASE ~(Len(block) > FlushSize)
    <3>1. delta_transformed' = block /\ UNCHANGED <<output, frames>>
      BY <1>1, <2>6
    <3>2. Layout(m, lay, fr, rb)'
      BY <1>1, <1>2, <1>3, <2>1, <3>1, LayoutKept
    <3>3. Filled(m, rb)'
      BY <1>2, <1>4, <2>2, <2>3, <3>1 DEF Filled
    <3>4. AtBlock(m, lay, fr, rb, 0)' /\ 0 \in 0 .. m
      <4>1. 0 \in 0 .. m
        BY <2>4
      <4> QED
        BY <1>1, <1>4, <2>4, <4>1 DEF AtBlock
    <3>5. WithBlocks'
      BY <3>2, <3>3, <3>4 DEF WithBlocks
    <3> QED
      BY <1>4, <1>7, <3>1, <3>5 DEF TypeOK
  <2> QED
    BY <2>5, <2>6
<1>8. CASE ~Compress
  <2>1. /\ output \in Seq(Octet) /\ frames = <<>>
        /\ Part(packed, output \o delta_transformed, 0, n)
    BY <1>1, <1>8 DEF IInv, WithoutBlocks, n
  <2>2. output \o block = (output \o delta_transformed) \o d /\ output \o block \in Seq(Octet)
        /\ output \o delta_transformed \in Seq(Octet) /\ (output \o block) \o <<>> = output \o block
    <3>1. output \o delta_transformed \in Seq(Octet)
          /\ output \o (delta_transformed \o d) = (output \o delta_transformed) \o d
      <4>1. d \in Seq(Octet) /\ output \in Seq(Octet) /\ delta_transformed \in Seq(Octet)
        BY <1>2, <1>3, <2>1
      <4>2. output \o (delta_transformed \o d) = (output \o delta_transformed) \o d
        BY <4>1, ConcatAssociative
      <4> QED
        BY <4>1, <4>2
    <3>2. output \o block \in Seq(Octet)
      BY <1>2, <2>1
    <3>3. (output \o block) \o <<>> = output \o block
      BY <3>2, ConcatEmptySeq
    <3> QED
      BY <3>1, <3>2, <3>3 DEF block
  <2>3. Part(packed', output \o block, 0, n + 1)
    BY <1>5, <2>1, <2>2
  <2>4. output' \o delta_transformed' = output \o block /\ output' \in Seq(Octet) /\ frames' = frames
    <3>1. CASE Len(block) > FlushSize
      <4>1. output' = output \o block /\ delta_transformed' = <<>> /\ frames' = frames
        BY <1>1, <1>8, <3>1 DEF flush
      <4> QED
        BY <2>2, <4>1
    <3>2. CASE ~(Len(block) > FlushSize)
      BY <1>1, <2>1, <3>2
    <3> QED
      BY <3>1, <3>2
  <2>5. WithoutBlocks'
    BY <1>2, <1>4, <2>1, <2>3, <2>4 DEF WithoutBlocks
  <2>6. output' \in Seq(Octet \union {Opaque})
    <3>1. Octet \subseteq Octet \union {Opaque}
      OBVIOUS
    <3> QED
      BY <2>4, <3>1
  <2>7. DOMAIN frames' = {}
    BY <2>1, <2>4
  <2> QED
    BY <1>8, <2>5, <2>6, <2>7
<1> QED
  BY <1>7, <1>8

\* So does the destructor.
LEMMA CloseKeeps ==
  ASSUME IInv, Close
  PROVE  IInv'
<1> DEFINE n == Len(packed)
<1>1. /\ pc = "pack" /\ flush(delta_transformed) /\ delta_transformed' = <<>> /\ pc' = "open"
      /\ UNCHANGED <<Compress, packed, prev, raw_it, it, end, zbuffer, value, unpacked>>
  BY DEF Close, reader
<1>2. /\ packed \in Seq(Record) /\ n \in Nat /\ delta_transformed \in Seq(Octet)
  BY TypeFacts
<1>3. ~Started /\ ~Started' /\ TypeOK /\ prev = Rec(packed, n)
      /\ raw_it = 1 /\ it = 1 /\ end = 1 /\ zbuffer = <<>> /\ value = Zeros /\ unpacked = <<>>
  BY <1>1 DEF Started, IInv
<1>4. SUFFICES /\ output' \in Seq(Octet \union {Opaque})
               /\ \A p \in DOMAIN frames' : p \in DOMAIN output' /\ frames'[p] \in Seq(Octet)
               /\ IF Compress THEN WithBlocks' ELSE WithoutBlocks'
  <2>1. TypeOK'
    BY <1>1, <1>3, <1>4 DEF TypeOK
  <2> QED
    BY <1>1, <1>3, <1>4, <2>1 DEF IInv
<1>5. CASE Compress
  <2>1. PICK m, lay, fr, rb : /\ Layout(m, lay, fr, rb) /\ Filled(m, rb)
                              /\ \E k \in 0 .. m : AtBlock(m, lay, fr, rb, k)
    BY <1>5 DEF IInv, WithBlocks
  <2>2. Part(packed, delta_transformed, rb[m], n) /\ \A k \in 1 .. m : rb[k - 1] < rb[k]
    BY <1>1, <2>1 DEF Filled
  <2>3. m \in Nat /\ lay[0] = 1
    BY <2>1 DEF Layout
  <2>4. /\ output' \in Seq(Octet \union {Opaque})
        /\ \A p \in DOMAIN frames' : p \in DOMAIN output' /\ frames'[p] \in Seq(Octet)
        /\ \E lay2, fr2, rb2 :
             /\ Layout(m + 1, lay2, fr2, rb2)'
             /\ \A k \in 0 .. m : lay2[k] = lay[k] /\ rb2[k] = rb[k]
             /\ rb2[m + 1] = Len(packed')
    <3>1. packed' = packed \/ \E r \in Record : packed' = Append(packed, r)
      BY <1>1
    <3>2. Part(packed', delta_transformed, rb[m], Len(packed'))
      BY <1>1, <2>2
    <3> QED
      BY <1>1, <1>2, <1>3, <1>5, <2>1, <3>1, <3>2, FlushAddsBlock
  <2>5. PICK lay2, fr2, rb2 : /\ Layout(m + 1, lay2, fr2, rb2)'
                              /\ \A k \in 0 .. m : lay2[k] = lay[k] /\ rb2[k] = rb[k]
                              /\ rb2[m + 1] = Len(packed')
    BY <2>4
  <2>6. Filled(m + 1, rb2)'
    <3>1. \A k \in 1 .. (m + 1) - 1 : rb2[k - 1] < rb2[k]
      <4> TAKE k \in 1 .. (m + 1) - 1
      <4>1. k \in 1 .. m /\ k - 1 \in 0 .. m /\ k \in 0 .. m
        BY <2>3
      <4> QED
        BY <2>2, <2>5, <4>1
    <3>2. m + 1 >= 1
      BY <2>3
    <3> QED
      BY <1>1, <2>5, <3>1, <3>2 DEF Filled
  <2>7. AtBlock(m + 1, lay2, fr2, rb2, 0)' /\ 0 \in 0 .. m + 1
    <3>1. 0 \in 0 .. m + 1 /\ 0 \in 0 .. m
      BY <2>3
    <3>2. raw_it' = lay2[0]
      BY <1>1, <1>3, <2>3, <2>5, <3>1
    <3> QED
      BY <1>3, <3>1, <3>2 DEF AtBlock
  <2>8. WithBlocks'
    BY <2>5, <2>6, <2>7 DEF WithBlocks
  <2> QED
    BY <1>5, <2>4, <2>8
<1>6. CASE ~Compress
  <2>1. /\ output \in Seq(Octet) /\ frames = <<>>
        /\ Part(packed, output \o delta_transformed, 0, n)
    BY <1>1, <1>6 DEF IInv, WithoutBlocks
  <2>2. output' = output \o delta_transformed /\ frames' = frames
    BY <1>1, <1>6 DEF flush
  <2>3. output' \in Seq(Octet)
    BY <1>2, <2>1, <2>2
  <2>4. WithoutBlocks'
    BY <1>1, <1>3, <2>1, <2>2, <2>3 DEF WithoutBlocks
  <2>5. output' \in Seq(Octet \union {Opaque})
    <3>1. Octet \subseteq Octet \union {Opaque}
      OBVIOUS
    <3> QED
      BY <2>3, <3>1
  <2>6. DOMAIN frames' = {}
    BY <2>1, <2>2
  <2> QED
    BY <1>6, <2>4, <2>5, <2>6
<1> QED
  BY <1>5, <1>6

-----------------------------------------------------------------------------
(***************************************************************************)
(* The decompressor keeps it.                                              *)
(***************************************************************************)
\* A block that is decompressed lies over what the buffer has held.
LEMMA OverFacts ==
  ASSUME NEW block \in Seq(Octet), NEW buffer \in Seq(Octet)
  PROVE  Over(block, buffer) \in Seq(Octet) /\ Agrees(Over(block, buffer), block)
<1> DEFINE rest == SubSeq(buffer, Len(block) + 1, Len(buffer))
<1>1. rest \in Seq(Octet)
  <2>1. Len(block) + 1 \in Int /\ Len(buffer) \in Int
        /\ \A i \in Len(block) + 1 .. Len(buffer) : buffer[i] \in Octet
    OBVIOUS
  <2> QED
    BY <2>1, SubSeqProperties
<1> HIDE DEF rest
<1>2. block \o rest \in Seq(Octet) /\ Agrees(block \o rest, block)
  BY <1>1, ConcatAgrees
<1> QED
  BY <1>2 DEF Over, rest

\* The block that is decompressed is the next of those that there are.
LEMMA RefillFacts ==
  ASSUME TypeOK, packed \in Seq(Record),
         NEW m, NEW lay, NEW fr, NEW rb, Layout(m, lay, fr, rb),
         NEW k \in 0 .. m, raw_it = lay[k], refill
  PROVE  /\ k + 1 \in 1 .. m /\ raw_it' = lay[k + 1]
         /\ fr[k + 1] \in DOMAIN frames /\ frames[fr[k + 1]] \in Seq(Octet)
         /\ zbuffer' \in Seq(Octet) /\ Agrees(zbuffer', frames[fr[k + 1]])
         /\ end' = Len(frames[fr[k + 1]]) + 1
         /\ Part(packed, frames[fr[k + 1]], rb[k], rb[k + 1]) /\ rb[k + 1] <= Len(packed)
<1> DEFINE len == decode(LenOctets, output, raw_it)
<1>1. /\ raw_it <= Len(output)
      /\ zbuffer' = Over(frames[len.next], zbuffer)
      /\ end' = Len(frames[len.next]) + 1
      /\ raw_it' = len.next + len.value
  BY DEF refill
<1>2. /\ m \in Nat /\ lay[m] = Len(output) + 1 /\ \A j \in 0 .. m : rb[j] <= Len(packed)
      /\ \A j \in 1 .. m : BlockAt(lay[j - 1], fr[j], lay[j], rb[j - 1], rb[j])
  BY DEF Layout
<1>3. Len(output) \in Nat
  BY DEF TypeOK
<1>4. k + 1 \in 1 .. m /\ (k + 1) - 1 = k /\ k + 1 \in 0 .. m
  <2>1. k # m
    BY <1>1, <1>2, <1>3
  <2> QED
    BY <1>2, <2>1
<1>5. BlockAt(lay[k], fr[k + 1], lay[k + 1], rb[k], rb[k + 1])
  BY <1>2, <1>4
<1>6. PICK l \in FrameLengths : /\ At(output, lay[k], encode(LenOctets, l))
                                /\ fr[k + 1] = lay[k] + Len(encode(LenOctets, l))
                                /\ lay[k + 1] = fr[k + 1] + l
  BY <1>5 DEF BlockAt
<1>7. Decodes(LenOctets, l, encode(LenOctets, l))
  BY CodecAssumption, EncodeDecode DEF LenOctets
<1>8. len = [value |-> l, next |-> fr[k + 1]]
  BY <1>6, <1>7 DEF Decodes
<1>9. len.next = fr[k + 1] /\ len.value = l
  BY <1>8
<1> HIDE DEF len
<1>10. fr[k + 1] \in DOMAIN frames /\ frames[fr[k + 1]] \in Seq(Octet) /\ zbuffer \in Seq(Octet)
  BY <1>5 DEF BlockAt, TypeOK
<1>11. zbuffer' \in Seq(Octet) /\ Agrees(zbuffer', frames[fr[k + 1]])
  BY <1>1, <1>9, <1>10, OverFacts
<1> QED
  BY <1>1, <1>2, <1>4, <1>5, <1>6, <1>9, <1>10, <1>11 DEF BlockAt

\* The records of the run that have been unpacked.
Unpacked(q) ==
  /\ unpacked \in Seq(Record) /\ Len(unpacked) <= Len(q)
  /\ \A i \in 1 .. Len(unpacked) : unpacked[i] = q[i]
  /\ value = Rec(q, Len(unpacked))

\* Unpacking from a buffer that holds the block yields the next record.
LEMMA UnpacksNext ==
  ASSUME packed \in Seq(Record), Unpacked(packed), NEW buffer \in Seq(Octet),
         NEW s, Len(s) \in Nat, NEW a, NEW b, b <= Len(packed), NEW pos, Marks(pos, packed, s, a, b),
         Agrees(buffer, s), Len(unpacked) \in a .. b, Len(unpacked) # b,
         unpack_internal(buffer, pos[Len(unpacked)])
  PROVE  /\ Len(unpacked') = Len(unpacked) + 1 /\ Len(unpacked') \in a .. b
         /\ it' = pos[Len(unpacked')] /\ pc' = pc
         /\ unpacked' \in Seq(Record)
         /\ \A i \in 1 .. Len(unpacked') : unpacked'[i] = packed[i]
         /\ value' = Rec(packed, Len(unpacked'))
<1> DEFINE n == Len(unpacked)
           from == Rec(packed, n)
           to == Rec(packed, n + 1)
<1>1. /\ unpacked \in Seq(Record) /\ value = from /\ n \in Nat /\ n <= Len(packed)
      /\ \A i \in 1 .. n : unpacked[i] = packed[i]
  BY DEF Unpacked
<1>2. a \in Nat /\ b \in Nat
      /\ \A i \in a + 1 .. b : At(s, pos[i - 1], Nth(packed, i)) /\ pos[i] = pos[i - 1] + Len(Nth(packed, i))
  BY DEF Marks
<1>3. Len(packed) \in Nat /\ Len(buffer) \in Nat
  OBVIOUS
<1> HIDE DEF n
<1>4. /\ n + 1 \in a + 1 .. b /\ (n + 1) - 1 = n /\ n + 1 \in a .. b
      /\ n + 1 \in 1 .. Len(packed) /\ n + 1 # 0 /\ n \in 0 .. Len(packed) /\ n + 1 \in 0 .. Len(packed)
  BY <1>1, <1>2, <1>3 DEF n
<1>5. At(s, pos[n], Nth(packed, n + 1)) /\ pos[n + 1] = pos[n] + Len(Nth(packed, n + 1))
  BY <1>2, <1>4
<1>6. Nth(packed, n + 1) = Delta(from, to) /\ to = packed[n + 1]
  BY <1>4 DEF Nth, Rec
<1>7. from \in Record /\ to \in Record /\ Len(Nth(packed, n + 1)) \in Nat
  <2> HIDE DEF from, to
  <2>1. Rec(packed, n) \in Record /\ Rec(packed, n + 1) \in Record
    BY <1>4, NthFacts
  <2>2. Len(Nth(packed, n + 1)) \in Nat
    BY <1>4, NthFacts
  <2> QED
    BY <2>1, <2>2 DEF from, to
<1> HIDE DEF from, to
<1>8. At(buffer, pos[n], Delta(from, to))
  BY <1>3, <1>5, <1>6, <1>7, AtAgrees
<1>9. unpack_internal(buffer, pos[n])
  BY DEF n
<1>10. /\ value' = to /\ unpacked' = Append(unpacked, to)
       /\ it' = pos[n] + Len(Delta(from, to)) /\ pc' = pc
  BY <1>1, <1>7, <1>8, <1>9, ReadsDelta DEF Record
<1>11. /\ Len(unpacked') = n + 1 /\ unpacked' \in Seq(Record) /\ unpacked'[n + 1] = to
       /\ \A i \in 1 .. n : unpacked'[i] = unpacked[i]
  BY <1>1, <1>7, <1>10 DEF n
<1>12. it' = pos[n + 1]
  BY <1>5, <1>6, <1>10
<1>13. \A i \in 1 .. n + 1 : unpacked'[i] = packed[i]
  <2> TAKE i \in 1 .. n + 1
  <2>1. i = n + 1 \/ i \in 1 .. n
    BY <1>1
  <2> QED
    BY <1>1, <1>6, <1>11, <2>1
<1> QED
  BY <1>4, <1>10, <1>11, <1>12, <1>13 DEF n, to

\* A part is read when the position is behind it, and not before.
LEMMA ReadingFacts ==
  ASSUME packed \in Seq(Record), NEW buffer, NEW s, Len(s) \in Nat, NEW a, NEW b, b <= Len(packed),
         Reading(buffer, s, a, b)
  PROVE  it = end <=> Len(unpacked) = b
<1>1. PICK pos : /\ Marks(pos, packed, s, a, b) /\ Len(unpacked) \in a .. b
                 /\ it = pos[Len(unpacked)] /\ end = Len(s) + 1
  BY DEF Reading
<1>2. pos[b] = Len(s) + 1 /\ a \in Nat /\ b \in Nat
  BY <1>1 DEF Marks
<1>3. CASE Len(unpacked) = b
  BY <1>1, <1>2, <1>3
<1>4. CASE Len(unpacked) # b
  <2>1. Len(unpacked) < b
    BY <1>1, <1>2, <1>4
  <2>2. pos[Len(unpacked)] <= Len(s) /\ pos[Len(unpacked)] \in 1 .. Len(s) + 1
    BY <1>1, <2>1, MarksFacts
  <2> QED
    BY <1>1, <1>4, <2>2
<1> QED
  BY <1>3, <1>4

\* Past the last block there is none.
LEMMA LastBlock ==
  ASSUME NEW m, NEW lay, NEW fr, NEW rb, Layout(m, lay, fr, rb), NEW k \in 0 .. m,
         Len(output) \in Nat
  PROVE  /\ k = m => lay[k] = Len(output) + 1
         /\ k # m => lay[k] <= Len(output)
<1>1. /\ m \in Nat /\ lay[m] = Len(output) + 1
      /\ \A j \in 1 .. m : BlockAt(lay[j - 1], fr[j], lay[j], rb[j - 1], rb[j])
  BY DEF Layout
<1>2. CASE k # m
  <2>1. k + 1 \in 1 .. m /\ (k + 1) - 1 = k
    BY <1>1, <1>2
  <2>2. PICK l \in FrameLengths : At(output, lay[k], encode(LenOctets, l))
    BY <1>1, <2>1 DEF BlockAt
  <2>3. Decodes(LenOctets, l, encode(LenOctets, l))
    BY CodecAssumption, EncodeDecode DEF LenOctets
  <2> DEFINE c == Len(encode(LenOctets, l))
  <2>4. c \in 1 .. LenOctets /\ lay[k] \in Nat /\ lay[k] + c <= Len(output) + 1
    BY <2>2, <2>3 DEF Decodes, At
  <2> HIDE DEF c
  <2>5. c \in Nat /\ c >= 1
    BY <2>4 DEF LenOctets
  <2> QED
    BY <1>2, <2>4, <2>5
<1> QED
  BY <1>1, <1>2

\* A reader does not change the blocks.
LEMMA LayoutStays ==
  ASSUME UNCHANGED <<packed, output, frames>>, pc # "pack", pc' # "pack",
         NEW m, NEW lay, NEW fr, NEW rb, Layout(m, lay, fr, rb), Filled(m, rb)
  PROVE  Layout(m, lay, fr, rb)' /\ Filled(m, rb)'
<1>1. Layout(m, lay, fr, rb)'
  BY DEF Layout, BlockAt
<1>2. Filled(m, rb)'
  BY DEF Filled
<1> QED
  BY <1>1, <1>2

\* Behind a block that has been read, every block has a record.
LEMMA NextBlockFull ==
  ASSUME TypeOK, packed \in Seq(Record), pc # "pack", ~EmptyLastBlock,
         NEW m, NEW lay, NEW fr, NEW rb, Layout(m, lay, fr, rb), Filled(m, rb),
         NEW k \in 1 .. m, k + 1 \in 1 .. m
  PROVE  rb[k] < rb[k + 1]
<1>1. /\ m \in Nat /\ rb \in [0 .. m -> Nat] /\ \A j \in 0 .. m : rb[j] <= Len(packed)
      /\ \A j \in 1 .. m : BlockAt(lay[j - 1], fr[j], lay[j], rb[j - 1], rb[j])
  BY DEF Layout
<1>2. rb[m] = Len(packed) /\ \A j \in 1 .. m - 1 : rb[j - 1] < rb[j]
  BY DEF Filled
<1>3. k \in 1 .. m - 1 /\ k \in 0 .. m /\ k - 1 \in 0 .. m /\ k + 1 \in 0 .. m /\ (k + 1) - 1 = k
  BY <1>1
<1>4. CASE k + 1 \in 1 .. m - 1
  BY <1>2, <1>3, <1>4
<1>5. CASE k + 1 \notin 1 .. m - 1
  <2>1. k + 1 = m
    BY <1>1, <1>3, <1>5
  <2>2. packed # <<>>
    <3>1. rb[k - 1] < rb[k] /\ rb[k - 1] \in Nat /\ rb[k] \in Nat /\ rb[k] <= Len(packed)
      BY <1>1, <1>2, <1>3
    <3>2. Len(packed) # 0
      BY <3>1
    <3> QED
      BY <3>2
  <2>3. BlockAt(lay[k], fr[k + 1], lay[k + 1], rb[k], rb[k + 1])
    BY <1>1, <1>3
  <2> DEFINE s == frames[fr[k + 1]]
  <2>4. fr[k + 1] \in DOMAIN frames /\ Part(packed, s, rb[k], rb[k + 1]) /\ s \in Seq(Octet)
    BY <2>3 DEF BlockAt, TypeOK
  <2>5. s # <<>>
    BY <2>2, <2>4 DEF EmptyLastBlock, Written
  <2> HIDE DEF s
  <2>6. Len(s) \in Nat /\ Len(s) # 0
    BY <2>4, <2>5, EmptySeq
  <2>7. rb[k + 1] <= Len(packed)
    BY <1>1, <1>3
  <2>8. rb[k] \in Nat /\ rb[k + 1] \in Nat /\ rb[k] <= rb[k + 1] /\ rb[k] # rb[k + 1]
    BY <2>4, <2>6, <2>7, PartEmpty
  <2> QED
    BY <2>8
<1> QED
  BY <1>4, <1>5

\* Opening a reader keeps the invariant.
LEMMA OpenKeeps ==
  ASSUME IInv, Open
  PROVE  IInv'
<1>1. /\ pc = "open" /\ it' = 1 /\ pc' = "unpack"
      /\ IF Compress THEN refill ELSE end' = Len(output) + 1 /\ UNCHANGED <<raw_it, zbuffer>>
      /\ UNCHANGED <<Compress, packed, prev, delta_transformed, output, frames>>
      /\ UNCHANGED <<value, unpacked>>
  BY DEF Open, writer
<1>2. /\ packed \in Seq(Record) /\ Len(packed) \in Nat /\ Len(output) \in Nat
  BY TypeFacts
<1>3. /\ TypeOK /\ prev = Rec(packed, Len(packed)) /\ ~Started /\ Started'
      /\ raw_it = 1 /\ value = Zeros /\ unpacked = <<>> /\ zbuffer = <<>>
      /\ pc # "pack" /\ pc' # "pack"
  BY <1>1 DEF Started, IInv
<1>4. prev' = Rec(packed', Len(packed'))
  BY <1>1, <1>3
<1>5. ReadSoFar'
  <2>1. unpacked' = <<>> /\ value' = Zeros /\ Len(unpacked') = 0 /\ packed' = packed
    BY <1>1, <1>3
  <2>2. pc' # "empty" /\ pc' # "overrun" /\ 0 <= Len(packed)
    BY <1>1, <1>2
  <2> QED
    BY <2>1, <2>2 DEF ReadSoFar, Rec
<1>6. SUFFICES /\ raw_it' \in Nat /\ end' \in Nat /\ zbuffer' \in Seq(Octet)
               /\ it' \in 1 .. Len(Buffer') + 1
               /\ IF Compress THEN WithBlocks' ELSE WithoutBlocks'
  <2>1. TypeOK'
    <3>1. /\ Compress' \in BOOLEAN /\ packed' \in Seq(Records) /\ prev' \in [Index -> Octet]
          /\ delta_transformed' \in Seq(Octet) /\ output' \in Seq(Octet \union {Opaque})
          /\ \A p \in DOMAIN frames' : p \in DOMAIN output' /\ frames'[p] \in Seq(Octet)
          /\ value' \in [Index -> Octet] /\ unpacked' \in Seq([Index -> Octet])
      BY <1>1, <1>3 DEF TypeOK
    <3> QED
      BY <1>1, <1>6, <3>1 DEF TypeOK
  <2> QED
    BY <1>1, <1>3, <1>4, <1>5, <1>6, <2>1 DEF IInv
<1>7. ASSUME NEW s, Len(s) \in Nat, NEW b, Part(packed, s, 0, b), end' = Len(s) + 1, NEW buffer, Agrees(buffer, s)
      PROVE  \E pos : /\ Marks(pos, packed, s, 0, b) /\ Agrees(buffer, s)
                      /\ Len(unpacked') \in 0 .. b
                      /\ it' = pos[Len(unpacked')] /\ end' = Len(s) + 1
  <2>1. PICK pos : Marks(pos, packed, s, 0, b)
    BY <1>7 DEF Part
  <2>2. pos[0] = 1 /\ b \in Nat
    BY <2>1 DEF Marks
  <2>3. Len(unpacked') = 0 /\ 0 \in 0 .. b /\ it' = 1
    BY <1>1, <1>3, <2>2
  <2> QED
    BY <1>7, <2>1, <2>2, <2>3
<1>8. CASE Compress
  <2>1. PICK m, lay, fr, rb : /\ Layout(m, lay, fr, rb) /\ Filled(m, rb)
                              /\ \E k \in 0 .. m : AtBlock(m, lay, fr, rb, k)
    BY <1>8 DEF IInv, WithBlocks
  <2>2. 0 \in 0 .. m /\ raw_it = lay[0] /\ rb[0] = 0 /\ lay \in [0 .. m -> Nat \ {0}] /\ m \in Nat
    <3>1. m \in Nat /\ rb[0] = 0 /\ lay \in [0 .. m -> Nat \ {0}]
      BY <2>1 DEF Layout
    <3> QED
      BY <1>3, <2>1, <3>1 DEF AtBlock
  <2>3. refill
    BY <1>1, <1>8
  <2>4. /\ 0 + 1 \in 1 .. m /\ raw_it' = lay[0 + 1]
        /\ fr[0 + 1] \in DOMAIN frames /\ frames[fr[0 + 1]] \in Seq(Octet)
        /\ zbuffer' \in Seq(Octet) /\ Agrees(zbuffer', frames[fr[0 + 1]])
        /\ end' = Len(frames[fr[0 + 1]]) + 1
        /\ Part(packed, frames[fr[0 + 1]], rb[0], rb[0 + 1])
    BY <1>2, <1>3, <2>1, <2>2, <2>3, RefillFacts
  <2> DEFINE s == frames[fr[1]]
  <2>5. /\ 1 \in 1 .. m /\ raw_it' = lay[1] /\ s \in Seq(Octet) /\ Agrees(zbuffer', s)
        /\ end' = Len(s) + 1 /\ Part(packed, s, 0, rb[1]) /\ zbuffer' \in Seq(Octet)
    BY <2>2, <2>4
  <2> HIDE DEF s
  <2>6. raw_it' \in Nat /\ end' \in Nat /\ Len(s) \in Nat
    <3>1. 1 \in 0 .. m
      BY <2>5
    <3> QED
      BY <2>2, <2>5, <3>1
  <2>7. it' \in 1 .. Len(Buffer') + 1
    <3>1. Buffer' = zbuffer' /\ Len(zbuffer') \in Nat
      BY <1>1, <1>8, <2>5 DEF Buffer
    <3> QED
      BY <1>1, <3>1
  <2>8. AtBlock(m, lay, fr, rb, 1)' /\ 1 \in 0 .. m
    <3>1. Reading(zbuffer, frames[fr[1]], rb[1 - 1], rb[1])'
      <4>1. frames'[fr[1]] = s /\ packed' = packed /\ rb[1 - 1] = 0
        BY <1>1, <2>2 DEF s
      <4>2. \E pos : /\ Marks(pos, packed, s, 0, rb[1]) /\ Agrees(zbuffer', s)
                     /\ Len(unpacked') \in 0 .. rb[1]
                     /\ it' = pos[Len(unpacked')] /\ end' = Len(s) + 1
        <5>1. PICK buffer : buffer = zbuffer'
          OBVIOUS
        <5> QED
          BY <1>7, <2>5, <2>6, <5>1
      <4> QED
        BY <4>1, <4>2 DEF Reading
    <3>2. 1 \in 0 .. m /\ 1 >= 1
      BY <2>5
    <3> QED
      BY <1>3, <2>5, <3>1, <3>2 DEF AtBlock
  <2>9. Layout(m, lay, fr, rb)' /\ Filled(m, rb)'
    BY <1>1, <1>3, <2>1, LayoutStays
  <2>10. WithBlocks'
    BY <2>8, <2>9 DEF WithBlocks
  <2> QED
    BY <1>8, <2>5, <2>6, <2>7, <2>10
<1>9. CASE ~Compress
  <2>1. /\ output \in Seq(Octet) /\ frames = <<>> /\ Part(packed, output, 0, Len(packed))
    BY <1>1, <1>3, <1>9 DEF IInv, WithoutBlocks
  <2>2. end' = Len(output) + 1 /\ UNCHANGED <<raw_it, zbuffer>>
    BY <1>1, <1>9
  <2>3. Reading(output, output, 0, Len(packed))'
    <3>1. Agrees(output, output)
      BY <1>2 DEF Agrees
    <3>2. \E pos : /\ Marks(pos, packed, output, 0, Len(packed)) /\ Agrees(output, output)
                   /\ Len(unpacked') \in 0 .. Len(packed)
                   /\ it' = pos[Len(unpacked')] /\ end' = Len(output) + 1
      BY <1>2, <1>7, <2>1, <2>2, <3>1
    <3>3. output' = output /\ packed' = packed
      BY <1>1
    <3> QED
      BY <3>2, <3>3 DEF Reading
  <2>4. WithoutBlocks'
    BY <1>1, <1>3, <2>1, <2>3 DEF WithoutBlocks
  <2>5. it' \in 1 .. Len(Buffer') + 1
    <3>1. Buffer' = output
      BY <1>1, <1>9 DEF Buffer
    <3> QED
      BY <1>1, <1>2, <3>1
  <2>6. raw_it' \in Nat /\ end' \in Nat /\ zbuffer' \in Seq(Octet)
    BY <1>2, <1>3, <2>2 DEF TypeOK
  <2> QED
    BY <1>9, <2>4, <2>5, <2>6
<1> QED
  BY <1>8, <1>9

\* So does finding the end of the run.
LEMMA EmptyKeeps ==
  ASSUME IInv, Empty
  PROVE  IInv'
<1>1. /\ pc = "unpack" /\ it = end /\ (~Compress \/ raw_it > Len(output)) /\ pc' = "empty"
      /\ UNCHANGED <<Compress, packed, prev, delta_transformed, output, frames>>
      /\ UNCHANGED <<raw_it, it, end, zbuffer, value, unpacked>>
  BY DEF Empty, writer, reader
<1>2. packed \in Seq(Record) /\ Len(packed) \in Nat /\ Len(output) \in Nat
  BY TypeFacts
<1>3. Started /\ Started' /\ (EmptyLastBlock' <=> EmptyLastBlock) /\ pc # "pack" /\ pc' # "pack" /\ pc' # "unpack"
  BY <1>1 DEF Started, EmptyLastBlock, Written
<1>4. TypeOK' /\ prev' = Rec(packed', Len(packed'))
  BY <1>1 DEF IInv, TypeOK
<1>5. ASSUME NEW buffer, NEW s, NEW a, NEW b, Reading(buffer, s, a, b)
      PROVE  Len(unpacked) \in a .. b
  BY <1>5 DEF Reading
<1>6. CASE Compress
  <2>1. PICK m, lay, fr, rb : /\ Layout(m, lay, fr, rb) /\ Filled(m, rb)
                              /\ \E k \in 0 .. m : AtBlock(m, lay, fr, rb, k)
    BY <1>6 DEF IInv, WithBlocks
  <2>2. PICK k \in 0 .. m : AtBlock(m, lay, fr, rb, k)
    BY <2>1
  <2>3. k = m /\ raw_it = lay[k]
    <3>1. raw_it = lay[k]
      BY <2>2 DEF AtBlock
    <3>2. /\ k # m => lay[k] <= Len(output)
          /\ raw_it \in Nat
      BY <1>2, <2>1, LastBlock DEF IInv, TypeOK
    <3> QED
      BY <1>1, <1>2, <1>6, <3>1, <3>2
  <2>4. ASSUME ~EmptyLastBlock PROVE Len(unpacked) = Len(packed)
    <3> DEFINE s == frames[fr[k]]
    <3>1. k >= 1 /\ Reading(zbuffer, s, rb[k - 1], rb[k])
      BY <1>3, <2>2, <2>4 DEF AtBlock
    <3>2. m \in Nat /\ rb[m] = Len(packed) /\ BlockAt(lay[k - 1], fr[k], lay[k], rb[k - 1], rb[k])
      BY <1>3, <2>1, <2>3, <3>1 DEF Layout, Filled
    <3>3. s \in Seq(Octet)
      BY <3>2 DEF BlockAt, IInv, TypeOK
    <3> HIDE DEF s
    <3>4. Len(s) \in Nat /\ rb[k] <= Len(packed)
      BY <1>2, <2>3, <3>2, <3>3
    <3>5. Len(unpacked) = rb[k]
      BY <1>1, <1>2, <3>1, <3>4, ReadingFacts
    <3> QED
      BY <2>3, <3>2, <3>5
  <2>5. AtBlock(m, lay, fr, rb, k)'
    BY <1>1, <1>3, <2>2 DEF AtBlock, Reading
  <2>6. Layout(m, lay, fr, rb)' /\ Filled(m, rb)'
    BY <1>1, <1>3, <2>1, LayoutStays
  <2>7. WithBlocks'
    BY <2>5, <2>6 DEF WithBlocks
  <2>8. ASSUME ~EmptyLastBlock PROVE ReadSoFar'
    BY <1>1, <1>3, <2>4, <2>8 DEF IInv, ReadSoFar
  <2> QED
    BY <1>1, <1>3, <1>4, <1>6, <2>7, <2>8 DEF IInv
<1>7. CASE ~Compress
  <2>1. WithoutBlocks /\ Reading(output, output, 0, Len(packed)) /\ frames = <<>> /\ output \in Seq(Octet)
    BY <1>3, <1>7 DEF IInv, WithoutBlocks
  <2>2. ~EmptyLastBlock
    BY <2>1 DEF EmptyLastBlock
  <2>3. Len(unpacked) = Len(packed)
    BY <1>1, <1>2, <2>1, ReadingFacts
  <2>4. ReadSoFar'
    BY <1>1, <1>3, <2>2, <2>3 DEF IInv, ReadSoFar
  <2>5. WithoutBlocks'
    BY <1>1, <1>3, <2>1 DEF WithoutBlocks, Reading
  <2> QED
    BY <1>1, <1>3, <1>4, <1>7, <2>4, <2>5 DEF IInv
<1> QED
  BY <1>6, <1>7

\* So does unpacking a record, from the block at hand or the next.
LEMMA UnpackKeeps ==
  ASSUME IInv, Unpack
  PROVE  IInv'
<1>1. /\ pc = "unpack"
      /\ UNCHANGED <<Compress, packed, prev, delta_transformed, output, frames>>
  BY DEF Unpack, writer
<1>2. packed \in Seq(Record) /\ Len(packed) \in Nat /\ Len(output) \in Nat
  BY TypeFacts
<1>3. /\ TypeOK /\ Started /\ pc # "pack" /\ prev = Rec(packed, Len(packed))
      /\ it \in 1 .. Len(Buffer) + 1 /\ value \in [Index -> Octet] /\ unpacked \in Seq(Record)
      /\ zbuffer \in Seq(Octet) /\ raw_it \in Nat /\ end \in Nat
  BY <1>1 DEF IInv, TypeOK, Started, Record
<1>4. Buffer \in Seq(Octet)
  BY <1>3 DEF IInv, WithoutBlocks, Buffer
<1>5. PICK buffer, p :
        /\ buffer \in Seq(Octet) /\ p \in 1 .. Len(buffer) + 1
        /\ unpack_internal(buffer, p) /\ buffer = Buffer'
        /\ raw_it' \in Nat /\ end' \in Nat /\ zbuffer' \in Seq(Octet)
        /\ \/ /\ it # end /\ buffer = Buffer /\ p = it
              /\ UNCHANGED <<raw_it, end, zbuffer>>
           \/ it = end /\ refill /\ buffer = zbuffer' /\ p = 1
  <2>1. CASE it # end /\ unpack_internal(Buffer, it) /\ UNCHANGED <<raw_it, end, zbuffer>>
    <3>1. Buffer' = Buffer
      BY <1>1, <2>1 DEF Buffer
    <3> QED
      BY <1>3, <1>4, <2>1, <3>1
  <2>2. CASE it = end /\ refill /\ unpack_internal(zbuffer', 1)
    <3>1. Compress /\ Buffer' = zbuffer'
      BY <1>1, <2>2 DEF refill, Buffer
    <3>2. PICK m, lay, fr, rb : /\ Layout(m, lay, fr, rb) /\ Filled(m, rb)
                                /\ \E k \in 0 .. m : AtBlock(m, lay, fr, rb, k)
      BY <3>1 DEF IInv, WithBlocks
    <3>3. PICK k \in 0 .. m : AtBlock(m, lay, fr, rb, k)
      BY <3>2
    <3>4. raw_it = lay[k]
      BY <3>3 DEF AtBlock
    <3>5. /\ k + 1 \in 1 .. m /\ raw_it' = lay[k + 1] /\ zbuffer' \in Seq(Octet)
          /\ frames[fr[k + 1]] \in Seq(Octet) /\ end' = Len(frames[fr[k + 1]]) + 1
      <4>1. refill
        BY <2>2
      <4> QED
        BY <1>2, <1>3, <3>2, <3>4, <4>1, RefillFacts
    <3>6. raw_it' \in Nat /\ end' \in Nat
      <4>1. lay \in [0 .. m -> Nat \ {0}] /\ k + 1 \in 0 .. m
        <5>1. m \in Nat /\ lay \in [0 .. m -> Nat \ {0}]
          BY <3>2 DEF Layout
        <5> QED
          BY <3>5, <5>1
      <4>2. lay[k + 1] \in Nat
        BY <4>1
      <4> QED
        BY <3>5, <4>2
    <3>7. PICK buffer : buffer = zbuffer'
      OBVIOUS
    <3>8. buffer \in Seq(Octet) /\ 1 \in 1 .. Len(buffer) + 1
      BY <3>5, <3>7
    <3> QED
      BY <2>2, <3>1, <3>5, <3>6, <3>7, <3>8
  <2> QED
    BY <2>1, <2>2 DEF Unpack, Buffer
<1>6. \/ pc' = "overrun" /\ UNCHANGED <<it, value, unpacked>>
      \/ /\ pc' = pc /\ it' \in 1 .. Len(buffer) + 1 /\ value' \in [Index -> Octet]
         /\ unpacked' = Append(unpacked, value')
  BY <1>3, <1>5, ReadsSomething
<1>7. /\ pc' \in {"unpack", "overrun"} /\ it' \in Nat /\ value' \in [Index -> Octet]
      /\ unpacked' \in Seq([Index -> Octet])
      /\ pc' = "unpack" => it' \in 1 .. Len(Buffer') + 1
  <2>1. CASE pc' = "overrun" /\ UNCHANGED <<it, value, unpacked>>
    BY <1>3, <2>1 DEF TypeOK
  <2>2. CASE pc' # "overrun"
    <3>1. /\ pc' = pc /\ it' \in 1 .. Len(buffer) + 1 /\ value' \in [Index -> Octet]
          /\ unpacked' = Append(unpacked, value')
      BY <1>6, <2>2
    <3>2. unpacked' \in Seq([Index -> Octet])
      BY <1>3, <3>1 DEF Record
    <3> QED
      <4>1. it' \in Nat /\ it' \in 1 .. Len(Buffer') + 1
        BY <1>5, <3>1
      <4> QED
        BY <1>1, <3>1, <3>2, <4>1
  <2> QED
    BY <1>1, <1>6, <2>1, <2>2
<1>8. TypeOK'
  <2>1. /\ Compress' \in BOOLEAN /\ packed' \in Seq(Records) /\ prev' \in [Index -> Octet]
        /\ delta_transformed' \in Seq(Octet) /\ output' \in Seq(Octet \union {Opaque})
        /\ \A q \in DOMAIN frames' : q \in DOMAIN output' /\ frames'[q] \in Seq(Octet)
    BY <1>1, <1>3 DEF TypeOK
  <2> QED
    BY <1>5, <1>7, <2>1 DEF TypeOK
<1>9. /\ Started' /\ pc' # "pack" /\ pc' # "empty" /\ prev' = Rec(packed', Len(packed'))
      /\ EmptyLastBlock' <=> EmptyLastBlock
  BY <1>1, <1>3, <1>7 DEF Started, EmptyLastBlock, Written
<1>10. SUFFICES /\ ~EmptyLastBlock => ReadSoFar'
                /\ IF Compress THEN WithBlocks' ELSE WithoutBlocks'
  BY <1>1, <1>7, <1>8, <1>9, <1>10 DEF IInv
<1>11. ~EmptyLastBlock => Unpacked(packed) /\ ReadSoFar
  BY <1>3 DEF IInv, ReadSoFar, Unpacked
\* Reading one more record of a block s of the records from a + 1 to b.
<1>12. ASSUME ~EmptyLastBlock,
              NEW s, Len(s) \in Nat, NEW a, NEW b, b <= Len(packed), NEW pos, Marks(pos, packed, s, a, b),
              Agrees(buffer, s), Len(unpacked) \in a .. b, Len(unpacked) # b, p = pos[Len(unpacked)],
              end' = Len(s) + 1
       PROVE  /\ ReadSoFar'
              /\ \E mark : /\ Marks(mark, packed, s, a, b) /\ Agrees(buffer, s)
                           /\ Len(unpacked') \in a .. b
                           /\ it' = mark[Len(unpacked')] /\ end' = Len(s) + 1
  <2>1. /\ Len(unpacked') = Len(unpacked) + 1 /\ Len(unpacked') \in a .. b
        /\ it' = pos[Len(unpacked')] /\ pc' = pc
        /\ \A i \in 1 .. Len(unpacked') : unpacked'[i] = packed[i]
        /\ value' = Rec(packed, Len(unpacked'))
    BY <1>2, <1>5, <1>11, <1>12, UnpacksNext
  <2>2. Len(unpacked') <= Len(packed)
    <3>1. a \in Nat /\ b \in Nat
      BY <1>12 DEF Marks
    <3> QED
      BY <1>2, <1>12, <2>1, <3>1
  <2>3. ReadSoFar'
    BY <1>1, <1>9, <2>1, <2>2 DEF ReadSoFar
  <2> QED
    BY <1>12, <2>1, <2>3
<1>13. CASE Compress
  <2>1. PICK m, lay, fr, rb : /\ Layout(m, lay, fr, rb) /\ Filled(m, rb)
                              /\ \E k \in 0 .. m : AtBlock(m, lay, fr, rb, k)
    BY <1>13 DEF IInv, WithBlocks
  <2>2. PICK k \in 0 .. m : AtBlock(m, lay, fr, rb, k)
    BY <2>1
  <2>3. Layout(m, lay, fr, rb)' /\ Filled(m, rb)'
    BY <1>1, <1>3, <1>9, <2>1, LayoutStays
  <2>4. raw_it = lay[k] /\ (~EmptyLastBlock => k >= 1 /\ Reading(zbuffer, frames[fr[k]], rb[k - 1], rb[k]))
    BY <1>3, <2>2 DEF AtBlock
  <2>5. /\ m \in Nat
        /\ \A j \in 1 .. m : BlockAt(lay[j - 1], fr[j], lay[j], rb[j - 1], rb[j])
        /\ \A j \in 0 .. m : rb[j] <= Len(packed)
    BY <2>1 DEF Layout
  <2>6. CASE it # end /\ buffer = Buffer /\ p = it /\ UNCHANGED <<raw_it, end, zbuffer>>
    <3>1. ASSUME ~EmptyLastBlock
          PROVE  ReadSoFar' /\ Reading(zbuffer, frames[fr[k]], rb[k - 1], rb[k])'
      <4> DEFINE s == frames[fr[k]]
                 a == rb[k - 1]
                 b == rb[k]
      <4>1. k >= 1 /\ Reading(zbuffer, s, a, b)
        BY <2>4, <3>1
      <4>2. fr[k] \in DOMAIN frames /\ s \in Seq(Octet) /\ b <= Len(packed)
        <5>1. k \in 1 .. m
          BY <2>5, <4>1
        <5>2. BlockAt(lay[k - 1], fr[k], lay[k], rb[k - 1], rb[k])
          BY <2>5, <5>1
        <5>3. fr[k] \in DOMAIN frames
          BY <5>2 DEF BlockAt
        <5>4. k \in 0 .. m
          BY <5>1
        <5>5. frames[fr[k]] \in Seq(Octet)
          BY <1>3, <5>3 DEF TypeOK
        <5>6. rb[k] <= Len(packed)
          BY <2>5, <5>4
        <5> QED
          BY <5>3, <5>5, <5>6
      <4>3. frames'[fr[k]] = s /\ packed' = packed /\ zbuffer' = buffer /\ buffer = zbuffer
        BY <1>1, <1>13, <2>6 DEF Buffer
      <4> HIDE DEF s, a, b
      <4>4. Len(s) \in Nat /\ Len(unpacked) # b
        <5>1. Len(s) \in Nat
          BY <4>2
        <5> QED
          BY <1>2, <2>6, <4>1, <4>2, <5>1, ReadingFacts
      <4>5. PICK pos : /\ Marks(pos, packed, s, a, b) /\ Agrees(zbuffer, s)
                       /\ Len(unpacked) \in a .. b
                       /\ it = pos[Len(unpacked)] /\ end = Len(s) + 1
        BY <4>1 DEF Reading
      <4>6. /\ ReadSoFar'
            /\ \E mark : /\ Marks(mark, packed, s, a, b) /\ Agrees(buffer, s)
                         /\ Len(unpacked') \in a .. b
                         /\ it' = mark[Len(unpacked')] /\ end' = Len(s) + 1
        BY <1>12, <2>6, <3>1, <4>2, <4>3, <4>4, <4>5
      <4> QED
        BY <4>3, <4>6 DEF Reading, s, a, b
    <3>2. AtBlock(m, lay, fr, rb, k)'
      BY <1>9, <2>4, <2>6, <3>1 DEF AtBlock
    <3> QED
      BY <1>13, <2>3, <3>1, <3>2 DEF WithBlocks
  <2>7. CASE it = end /\ refill /\ buffer = zbuffer' /\ p = 1
    <3>1. /\ k + 1 \in 1 .. m /\ raw_it' = lay[k + 1]
          /\ fr[k + 1] \in DOMAIN frames /\ frames[fr[k + 1]] \in Seq(Octet)
          /\ Agrees(zbuffer', frames[fr[k + 1]])
          /\ end' = Len(frames[fr[k + 1]]) + 1
          /\ Part(packed, frames[fr[k + 1]], rb[k], rb[k + 1]) /\ rb[k + 1] <= Len(packed)
      BY <1>2, <1>3, <2>1, <2>4, <2>7, RefillFacts
    <3>2. (k + 1) - 1 = k /\ k + 1 \in 0 .. m /\ k + 1 >= 1
      BY <2>5, <3>1
    <3>3. ASSUME ~EmptyLastBlock
          PROVE  ReadSoFar' /\ Reading(zbuffer, frames[fr[k + 1]], rb[(k + 1) - 1], rb[k + 1])'
      <4> DEFINE s == frames[fr[k + 1]]
                 a == rb[k]
                 b == rb[k + 1]
      <4>1. k \in 1 .. m /\ Reading(zbuffer, frames[fr[k]], rb[k - 1], rb[k])
        BY <2>4, <2>5, <3>3
      <4>2. Len(unpacked) = a
        <5>1. BlockAt(lay[k - 1], fr[k], lay[k], rb[k - 1], rb[k]) /\ rb[k] <= Len(packed)
          BY <2>5, <4>1
        <5>2. frames[fr[k]] \in Seq(Octet)
          BY <1>3, <5>1 DEF BlockAt, TypeOK
        <5>3. Len(frames[fr[k]]) \in Nat
          BY <5>2
        <5> QED
          BY <1>2, <2>7, <4>1, <5>1, <5>3, ReadingFacts
      <4>3. a < b
        BY <1>2, <1>3, <2>1, <3>1, <3>3, <4>1, NextBlockFull
      <4>4. frames'[fr[k + 1]] = s /\ packed' = packed
        BY <1>1
      <4> HIDE DEF s, a, b
      <4>5. s \in Seq(Octet) /\ Len(s) \in Nat /\ Agrees(buffer, s) /\ end' = Len(s) + 1
            /\ Part(packed, s, a, b) /\ b <= Len(packed)
        BY <2>7, <3>1 DEF s, a, b
      <4>6. PICK pos : Marks(pos, packed, s, a, b)
        BY <4>5 DEF Part
      <4>7. a \in a .. b /\ a # b /\ pos[a] = 1
        <5>1. a \in Nat /\ b \in Nat /\ pos[a] = 1
          BY <4>6 DEF Marks
        <5> QED
          BY <4>3, <5>1
      <4>8. /\ ReadSoFar'
            /\ \E mark : /\ Marks(mark, packed, s, a, b) /\ Agrees(buffer, s)
                         /\ Len(unpacked') \in a .. b
                         /\ it' = mark[Len(unpacked')] /\ end' = Len(s) + 1
        BY <1>12, <2>7, <3>3, <4>2, <4>5, <4>6, <4>7
      <4> QED
        BY <2>7, <3>2, <4>4, <4>8 DEF Reading, s, a, b
    <3>4. AtBlock(m, lay, fr, rb, k + 1)'
      BY <1>9, <3>1, <3>2, <3>3 DEF AtBlock
    <3> QED
      BY <1>13, <2>3, <3>2, <3>3, <3>4 DEF WithBlocks
  <2> QED
    BY <1>5, <2>6, <2>7
<1>14. CASE ~Compress
  <2>1. WithoutBlocks /\ Reading(output, output, 0, Len(packed)) /\ frames = <<>> /\ output \in Seq(Octet)
    BY <1>3, <1>14 DEF IInv, WithoutBlocks
  <2>2. ~EmptyLastBlock
    BY <2>1 DEF EmptyLastBlock
  <2>3. it # end /\ buffer = output /\ p = it /\ UNCHANGED <<raw_it, end, zbuffer>>
    BY <1>5, <1>14 DEF refill, Buffer
  <2>4. Len(unpacked) # Len(packed)
    BY <1>2, <2>1, <2>3, ReadingFacts
  <2>5. PICK pos : /\ Marks(pos, packed, output, 0, Len(packed)) /\ Agrees(output, output)
                   /\ Len(unpacked) \in 0 .. Len(packed)
                   /\ it = pos[Len(unpacked)] /\ end = Len(output) + 1
    BY <2>1 DEF Reading
  <2>6. /\ ReadSoFar'
        /\ \E mark : /\ Marks(mark, packed, output, 0, Len(packed)) /\ Agrees(buffer, output)
                     /\ Len(unpacked') \in 0 .. Len(packed)
                     /\ it' = mark[Len(unpacked')] /\ end' = Len(output) + 1
    <3>1. Len(packed) <= Len(packed)
      BY <1>2
    <3>2. PICK s : s = output
      OBVIOUS
    <3>3. PICK b : b = Len(packed)
      OBVIOUS
    <3> QED
      BY <1>2, <1>12, <2>2, <2>3, <2>4, <2>5, <3>1, <3>2, <3>3
  <2>7. Reading(output, output, 0, Len(packed))'
    <3>1. output' = output /\ packed' = packed
      BY <1>1
    <3> QED
      BY <2>3, <2>6, <3>1 DEF Reading
  <2>8. WithoutBlocks'
    BY <1>1, <1>3, <1>9, <2>1, <2>7 DEF WithoutBlocks
  <2> QED
    BY <1>14, <2>6, <2>8
<1> QED
  BY <1>13, <1>14

-----------------------------------------------------------------------------
(***************************************************************************)
(* What follows for every run.                                             *)
(***************************************************************************)
\* Every step keeps it.
LEMMA StepKeeps == IInv /\ [Next]_vars => IInv'
<1> SUFFICES ASSUME IInv, [Next]_vars PROVE IInv'
  OBVIOUS
<1>1. CASE \E record \in Records : pack(record)
  BY <1>1, PackKeeps
<1>2. CASE Close
  BY <1>2, CloseKeeps
<1>3. CASE Open
  BY <1>3, OpenKeeps
<1>4. CASE Unpack
  BY <1>4, UnpackKeeps
<1>5. CASE Empty
  BY <1>5, EmptyKeeps
<1>6. CASE UNCHANGED vars
  <2>1. /\ UNCHANGED <<Compress, packed, prev, delta_transformed, output, frames>>
        /\ UNCHANGED <<raw_it, it, end, zbuffer, value, unpacked, pc>>
    BY <1>6 DEF vars, writer, reader
  <2>2. WithBlocks => WithBlocks'
    <3> SUFFICES ASSUME WithBlocks PROVE WithBlocks'
      OBVIOUS
    <3>1. PICK m, lay, fr, rb : /\ Layout(m, lay, fr, rb) /\ Filled(m, rb)
                                /\ \E k \in 0 .. m : AtBlock(m, lay, fr, rb, k)
      BY DEF WithBlocks
    <3>2. PICK k \in 0 .. m : AtBlock(m, lay, fr, rb, k)
      BY <3>1
    <3>3. Layout(m, lay, fr, rb)'
      BY <2>1, <3>1 DEF Layout, BlockAt
    <3>4. Filled(m, rb)'
      BY <2>1, <3>1 DEF Filled
    <3>5. AtBlock(m, lay, fr, rb, k)'
      BY <2>1, <3>2 DEF AtBlock, Reading, Started, EmptyLastBlock, Written
    <3> QED
      BY <3>3, <3>4, <3>5 DEF WithBlocks
  <2>3. WithoutBlocks => WithoutBlocks'
    BY <2>1 DEF WithoutBlocks, Reading, Started
  <2>4. /\ TypeOK' /\ (Started' <=> Started) /\ (EmptyLastBlock' <=> EmptyLastBlock)
        /\ (ReadSoFar => ReadSoFar') /\ Buffer' = Buffer
    BY <2>1 DEF IInv, TypeOK, Started, EmptyLastBlock, Written, ReadSoFar, Buffer
  <2> QED
    BY <2>1, <2>2, <2>3, <2>4 DEF IInv
<1> QED
  BY <1>1, <1>2, <1>3, <1>4, <1>5, <1>6 DEF Next

\* The invariant of the codec: where each record is and how far the reader is.
THEOREM CodecInvariant == Spec => []IInv
<1> QED
  BY InitFirst, StepKeeps, PTL DEF Spec

\* Every variable of the compressor and of the decompressor holds a value of
\* its kind (compress.h); in particular no frame is looked up that is not there.
THEOREM CodecTyped == Spec => []TypeOK
<1>1. IInv => TypeOK
  BY DEF IInv
<1> QED
  BY <1>1, CodecInvariant, PTL

\* The first records, one by one, are a prefix.
LEMMA RoundTripFollows == IInv => RoundTrip
<1> SUFFICES ASSUME IInv, ~EmptyLastBlock
             PROVE  /\ IsPrefix(unpacked, packed)
                    /\ pc = "empty" => unpacked = packed
                    /\ pc # "overrun"
  BY DEF RoundTrip
<1> DEFINE n == Len(unpacked)
<1>1. packed \in Seq(Record) /\ unpacked \in Seq(Record)
  BY TypeFacts DEF IInv, TypeOK, Record
<1>2. /\ n <= Len(packed) /\ \A i \in 1 .. n : unpacked[i] = packed[i]
      /\ pc = "empty" => n = Len(packed)
      /\ pc # "overrun"
  <2>1. CASE Started
    BY <2>1 DEF IInv, ReadSoFar
  <2>2. CASE ~Started
    <3>1. n = 0 /\ pc \in {"pack", "open"}
      BY <2>2 DEF IInv, Started
    <3> QED
      BY <1>1, <3>1
  <2> QED
    BY <2>1, <2>2
<1>3. n \in Nat /\ Len(packed) \in Nat
  BY <1>1
<1> HIDE DEF n
<1>4. SubSeq(unpacked, 1, n) = SubSeq(packed, 1, n)
  <2> DEFINE s == SubSeq(unpacked, 1, n)
             t == SubSeq(packed, 1, n)
             c == IF 1 <= n THEN n - 1 + 1 ELSE 0
  <2>1. (\A i \in 1 .. n : unpacked[i] \in Record) /\ \A i \in 1 .. n : packed[i] \in Record
    BY <1>1, <1>2, <1>3 DEF n
  <2>2. s \in Seq(Record) /\ Len(s) = c /\ \A i \in 1 .. n - 1 + 1 : s[i] = unpacked[1 + i - 1]
    BY <1>3, <2>1, SubSeqProperties
  <2>3. t \in Seq(Record) /\ Len(t) = c /\ \A i \in 1 .. n - 1 + 1 : t[i] = packed[1 + i - 1]
    BY <1>3, <2>1, SubSeqProperties
  <2> HIDE DEF s, t
  <2>4. c = n /\ \A i \in 1 .. n : i \in 1 .. n - 1 + 1 /\ 1 + i - 1 = i
    BY <1>3
  <2>5. \A i \in 1 .. n : s[i] = t[i]
    BY <1>2, <2>2, <2>3, <2>4
  <2>6. s = t
    BY <2>2, <2>3, <2>4, <2>5, SeqEqual
  <2> QED
    BY <2>6 DEF s, t
<1>5. pc = "empty" => unpacked = packed
  BY <1>1, <1>2, SeqEqual DEF n
<1> QED
  BY <1>2, <1>4, <1>5 DEF IsPrefix, n

\* What StructureDeltaDecompressorStream unpacks is what was packed, for every
\* length of record, block and frame and every run of records, unless the
\* last record has ended a block (compress.h).
THEOREM CodecRoundTrip == Spec => []RoundTrip
BY RoundTripFollows, CodecInvariant, PTL

\* The reader is at the beginning of a block, or at the end of the output.
LEMMA InBoundsFollows == IInv => BlocksInBounds
<1> SUFFICES ASSUME IInv, Compress, Written
             PROVE  \/ raw_it = Len(output) + 1
                    \/ /\ raw_it <= Len(output) /\ output[raw_it] \in Octet
                       /\ decode(LenOctets, output, raw_it).next \in DOMAIN frames
  BY DEF BlocksInBounds
<1>1. Len(output) \in Nat
  BY TypeFacts
<1>2. PICK m, lay, fr, rb : /\ Layout(m, lay, fr, rb)
                            /\ \E k \in 0 .. m : AtBlock(m, lay, fr, rb, k)
  BY DEF IInv, WithBlocks
<1>3. PICK k \in 0 .. m : raw_it = lay[k]
  BY <1>2 DEF AtBlock
<1>4. CASE k = m
  BY <1>1, <1>2, <1>3, <1>4, LastBlock
<1>5. CASE k # m
  <2>1. raw_it <= Len(output)
    BY <1>1, <1>2, <1>3, <1>5, LastBlock
  <2>2. m \in Nat /\ \A j \in 1 .. m : BlockAt(lay[j - 1], fr[j], lay[j], rb[j - 1], rb[j])
    BY <1>2 DEF Layout
  <2>3. k + 1 \in 1 .. m /\ (k + 1) - 1 = k
    BY <1>5, <2>2
  <2>4. BlockAt(raw_it, fr[k + 1], lay[k + 1], rb[k], rb[k + 1])
    BY <1>3, <2>2, <2>3
  <2>5. PICK l \in FrameLengths : /\ At(output, raw_it, encode(LenOctets, l))
                                  /\ fr[k + 1] = raw_it + Len(encode(LenOctets, l))
    BY <2>4 DEF BlockAt
  <2> DEFINE e == encode(LenOctets, l)
  <2>6. Decodes(LenOctets, l, e)
    BY CodecAssumption, EncodeDecode DEF LenOctets
  <2>7. e \in Seq(Octet) /\ Len(e) \in 1 .. 3 /\ decode(LenOctets, output, raw_it).next = fr[k + 1]
    BY <2>5, <2>6 DEF Decodes, LenOctets
  <2>8. output[raw_it] = e[1]
    <3> HIDE DEF e
    <3>1. At(output, raw_it, e)
      BY <2>5 DEF e
    <3>2. \A x \in 1 .. 3 : x \in Nat /\ x >= 1
      OBVIOUS
    <3> QED
      BY <2>7, <3>1, <3>2, AtStart
  <2>9. e[1] \in Octet
    <3> HIDE DEF e
    <3>0. \A x \in 1 .. 3 : x \in Nat /\ 1 \in 1 .. x
      OBVIOUS
    <3>1. 1 \in 1 .. Len(e)
      BY <2>7, <3>0
    <3> QED
      BY <2>7, <3>1
  <2> QED
    BY <2>1, <2>4, <2>7, <2>8, <2>9 DEF BlockAt
<1> QED
  BY <1>4, <1>5

\* refill never reads past the end of the array (assert, compress.h:156).
THEOREM CodecBlocksInBounds == Spec => []BlocksInBounds
BY InBoundsFollows, CodecInvariant, PTL

\* A block has a length, and a record an octet.
LEMMA NoOctetsFollows == IInv => NoOctets
<1> SUFFICES ASSUME IInv, Written PROVE output = <<>> <=> packed = <<>> /\ ~Compress
  BY DEF NoOctets
<1>1. /\ packed \in Seq(Record) /\ Len(packed) \in Nat /\ Len(output) \in Nat
      /\ packed = <<>> <=> Len(packed) = 0
  BY TypeFacts, EmptySeq
<1>2. output = <<>> <=> Len(output) = 0
  BY EmptySeq DEF IInv, TypeOK
<1>3. CASE Compress
  <2>1. PICK m, lay, fr, rb : Layout(m, lay, fr, rb) /\ Filled(m, rb)
    BY <1>3 DEF IInv, WithBlocks
  <2>2. m \in Nat /\ m >= 1 /\ lay[0] = 1
    BY <2>1 DEF Layout, Filled, Written
  <2>3. 0 \in 0 .. m /\ 0 # m
    BY <2>2
  <2>4. 1 <= Len(output)
    BY <1>1, <2>1, <2>2, <2>3, LastBlock
  <2> QED
    BY <1>1, <1>2, <1>3, <2>4
<1>4. CASE ~Compress
  <2>1. Part(packed, output, 0, Len(packed)) /\ Len(packed) <= Len(packed)
    BY <1>1, <1>4 DEF IInv, WithoutBlocks, Written
  <2>2. Len(output) = 0 <=> 0 = Len(packed)
    BY <1>1, <2>1, PartEmpty
  <2> QED
    BY <1>1, <1>2, <1>4, <2>2
<1> QED
  BY <1>3, <1>4

\* Only a run without records that is not compressed has no octets, which is
\* how the search finds that there are no more states (search.h:186).
THEOREM CodecNoOctets == Spec => []NoOctets
BY NoOctetsFollows, CodecInvariant, PTL

=============================================================================
