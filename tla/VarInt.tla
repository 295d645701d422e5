------------------------------- MODULE VarInt -------------------------------
(***************************************************************************)
(* VarInt (compress.h): integers of up to three octets with stop bits.     *)
(* The first octets hold PayloadBits bits of the integer and a top bit     *)
(* that says whether another octet follows; the last octet that a width    *)
(* can have holds one bit more.  In the code PayloadBits is 7.             *)
(***************************************************************************)
EXTENDS Integers, Sequences

CONSTANTS
  PayloadBits,  \* bits of an integer in an octet that may not be the last
  TopBit        \* kTopBit

ASSUME VarIntAssumption ==
  /\ PayloadBits \in Nat \ {0}
  /\ TopBit \in Nat \ {0, 1}
  /\ TopBit = 2 ^ PayloadBits

Octet == 0 .. 2 * TopBit - 1

\* How many octets an integer of this width has at most; the code supports
\* no width of more than three of them.
Octets(width) ==
  CHOOSE n \in 1 .. 3 :
    /\ width <= n * PayloadBits + 1
    /\ n > 1 => width > (n - 1) * PayloadBits + 1

\* The integers of at most n octets.
Encodable(n) ==
  CASE n = 1 -> Octet
    [] n = 2 -> 0 .. 2 * TopBit * TopBit - 1
    [] n = 3 -> 0 .. 2 * TopBit * TopBit * TopBit - 1

\* The bits of an octet of the n-th group, without those of earlier groups.
Group(value, n) ==
  CASE n = 1 -> value
    [] n = 2 -> value \div TopBit
    [] n = 3 -> value \div (TopBit * TopBit)

Payload(group)  == group % TopBit
More(group)     == Payload(group) + TopBit
LastOctet(group) == group % (2 * TopBit)

\* Mutant: the first integer that needs a second octet does not get it.
MutEncode(n, value) ==
  CASE n = 1 -> << LastOctet(value) >>
    [] n > 1 /\ value <= TopBit -> << value >>
    [] n = 2 /\ value > TopBit -> << More(value), LastOctet(Group(value, 2)) >>
    [] n = 3 /\ value > TopBit /\ value < TopBit * TopBit ->
         << More(value), Payload(Group(value, 2)) >>
    [] n = 3 /\ value >= TopBit * TopBit ->
         << More(value), More(Group(value, 2)), LastOctet(Group(value, 3)) >>

encode(n, value) ==
  CASE n = 1 -> << LastOctet(value) >>
    [] n > 1 /\ value < TopBit -> << value >>
    [] n = 2 /\ value >= TopBit -> << More(value), LastOctet(Group(value, 2)) >>
    [] n = 3 /\ value >= TopBit /\ value < TopBit * TopBit ->
         << More(value), Payload(Group(value, 2)) >>
    [] n = 3 /\ value >= TopBit * TopBit ->
         << More(value), More(Group(value, 2)), LastOctet(Group(value, 3)) >>

\* The integer in s at position it, and the position after it.
decode(n, s, it) ==
  CASE n = 1 \/ s[it] < TopBit -> [value |-> s[it], next |-> it + 1]
    [] n = 2 /\ s[it] >= TopBit ->
         [value |-> Payload(s[it]) + TopBit * s[it + 1], next |-> it + 2]
    [] n = 3 /\ s[it] >= TopBit /\ s[it + 1] < TopBit ->
         [value |-> Payload(s[it]) + TopBit * s[it + 1], next |-> it + 2]
    [] n = 3 /\ s[it] >= TopBit /\ s[it + 1] >= TopBit ->
         [value |-> Payload(s[it]) + TopBit * Payload(s[it + 1])
                                   + TopBit * TopBit * s[it + 2],
          next |-> it + 3]

=============================================================================
