------------------------------- MODULE Binary -------------------------------
(***************************************************************************)
(* The bits of a natural number: position b is worth 2^b.  The code does   *)
(* this with shifts and masks; here a number and the set of the positions  *)
(* of its 1 bits are made from one another.                                *)
(***************************************************************************)
EXTENDS Integers

IsSet(b, n) == (n \div 2 ^ b) % 2 = 1

\* The length of n as a binary number, n > 0.
integer_length(n) == CHOOSE k \in 1 .. n : 2 ^ (k - 1) <= n /\ n < 2 ^ k

BitsOf(n) == IF n = 0 THEN {} ELSE {b \in 0 .. (integer_length(n) - 1) : IsSet(b, n)}

\* The number with these bits, of those below width.
NumberOf(bits, width) ==
  LET above[b \in 0 .. width] ==
        IF b = width THEN 0 ELSE 2 * above[b + 1] + (IF b \in bits THEN 1 ELSE 0)
  IN  above[0]

=============================================================================
