---------------------------- MODULE MCDeltaCodec ----------------------------
(***************************************************************************)
(* Octets of two bits, so that a mask of three bits may have two octets    *)
(* and the length of a block one, two or three of them.                    *)
(***************************************************************************)
EXTENDS DeltaCodec

Rec(a, b, c) == (0 :> a) @@ (1 :> b) @@ (2 :> c)

\* Zeros, and records one, two and three octets away from one another; the
\* masks between them are 1 to 7, without 6.
MCRecords == {Rec(0, 0, 0), Rec(0, 0, 3), Rec(1, 0, 3), Rec(1, 1, 3)}

\* Of one, two and three octets, when they are encoded.
MCFrameLengths == {1, 3, 5}

=============================================================================
