---------------------------- MODULE MCDedupMerge ----------------------------
(***************************************************************************)
(* Three batches of four pairs together, over three keys and two values.   *)
(***************************************************************************)
EXTENDS DedupMerge

MCKey      == 0 .. 2
MCHashByte == 0 .. 1

MaxPairs == 4

\* The sorted batches of n pairs.
BatchesOf == [n \in 0 .. MaxPairs |-> {b \in [1 .. n -> MCKey \X MCHashByte] : InKeyOrder(b)}]

Sizes == {s \in [1 .. 3 -> 0 .. MaxPairs] : s[1] + s[2] + s[3] <= MaxPairs}

MCInputs ==
  UNION {{<<a, b, c>> : a \in BatchesOf[s[1]], b \in BatchesOf[s[2]], c \in BatchesOf[s[3]]} :
           s \in Sizes}

=============================================================================
