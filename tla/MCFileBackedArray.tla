-------------------------- MODULE MCFileBackedArray --------------------------
(***************************************************************************)
(* The two arrays that dedup swaps, with a buffer of two elements.         *)
(***************************************************************************)
EXTENDS FileBackedArray, TLC

CONSTANTS all_keys, new_all_keys

MCArrays == {all_keys, new_all_keys}

Symmetry == Permutations(MCArrays)

=============================================================================
