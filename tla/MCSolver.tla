------------------------------ MODULE MCSolver ------------------------------
(***************************************************************************)
(* level34 whole, with the hash all states share: every state of a depth   *)
(* is then tried as a parent, and which pair of a key is kept makes no     *)
(* difference.                                                             *)
(***************************************************************************)
EXTENDS Solver, MCLevelMap, Levels

MCLevel34 == Level34.base_map

MCHashByte == {0}

MCHash == [k \in Nat |-> 0]

=============================================================================
