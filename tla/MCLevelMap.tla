----------------------------- MODULE MCLevelMap -----------------------------
(***************************************************************************)
(* The values for the constants of Snakebird, from the picture of a level. *)
(* TLC evaluates an operator that replaces a constant at every use of the  *)
(* constant, and an operator that is constant itself just once: so the     *)
(* configurations have these names for the operators of LevelMap.          *)
(***************************************************************************)
EXTENDS LevelMap

MCTerrain     == LevelTerrain
MCExit        == LevelExit
MCFruit       == LevelFruit
MCTeleporters == LevelTeleporters
MCSnakes      == LevelSnakes
MCTail        == LevelTail
MCShape       == LevelShape
MCShapeRank   == LevelShapeRank
MCOffset      == LevelOffset

=============================================================================
