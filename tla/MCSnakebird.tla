---------------------------- MODULE MCSnakebird ----------------------------
(***************************************************************************)
(* The levels TLC checks Snakebird on by itself, with the Setup parameters *)
(* of the same program in the configuration.                               *)
(***************************************************************************)
EXTENDS Snakebird, MCLevelMap, Levels

MCLevel31 == Level31.base_map
MCLevel44 == Level44.base_map

=============================================================================
