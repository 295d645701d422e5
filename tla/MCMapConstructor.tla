-------------------------- MODULE MCMapConstructor --------------------------
(***************************************************************************)
(* The constructor on the picture of every level program.                  *)
(***************************************************************************)
EXTENDS MapConstructor, Levels

MCPrograms ==
  { Level00, Level01, Level02, Level03, Level04, Level05, Level06, Level07,
    Level08, Level09, Level10, Level11, Level12, Level13, Level14, Level15,
    Level16, Level17, Level18, Level19, Level20, Level21, Level22, Level23,
    Level24, Level25, Level26, Level27, Level28, Level29, Level30, Level31,
    Level32, Level33, Level34, Level35, Level36, Level37, Level38, Level39,
    Level40, Level41, Level42, Level43, Level44, Level45, LevelStar1,
    LevelStar2, LevelStar3, LevelStar4, LevelStar5, LevelStar6, LevelVoid }

=============================================================================
