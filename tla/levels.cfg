SPECIFICATION Spec
CONSTANTS
  Programs <- MCPrograms
INVARIANTS
  LevelsAreSafe
  ReadsWhatIsDrawn
CHECK_DEADLOCK FALSE
