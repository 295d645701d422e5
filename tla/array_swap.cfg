SPECIFICATION Spec
CONSTANTS
  all_keys = all_keys
  new_all_keys = new_all_keys
  Arrays <- MCArrays
  kFlushThreshold = 2
  MaxWritten = 3
  MaxInsert = 3
  MaxRuns = 2
SYMMETRY Symmetry
INVARIANTS
  RunsAlwaysReadBack
