SPECIFICATION Spec
CONSTANTS
  Procs = {q1, q2, q3}
  Cells = {c1, c2}
  MAX_PIPES = 2
  PIPE_IDS = 3
  MaxDisturbances = 1
  NULL = NULL
INVARIANTS Inv EndsMatchHolders SleeperHasWriter
SYMMETRY Symmetry
CHECK_DEADLOCK FALSE
