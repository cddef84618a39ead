SPECIFICATION Spec
CONSTANTS
  Procs = {p1, p2, p3}
  Closers = {p1, p2}
  Values <- OpenedWith
  Ids = {i1, i2}
  Cells = {c1, c2}
  MAX_SEM = 2
  MaxValue = 1
  NULL = NULL
INVARIANTS Inv SleeperIsListed
CHECK_DEADLOCK FALSE
SYMMETRY Symmetry
