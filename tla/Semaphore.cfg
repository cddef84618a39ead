SPECIFICATION Spec
CONSTANTS
  Lockers = {a, b, c}
  Posters = {s}
  NoProcess = NoProcess
  InitialValue = 1
  PROCESS_LIMIT = 2
  MaxPosts = 1
  MaxKills = 1
  MaxHits = 1
INVARIANTS Inv UnitsConserved NoLostWakeup
CHECK_DEADLOCK FALSE
