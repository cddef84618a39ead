SPECIFICATION Spec
CONSTANTS
  Lockers = {a, b, c}
  Posters = {}
  NoProcess = NoProcess
  InitialValue = 1
  PROCESS_LIMIT = 2
  MaxPosts = 0
  MaxKills = 0
  MaxHits = 1
INVARIANT MutualExclusion
