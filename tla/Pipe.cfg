SPECIFICATION FairSpec
CONSTANTS
  PIPE_SIZE = 3
  MaxWrite = 2
  MaxBytes = 7
  MaxKills = 1
  MaxHits = 1
INVARIANTS Inv Fifo FreedAtTheEnd
PROPERTIES WriterGoesOn InputEnds
CHECK_DEADLOCK FALSE
