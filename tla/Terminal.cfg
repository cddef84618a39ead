SPECIFICATION FairSpec
CONSTANTS
  MAX_WAITING_KEYBOARD = 1
  LineSize = 1
  MaxCount = 2
  MaxHits = 1
  MaxSeen = 1
INVARIANTS Inv LineIsRight
PROPERTY LineIsReturned
CHECK_DEADLOCK FALSE
