SPECIFICATION FairTimerSpec
CONSTANTS
  Pcbs = {a, b, c}
  TICKS = 2
  Seconds = {0, 1, 2}
  MaxMeddling = 2
INVARIANT TimerInv
PROPERTIES DroppedOnlyBehindHead QueueDrains
