SPECIFICATION FairSpec
CONSTANTS
  MaxPid = 4
  PRIORITY_QUANTUM = 1
  NicePriorities = {2}
  MaxExiting = 1
INVARIANTS
  TypeOK
  ListIsAlive
  CurrentIsLive
  SortedBehindShell
  ForegroundFlag
  NextScanIsMinimal
PROPERTIES
  DispatchesEligible
  IdleIsExplained
  NoStarvation
