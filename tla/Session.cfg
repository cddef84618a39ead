SPECIFICATION SessionSpec
CONSTANTS
  width = 5
  height = 3
  MAX_ARG_AMT = 3
  MAX_ARG_COMMAND_LEN = 2
  WORD32 = 100
  WORD8 = 10
  Processes = {"loop"}
  Builtins = {"kill", "clear"}
  LINE = 7
  Words <- SomeWords
  MaxWords = 4
  MaxSlips = 1
  MaxPrints = 1
INVARIANTS SessionInv LineOnScreen CommandIsMeant
CHECK_DEADLOCK FALSE
