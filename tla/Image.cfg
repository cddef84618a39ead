SPECIFICATION ImageSpec
CONSTANTS
  ENTRIES = 3
  SECTOR = 2
  PURE64 <- Pure64Cells
  LOADED = 10
  Kernel <- KernelCells
  bss = 3
  endOfKernel = 6
  moduleAddresses <- TwoAddresses
  endOfMemory = 15
  Modules <- SomeModules
  BootRecords <- SomeBootRecords
  Sizes = {2, 3, 7}
  Files = {"f", "g", "h"}
  Contents <- SomeContents
  MaxSizes = {1, 4}
  Memories <- SomeMemories
  MaxRuns = 8
INVARIANTS ImageInv ModulesArrive
