SPECIFICATION Spec
CONSTANTS
  TOTAL_HEAP_SIZE = 32
  BYTE_ALIGNMENT = 2
  STRUCT_SIZE = 2
  WORD = 64
  BUDDY_BLOCK_SIZE = 4
  Requests = {0, 1, 3, 13, 29, 60}
INVARIANTS Inv FullyMerged
PROPERTY ImplementsHeap
