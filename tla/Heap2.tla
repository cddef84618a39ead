------------------------------- MODULE Heap2 -------------------------------
(***************************************************************************)
(* The memory manager built with HEAP2 (Kernel/utils/MemoryManagerADT.c):  *)
(* best fit, splitting, and no merging of what is freed.                   *)
(***************************************************************************)
EXTENDS MemoryManagerADT

VARIABLE blockSize  \* by header address: the size of that block

vars == <<blockSize, freeList, freeBytesRemaining, granted>>

MINIMUM_BLOCK_SIZE == STRUCT_SIZE * 2
-----------------------------------------------------------------------------
\* Is the rest of block b, behind need bytes, worth a block of its own?
Splits(b, need) == blockSize[b] - need > MINIMUM_BLOCK_SIZE

\* Wrong on purpose: the block keeps its size although its tail is split off.
SplitSizesOverlapping(b, need) == With(blockSize, b + need, blockSize[b] - need)

\* The blocks after cutting block b behind need bytes.
SplitSizes(b, need) ==
  With([blockSize EXCEPT ![b] = need], b + need, blockSize[b] - need)
-----------------------------------------------------------------------------
Init ==
  /\ blockSize = [b \in {0} |-> TOTAL_HEAP_SIZE]
  /\ freeList = <<0>>
  /\ freeBytesRemaining = TOTAL_HEAP_SIZE
  /\ granted = <<>>

\* allocMem(n) when it finds a block; otherwise it changes nothing.
AllocMem(n) ==
  LET need == Needed(n)
      i    == FirstFit(blockSize, need)
      b    == freeList[i]
      rest == RemoveAt(freeList, i)
  IN  /\ n # 0 /\ need < TOTAL_HEAP_SIZE
      /\ i # 0
      /\ IF Splits(b, need)
         THEN /\ blockSize' = SplitSizes(b, need)
              /\ freeList' = Insert(rest, blockSize', b + need)
         ELSE /\ freeList' = rest
              /\ UNCHANGED blockSize
      /\ freeBytesRemaining' = freeBytesRemaining - blockSize'[b]
      /\ granted' = With(granted, b, n)

FreeMem(b) ==
  /\ b \in DOMAIN granted
  /\ freeList' = Insert(freeList, blockSize, b)
  /\ freeBytesRemaining' = freeBytesRemaining + blockSize[b]
  /\ granted' = Restrict(granted, DOMAIN granted \ {b})
  /\ UNCHANGED blockSize

Next ==
  \/ \E n \in Requests : AllocMem(n)
  \/ \E b \in DOMAIN granted : FreeMem(b)
-----------------------------------------------------------------------------
(* Properties                                                              *)

TypeOK ==
  /\ \A b \in DOMAIN blockSize :
       /\ b \in 0..(TOTAL_HEAP_SIZE - 1) /\ b % BYTE_ALIGNMENT = 0
       /\ blockSize[b] \in STRUCT_SIZE..TOTAL_HEAP_SIZE
       /\ blockSize[b] % BYTE_ALIGNMENT = 0
  /\ freeBytesRemaining \in 0..TOTAL_HEAP_SIZE
  /\ DOMAIN granted \subseteq DOMAIN blockSize

\* The invariant of this heap, over every sequence of allocations and frees:
\* besides what both managers keep, heapLeft, which the mem command prints, is the
\* sum of the free blocks.
Inv ==
  /\ TypeOK
  /\ Tile(blockSize) /\ FreeListSorted(blockSize) /\ GrantsFit(blockSize)
  /\ freeBytesRemaining = FreeBytes(blockSize)
=============================================================================
