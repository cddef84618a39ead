------------------------------ MODULE BuddyHeap ------------------------------
(***************************************************************************)
(* The memory manager built with BUDDY (Kernel/utils/MemManBuddy.c):       *)
(* blocks of MINIMUM_BLOCK_SIZE times a power of two, split in halves when *)
(* allocated and merged with their buddies when freed.  The side on which  *)
(* a block's buddy lies is read from the last bit of its history, the path *)
(* of left (0) and right (1) halves by which it was split off.             *)
(***************************************************************************)
EXTENDS MemoryManagerADT

CONSTANT MINIMUM_BLOCK_SIZE  \* 512; TOTAL_HEAP_SIZE is a power of two of them

VARIABLE header  \* by address: the header fields of the block there

vars == <<header, freeList, freeBytesRemaining, granted>>

\* At least as many turns as a loop takes, which has run dry then.
Turns == TOTAL_HEAP_SIZE \div MINIMUM_BLOCK_SIZE

Header(size, history) == [blockSize |-> size, history |-> history, free |-> TRUE]
Sizes(h) == [b \in DOMAIN h |-> h[b].blockSize]
-----------------------------------------------------------------------------
(* The recursion of insertBlockIntoFreeList: h are the headers, l the list *)

Buddy(h, b) ==
  IF h[b].history % 2 = 1 THEN b - h[b].blockSize ELSE b + h[b].blockSize

CanMerge(h, b) ==
  /\ h[b].blockSize < TOTAL_HEAP_SIZE
  /\ h[Buddy(h, b)].free
  /\ h[Buddy(h, b)].blockSize = h[b].blockSize

\* One level: s.block, which is in no list, and its buddy become one block.  The
\* absorbed header is gone.
MergeStep(s) ==
  IF ~CanMerge(s.h, s.block) THEN s
  ELSE LET buddy == Buddy(s.h, s.block)
           left  == Min({s.block, buddy})
           right == Max({s.block, buddy})
       IN  [h |-> [Restrict(s.h, DOMAIN s.h \ {right}) EXCEPT
                     ![left].blockSize = 2 * @,
                     ![left].history = @ \div 2],
            l |-> RemoveFirst(s.l, buddy),
            block |-> left]

\* Wrong on purpose: does not merge at all.
MergedNever(h, l, b) == [h |-> h, l |-> l, block |-> b]

Merged(h, l, b) ==
  LET after[k \in 0..Turns] ==
        IF k = 0 THEN [h |-> h, l |-> l, block |-> b] ELSE MergeStep(after[k-1])
  IN  after[Turns]

\* Where it ends: the block is linked.  The heap that is one block again makes the
\* list, whatever was in it.
Linked(h, l, b) ==
  IF h[b].blockSize = TOTAL_HEAP_SIZE THEN <<b>> ELSE Insert(l, Sizes(h), b)
-----------------------------------------------------------------------------
(* Splitting                                                               *)

\* Wrong on purpose: the right half gets the history of the left one.
RightHistorySame(history) == history * 2

RightHistory(history) == history * 2 + 1

\* One turn of the loop of allocMem that halves block b: its right half is
\* linked without merging; it is never the whole heap.
SplitStep(s, b, need) ==
  LET half == s.h[b].blockSize \div 2
      left == [s.h EXCEPT ![b].blockSize = half, ![b].history = 2 * @]
      h == With(left, b + half, Header(half, RightHistory(s.h[b].history)))
  IN  IF half >= MINIMUM_BLOCK_SIZE /\ half >= need
      THEN [h |-> h, l |-> Insert(s.l, Sizes(h), b + half)]
      ELSE s

\* The halves down to the need.
Split(h, l, b, need) ==
  LET after[k \in 0..Turns] ==
        IF k = 0 THEN [h |-> h, l |-> l] ELSE SplitStep(after[k-1], b, need)
  IN  after[Turns]
-----------------------------------------------------------------------------
Init ==
  /\ header = [b \in {0} |-> Header(TOTAL_HEAP_SIZE, 0)]
  /\ freeList = <<0>>
  /\ freeBytesRemaining = TOTAL_HEAP_SIZE
  /\ granted = <<>>

\* allocMem(n) when it finds a block; otherwise it changes nothing.
AllocMem(n) ==
  LET need == Needed(n)
      i == FirstFit(Sizes(header), need)
      b == freeList[i]
      split == Split(header, RemoveAt(freeList, i), b, need)
  IN  /\ n # 0 /\ need <= TOTAL_HEAP_SIZE
      /\ i # 0
      /\ header' = [split.h EXCEPT ![b].free = FALSE]
      /\ freeList' = split.l
      /\ freeBytesRemaining' = (freeBytesRemaining - split.h[b].blockSize) % WORD
      /\ granted' = With(granted, b, n)

\* freeMem: the bytes given back are those of the merged block.
FreeMem(b) ==
  LET merged == Merged(header, freeList, b)
  IN  /\ b \in DOMAIN granted
      /\ header' = [merged.h EXCEPT ![merged.block].free = TRUE]
      /\ freeList' = Linked(merged.h, merged.l, merged.block)
      /\ freeBytesRemaining' =
           (freeBytesRemaining + merged.h[merged.block].blockSize) % WORD
      /\ granted' = Restrict(granted, DOMAIN granted \ {b})

Next ==
  \/ \E n \in Requests : AllocMem(n)
  \/ \E b \in DOMAIN granted : FreeMem(b)
-----------------------------------------------------------------------------
(* Properties                                                              *)

TypeOK ==
  /\ \A b \in DOMAIN header :
       /\ header[b].free = (b \notin DOMAIN granted)
       /\ TOTAL_HEAP_SIZE % header[b].blockSize = 0
  /\ freeBytesRemaining \in 0..(WORD - 1)
  /\ DOMAIN granted \subseteq DOMAIN header

\* The last bit of the history tells a right half from a left one, and where the
\* buddy of a block is read, a header is there: merging never reads or writes
\* the inside of a block.
BuddyIsBlock ==
  \A b \in DOMAIN header : header[b].blockSize < TOTAL_HEAP_SIZE =>
    /\ header[b].history = b \div header[b].blockSize
    /\ Buddy(header, b) \in DOMAIN header

\* The invariant of this heap: besides what both managers keep, every block lies
\* at a multiple of its size.
Inv ==
  /\ TypeOK
  /\ Tile(Sizes(header)) /\ FreeListSorted(Sizes(header)) /\ GrantsFit(Sizes(header))
  /\ \A b \in DOMAIN header : b % header[b].blockSize = 0
  /\ BuddyIsBlock

\* No two free buddies are left apart, so that the memory freed by everybody is
\* again one block.
FullyMerged ==
  /\ \A b \in ToSet(freeList) : ~CanMerge(header, b)
  /\ granted = <<>> => header[0].blockSize = TOTAL_HEAP_SIZE
=============================================================================
