--------------------------- MODULE MemoryManagers ---------------------------
(***************************************************************************)
(* The kernel's heap as it was built (MM in Kernel/Makefile): with HEAP2   *)
(* or with BUDDY.  Whichever it is, the callers see the same allocator.    *)
(***************************************************************************)
EXTENDS MemoryManagerADT

CONSTANT BUDDY_BLOCK_SIZE  \* MINIMUM_BLOCK_SIZE of BUDDY, 512

\* The size of a block of BUDDY that is made of 2^k smallest ones.
Level[k \in 0..32] == IF k = 0 THEN BUDDY_BLOCK_SIZE ELSE 2 * Level[k-1]

ASSUME BuddyAssumption ==
  /\ BUDDY_BLOCK_SIZE \in Nat /\ BUDDY_BLOCK_SIZE % BYTE_ALIGNMENT = 0
  /\ STRUCT_SIZE < BUDDY_BLOCK_SIZE
  /\ \E k \in 0..32 : TOTAL_HEAP_SIZE = Level[k]

VARIABLES
  MM,     \* "HEAP2" or "BUDDY"
  blocks  \* by address: the header there

vars == <<MM, blocks, freeList, freeBytesRemaining, granted>>

Heap2Manager == INSTANCE Heap2 WITH blockSize <- blocks
BuddyManager == INSTANCE BuddyHeap WITH
                  header <- blocks, MINIMUM_BLOCK_SIZE <- BUDDY_BLOCK_SIZE
-----------------------------------------------------------------------------
Init ==
  \/ MM = "HEAP2" /\ Heap2Manager!Init
  \/ MM = "BUDDY" /\ BuddyManager!Init

Next ==
  \/ MM = "HEAP2" /\ Heap2Manager!Next /\ UNCHANGED MM
  \/ MM = "BUDDY" /\ BuddyManager!Next /\ UNCHANGED MM

Spec == Init /\ [][Next]_vars
-----------------------------------------------------------------------------
(* Properties                                                              *)

\* The invariant of the heap that was built, over every sequence of allocations
\* and frees: its blocks tile the memory, the free list holds what nobody owns in
\* the order of the sizes, and every owner has the bytes it asked for.
Inv == IF MM = "HEAP2" THEN Heap2Manager!Inv ELSE BuddyManager!Inv

\* BUDDY leaves no two free buddies apart.
FullyMerged == MM = "BUDDY" => BuddyManager!FullyMerged

\* Callers see an allocator: the bytes granted never overlap.
ImplementsHeap == Promise!Spec
=============================================================================
