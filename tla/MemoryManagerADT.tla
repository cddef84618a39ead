-------------------------- MODULE MemoryManagerADT --------------------------
(***************************************************************************)
(* What the two memory managers of the kernel have in common               *)
(* (Kernel/include/memoryManagerADT.h): the free list, sorted by size, the *)
(* count of free bytes, and the size of the block a request needs.  The    *)
(* Makefile builds one of them, HEAP2 (Heap2) or BUDDY (BuddyHeap).        *)
(*                                                                         *)
(* Addresses count from the start of the managed memory.  The two dummy    *)
(* blocks start and end are the ends of the list: end.blockSize is         *)
(* TOTAL_HEAP_SIZE, which stops every search that gets so far.  A call is  *)
(* one step: the kernel allocates and frees with interrupts disabled.      *)
(* Callers free only what they were handed, once.                          *)
(***************************************************************************)
EXTENDS Integers, Sequences, SequencesExt, FiniteSetsExt

CONSTANTS
  TOTAL_HEAP_SIZE,
  BYTE_ALIGNMENT,
  STRUCT_SIZE,      \* aligned size of a header
  WORD,             \* sizes are taken modulo WORD, 2^32
  Requests          \* bound: the sizes asked for

ASSUME AlignmentAssumption == BYTE_ALIGNMENT \in Nat \ {0}
ASSUME StructAssumption ==
  STRUCT_SIZE \in Nat \ {0} /\ STRUCT_SIZE % BYTE_ALIGNMENT = 0
ASSUME TotalAssumption ==
  /\ TOTAL_HEAP_SIZE \in Nat /\ TOTAL_HEAP_SIZE % BYTE_ALIGNMENT = 0
  /\ TOTAL_HEAP_SIZE > STRUCT_SIZE
ASSUME WordAssumption == WORD \in Nat /\ WORD > TOTAL_HEAP_SIZE
\* No program asks for so much that header and padding overflow the word.
ASSUME RequestsAssumption == Requests \subseteq 0..(WORD - STRUCT_SIZE - BYTE_ALIGNMENT)

VARIABLES
  freeList,            \* the blocks between start and end, along nextFreeBlock
  freeBytesRemaining,
  granted              \* history: by header address, the bytes asked for
-----------------------------------------------------------------------------
\* Bytes of a block for a request of n bytes.
Needed(n) ==
  LET withHeader == n + STRUCT_SIZE
      excess     == withHeader % BYTE_ALIGNMENT
  IN  IF excess = 0 THEN withHeader ELSE withHeader + BYTE_ALIGNMENT - excess

\* f with the value v at x.
With(f, x, v) == [y \in DOMAIN f \union {x} |-> IF y = x THEN v ELSE f[y]]

\* insertBlockIntoFreeList: in front of the first block that is not smaller.
Insert(l, sizes, b) ==
  InsertAt(l, Min({i \in 1..Len(l) : sizes[l[i]] >= sizes[b]} \union {Len(l) + 1}), b)

\* The position in the free list of the first block that is large enough.
FirstFit(sizes, need) == SelectInSeq(freeList, LAMBDA b : sizes[b] >= need)
-----------------------------------------------------------------------------
(* Parts of the invariants                                                 *)

\* The blocks tile the heap: splitting and merging never leave a gap or an overlap.
Tile(sizes) ==
  /\ 0 \in DOMAIN sizes
  /\ \A b \in DOMAIN sizes :
       LET end == b + sizes[b]
       IN  /\ end = TOTAL_HEAP_SIZE \/ end \in DOMAIN sizes
           /\ \A c \in DOMAIN sizes : c <= b \/ c >= end

\* The free list holds each block that no caller owns, once, and in the order of
\* their sizes, which makes allocMem's first fit a best fit.
FreeListSorted(sizes) ==
  /\ ToSet(freeList) = DOMAIN sizes \ DOMAIN granted
  /\ IsInjective(freeList)
  /\ IsSorted(freeList, LAMBDA b, c : sizes[b] <= sizes[c])

\* A caller owns a block with room for the header and all the bytes it asked for:
\* test_mm.c:56 fills every block to its size and reads it back.
GrantsFit(sizes) ==
  \A b \in DOMAIN granted : sizes[b] >= granted[b] + STRUCT_SIZE

\* The sum of the free blocks, which heapLeft should return.
FreeBytes(sizes) == MapThenSumSet(LAMBDA b : sizes[b], ToSet(freeList))

\* Callers see an allocator.  The address handed out is that of the header plus
\* STRUCT_SIZE.
Promise ==
  INSTANCE Heap WITH
    granted <- [a \in {b + STRUCT_SIZE : b \in DOMAIN granted}
                  |-> granted[a - STRUCT_SIZE]]
=============================================================================
