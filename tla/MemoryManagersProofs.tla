------------------------ MODULE MemoryManagersProofs ------------------------
(***************************************************************************)
(* Proofs about the kernel's heap, built with HEAP2                        *)
(* (Kernel/utils/MemoryManagerADT.c) or with BUDDY                         *)
(* (Kernel/utils/MemManBuddy.c): the blocks tile the memory, the free list *)
(* is exact, BUDDY finds its buddies by their histories, and callers see   *)
(* an allocator, for every size of the heap, alignment, size of a header   *)
(* and set of requests.                                                    *)
(*                                                                         *)
(* FreeBytes is a fold, about which nothing follows for every set.         *)
(* KernelLemmas has the sum of a function over a finite set as SumOn; the  *)
(* invariant counts with that, and HeapInvImpliesInv shows them equal.     *)
(*                                                                         *)
(* Level, Merged and Split are recursive functions.  LevelDef, MergedIs    *)
(* and SplitIs first show that such functions exist, by the least number   *)
(* of turns for which none does; what holds of every turn follows in the   *)
(* same way.                                                               *)
(***************************************************************************)
EXTENDS MemoryManagers, KernelLemmas

-----------------------------------------------------------------------------
(* Requests                                                                *)

\* The block for a request has room for the header and the bytes, and is aligned.
LEMMA NeededProperties ==
  ASSUME NEW n \in Nat
  PROVE  /\ Needed(n) \in Nat
         /\ Needed(n) >= n + STRUCT_SIZE
         /\ Needed(n) % BYTE_ALIGNMENT = 0
<1> DEFINE w == n + STRUCT_SIZE
           e == w % BYTE_ALIGNMENT
           q == w \div BYTE_ALIGNMENT
<1>0. w \in Nat /\ BYTE_ALIGNMENT \in Nat \ {0}
  BY AlignmentAssumption, StructAssumption
<1> HIDE DEF w
<1>1. w = BYTE_ALIGNMENT * q + e /\ q \in Nat /\ e \in 0..(BYTE_ALIGNMENT - 1)
  BY <1>0
<1>2. Needed(n) = IF e = 0 THEN w ELSE w + BYTE_ALIGNMENT - e
  BY DEF Needed, w
<1> HIDE DEF q
<1>3. CASE e = 0
  BY <1>0, <1>2, <1>3 DEF w
<1>4. CASE e # 0
  <2> HIDE DEF e
  <2>1. Needed(n) = BYTE_ALIGNMENT * (q + 1)
    BY <1>0, <1>1, <1>2, <1>4
  <2>2. Needed(n) % BYTE_ALIGNMENT = 0
    <3>1. q + 1 \in Nat
      BY <1>1
    <3> QED BY <1>0, <2>1, <3>1, MultipleMod
  <2>3. Needed(n) \in Nat /\ Needed(n) >= w
    BY <1>0, <1>1, <1>2, <1>4
  <2> QED BY <2>2, <2>3 DEF w
<1> QED BY <1>3, <1>4
-----------------------------------------------------------------------------
(* The free list                                                           *)

\* In the order of the sizes.
Ordered(l, sizes) == \A i, j \in 1..Len(l) : i < j => sizes[l[i]] <= sizes[l[j]]

\* insertBlockIntoFreeList adds the block and keeps the order, whatever list and
\* block it is given.
LEMMA InsertProperties ==
  ASSUME NEW D, NEW sizes, \A x \in D : sizes[x] \in Nat,
         NEW l \in Seq(D), NEW b \in D, b \notin ToSet(l),
         IsInjective(l), Ordered(l, sizes)
  PROVE  /\ Insert(l, sizes, b) \in Seq(D)
         /\ ToSet(Insert(l, sizes, b)) = ToSet(l) \union {b}
         /\ IsInjective(Insert(l, sizes, b))
         /\ Ordered(Insert(l, sizes, b), sizes)
<1> DEFINE I == {i \in 1..Len(l) : sizes[l[i]] >= sizes[b]} \union {Len(l) + 1}
           k == Min(I)
           m == InsertAt(l, k, b)
<1>0. /\ Len(l) \in Nat /\ DOMAIN l = 1..Len(l)
      /\ \A i \in 1..Len(l) : l[i] \in D /\ sizes[l[i]] \in Nat
  OBVIOUS
<1>1. k \in I /\ \A i \in I : k <= i
  <2>1. I \in SUBSET Nat /\ I # {}
    BY <1>0
  <2> HIDE DEF I
  <2>2. \E j \in I : \A i \in I : j <= i
    BY <2>1, LeastNatural
  <2> QED BY <2>2 DEF Min
<1>2. /\ k \in 1..(Len(l) + 1)
      /\ \A i \in 1..Len(l) : i < k => sizes[l[i]] < sizes[b]
      /\ k <= Len(l) => sizes[l[k]] >= sizes[b]
  <2>1. ASSUME NEW i \in 1..Len(l), i < k PROVE sizes[l[i]] < sizes[b]
    <3>1. i \notin I
      <4>1. k \in Nat
        BY <1>0, <1>1
      <4> QED BY <1>1, <2>1, <4>1
    <3> QED BY <1>0, <3>1
  <2> QED BY <1>0, <1>1, <2>1
<1>3. Insert(l, sizes, b) = m
  BY DEF Insert
<1> HIDE DEF I, k
<1>4. /\ m \in Seq(D)
      /\ Len(m) = Len(l) + 1
      /\ \A i \in 1..(Len(l) + 1) : m[i] = IF i < k THEN l[i] ELSE IF i = k THEN b ELSE l[i-1]
  BY <1>2, InsertAtProperties
<1> HIDE DEF m
<1>5. DOMAIN m = 1..(Len(l) + 1)
  BY <1>0, <1>4
<1>6. ToSet(m) = ToSet(l) \union {b}
  <2>1. ASSUME NEW i \in 1..(Len(l) + 1) PROVE m[i] \in ToSet(l) \union {b}
    <3>1. CASE i < k
      BY <1>0, <1>2, <1>4, <3>1 DEF ToSet
    <3>2. CASE i = k
      BY <1>4, <3>2
    <3>3. CASE i > k
      <4>1. i - 1 \in 1..Len(l) /\ m[i] = l[i-1]
        BY <1>0, <1>2, <1>4, <3>3
      <4> QED BY <1>0, <4>1 DEF ToSet
    <3> QED BY <1>0, <1>2, <3>1, <3>2, <3>3
  <2>2. ASSUME NEW i \in 1..Len(l) PROVE l[i] \in ToSet(m)
    <3>1. CASE i < k
      <4>1. i \in 1..(Len(l) + 1) /\ m[i] = l[i]
        BY <1>0, <1>4, <3>1
      <4> QED BY <1>5, <4>1 DEF ToSet
    <3>2. CASE i >= k
      <4>1. i + 1 \in 1..(Len(l) + 1) /\ m[i+1] = l[(i+1)-1] /\ (i+1)-1 = i
        BY <1>0, <1>2, <1>4, <3>2
      <4> QED BY <1>5, <4>1 DEF ToSet
    <3> QED BY <1>0, <1>2, <3>1, <3>2
  <2>3. b \in ToSet(m)
    <3>1. k \in DOMAIN m /\ ~(k < k)
      BY <1>0, <1>2, <1>5
    <3>2. m[k] = b
      BY <1>2, <1>4, <3>1
    <3> QED BY <3>1, <3>2 DEF ToSet
  <2> QED BY <1>0, <1>5, <2>1, <2>2, <2>3 DEF ToSet
<1>7. \A i \in 1..Len(l) : l[i] # b
  BY <1>0 DEF ToSet
<1>8. \A i, j \in 1..Len(l) : l[i] = l[j] => i = j
  BY <1>0 DEF IsInjective
<1>9. \A i, j \in 1..Len(l) : i < j => sizes[l[i]] <= sizes[l[j]]
  BY DEF Ordered
<1>10. ASSUME NEW i \in 1..(Len(l) + 1), NEW j \in 1..(Len(l) + 1), i < j
       PROVE  m[i] # m[j] /\ sizes[m[i]] <= sizes[m[j]]
  <2>1. CASE j < k
    <3>1. m[i] = l[i] /\ m[j] = l[j] /\ i \in 1..Len(l) /\ j \in 1..Len(l)
      BY <1>0, <1>2, <1>4, <1>10, <2>1
    <3> QED BY <1>8, <1>9, <1>10, <3>1
  <2>2. CASE j = k
    <3>1. m[i] = l[i] /\ m[j] = b /\ i \in 1..Len(l)
      BY <1>0, <1>2, <1>4, <1>10, <2>2
    <3>2. sizes[l[i]] < sizes[b]
      BY <1>2, <1>10, <2>2, <3>1
    <3> QED BY <1>0, <1>7, <3>1, <3>2
  <2>3. CASE j > k
    <3>1. m[j] = l[j-1] /\ j-1 \in 1..Len(l)
      BY <1>0, <1>2, <1>4, <2>3
    <3>2. CASE i < k
      <4>1. m[i] = l[i] /\ i \in 1..Len(l) /\ i < j - 1
        BY <1>0, <1>2, <1>4, <2>3, <3>2
      <4> QED BY <1>8, <1>9, <3>1, <4>1
    <3>3. CASE i = k
      <4>1. m[i] = b /\ k \in 1..Len(l) /\ sizes[l[k]] >= sizes[b]
        BY <1>0, <1>2, <1>4, <2>3, <3>3
      <4>2. k = j - 1 \/ sizes[l[k]] <= sizes[l[j-1]]
        BY <1>0, <1>2, <1>9, <2>3, <3>1, <4>1
      <4>3. sizes[b] <= sizes[l[j-1]]
        <5>1. sizes[l[k]] \in Nat /\ sizes[l[j-1]] \in Nat /\ sizes[b] \in Nat
          BY <1>0, <3>1, <4>1
        <5>2. sizes[l[k]] <= sizes[l[j-1]]
          <6>1. CASE k = j - 1
            BY <5>1, <6>1
          <6> QED BY <4>2, <6>1
        <5>3. \A x, y, z \in Nat : x >= y /\ x <= z => y <= z
          OBVIOUS
        <5> QED BY <4>1, <5>1, <5>2, <5>3, Zenon
      <4> QED BY <1>7, <3>1, <4>1, <4>3
    <3>4. CASE i > k
      <4>1. m[i] = l[i-1] /\ i-1 \in 1..Len(l) /\ i-1 < j-1 /\ i-1 # j-1
        BY <1>0, <1>2, <1>4, <1>10, <3>4
      <4> QED BY <1>8, <1>9, <3>1, <4>1
    <3> QED BY <1>0, <1>2, <3>2, <3>3, <3>4
  <2> QED BY <1>0, <1>2, <2>1, <2>2, <2>3
<1>11. IsInjective(m)
  <2>1. ASSUME NEW i \in 1..(Len(l) + 1), NEW j \in 1..(Len(l) + 1), m[i] = m[j] PROVE i = j
    BY <1>0, <1>10, <2>1
  <2> QED BY <1>5, <2>1 DEF IsInjective
<1>12. Ordered(m, sizes)
  BY <1>4, <1>10 DEF Ordered
<1> QED BY <1>3, <1>4, <1>6, <1>11, <1>12

\* Unlinking a block keeps the order of the rest.
LEMMA UnlinkProperties ==
  ASSUME NEW D, NEW sizes, NEW l \in Seq(D), NEW k \in 1..Len(l),
         IsInjective(l), Ordered(l, sizes)
  PROVE  /\ RemoveAt(l, k) \in Seq(D)
         /\ ToSet(RemoveAt(l, k)) = ToSet(l) \ {l[k]}
         /\ IsInjective(RemoveAt(l, k))
         /\ Ordered(RemoveAt(l, k), sizes)
<1> DEFINE m == RemoveAt(l, k)
<1>0. Len(l) \in Nat /\ DOMAIN l = 1..Len(l) /\ k \in Nat
  OBVIOUS
<1>1. /\ m \in Seq(D)
      /\ Len(m) = Len(l) - 1
      /\ \A i \in 1..(Len(l) - 1) : m[i] = IF i < k THEN l[i] ELSE l[i+1]
  BY RemoveAtProperties
<1> HIDE DEF m
<1>2. DOMAIN m = 1..(Len(l) - 1)
  BY <1>0, <1>1
<1>3. \A i, j \in 1..Len(l) : l[i] = l[j] => i = j
  BY <1>0 DEF IsInjective
<1>4. \A i, j \in 1..Len(l) : i < j => sizes[l[i]] <= sizes[l[j]]
  BY DEF Ordered
<1>5. ASSUME NEW i \in 1..(Len(l) - 1)
      PROVE  \E p \in 1..Len(l) : m[i] = l[p] /\ p # k /\ (p = IF i < k THEN i ELSE i + 1)
  <2> DEFINE p == IF i < k THEN i ELSE i + 1
  <2>1. p \in 1..Len(l) /\ m[i] = l[p] /\ p # k
    BY <1>0, <1>1
  <2> QED BY <2>1
<1>6. ASSUME NEW i \in 1..(Len(l) - 1), NEW j \in 1..(Len(l) - 1), i < j
      PROVE  m[i] # m[j] /\ sizes[m[i]] <= sizes[m[j]]
  <2>1. PICK p \in 1..Len(l) : m[i] = l[p] /\ (p = IF i < k THEN i ELSE i + 1)
    BY <1>5
  <2>2. PICK q \in 1..Len(l) : m[j] = l[q] /\ (q = IF j < k THEN j ELSE j + 1)
    BY <1>5
  <2>3. p < q /\ p # q
    BY <1>0, <1>6, <2>1, <2>2
  <2>4. m[i] # m[j]
    BY <1>3, <2>1, <2>2, <2>3
  <2> QED BY <1>4, <2>1, <2>2, <2>3, <2>4
<1>7. ToSet(m) = ToSet(l) \ {l[k]}
  <2>1. ASSUME NEW i \in 1..(Len(l) - 1) PROVE m[i] \in ToSet(l) \ {l[k]}
    <3>1. PICK p \in 1..Len(l) : m[i] = l[p] /\ p # k
      BY <1>5
    <3> QED BY <1>0, <1>3, <3>1 DEF ToSet
  <2>2. ASSUME NEW p \in 1..Len(l), l[p] # l[k] PROVE l[p] \in ToSet(m)
    <3> DEFINE i == IF p < k THEN p ELSE p - 1
    <3>0. p # k
      BY <2>2
    <3>1. i \in 1..(Len(l) - 1)
      BY <1>0, <3>0
    <3>2. m[i] = l[p]
      BY <1>0, <1>1, <3>0, <3>1
    <3> QED BY <1>2, <3>1, <3>2 DEF ToSet
  <2> QED BY <1>0, <1>2, <2>1, <2>2 DEF ToSet
<1>8. IsInjective(m)
  <2>1. ASSUME NEW i \in 1..(Len(l) - 1), NEW j \in 1..(Len(l) - 1), m[i] = m[j] PROVE i = j
    BY <1>0, <1>6, <2>1
  <2> QED BY <1>2, <2>1 DEF IsInjective
<1>9. Ordered(m, sizes)
  BY <1>1, <1>6 DEF Ordered
<1> QED BY <1>1, <1>7, <1>8, <1>9 DEF m

\* What allocMem finds is in the list and large enough.
LEMMA FirstFitProperties ==
  ASSUME NEW D, freeList \in Seq(D), NEW sizes, NEW need, FirstFit(sizes, need) # 0
  PROVE  /\ FirstFit(sizes, need) \in 1..Len(freeList)
         /\ sizes[freeList[FirstFit(sizes, need)]] >= need
<1> DEFINE I == {i \in 1..Len(freeList) : sizes[freeList[i]] >= need}
<1>1. FirstFit(sizes, need) = IF I # {} THEN Min(I) ELSE 0
  BY DEF FirstFit, SelectInSeq
<1>2. I # {} /\ FirstFit(sizes, need) = Min(I)
  BY <1>1
<1>3. Min(I) \in I
  <2>1. I \in SUBSET Nat
    OBVIOUS
  <2> HIDE DEF I
  <2>2. \E j \in I : \A i \in I : j <= i
    BY <1>2, <2>1, LeastNatural
  <2> QED BY <2>2 DEF Min
<1> QED BY <1>2, <1>3
-----------------------------------------------------------------------------
(* HEAP2: the sizes of all blocks add up to the heap, and those of the     *)
(* free ones to the count of free bytes.                                   *)

\* Headers lie and blocks end at multiples of the alignment.
Aligned ==
  \A b \in DOMAIN blocks :
    /\ b \in 0..(TOTAL_HEAP_SIZE - 1) /\ b % BYTE_ALIGNMENT = 0
    /\ blocks[b] \in STRUCT_SIZE..TOTAL_HEAP_SIZE
    /\ blocks[b] % BYTE_ALIGNMENT = 0

\* The inductive invariant of HEAP2.
HeapInv ==
  /\ blocks = [b \in DOMAIN blocks |-> blocks[b]]
  /\ granted = [b \in DOMAIN granted |-> granted[b]]
  /\ DOMAIN granted \subseteq DOMAIN blocks
  /\ \A b \in DOMAIN granted : granted[b] \in Nat \ {0}
  /\ freeList \in Seq(DOMAIN blocks)
  /\ Aligned
  /\ Tile(blocks)
  /\ ToSet(freeList) = DOMAIN blocks \ DOMAIN granted
  /\ IsInjective(freeList)
  /\ Ordered(freeList, blocks)
  /\ GrantsFit(blocks)
  /\ SumOn(blocks, DOMAIN blocks) = TOTAL_HEAP_SIZE
  /\ freeBytesRemaining = SumOn(blocks, ToSet(freeList))

\* What every proof needs of the invariant.
LEMMA HeapFacts ==
  ASSUME HeapInv
  PROVE  /\ BYTE_ALIGNMENT \in Nat \ {0} /\ STRUCT_SIZE \in Nat \ {0}
         /\ TOTAL_HEAP_SIZE \in Nat
         /\ DOMAIN blocks \subseteq Nat /\ IsFiniteSet(DOMAIN blocks)
         /\ \A b \in DOMAIN blocks : blocks[b] \in Nat \ {0}
         /\ \A b \in DOMAIN granted : granted[b] \in Nat \ {0}
         /\ freeList \in Seq(DOMAIN blocks)
         /\ IsInjective(freeList) /\ Ordered(freeList, blocks)
         /\ ToSet(freeList) = DOMAIN blocks \ DOMAIN granted
         /\ freeBytesRemaining \in Nat /\ freeBytesRemaining <= TOTAL_HEAP_SIZE
<1>1. BYTE_ALIGNMENT \in Nat \ {0} /\ STRUCT_SIZE \in Nat \ {0} /\ TOTAL_HEAP_SIZE \in Nat
  BY AlignmentAssumption, StructAssumption, TotalAssumption
<1>2. DOMAIN blocks \subseteq 0..(TOTAL_HEAP_SIZE - 1)
  BY DEF HeapInv, Aligned
<1>3. IsFiniteSet(DOMAIN blocks)
  <2>1. IsFiniteSet(0..(TOTAL_HEAP_SIZE - 1))
    BY <1>1, FS_Interval
  <2> QED BY <1>2, <2>1, FS_Subset
<1>4. \A b \in DOMAIN blocks : blocks[b] \in Nat \ {0}
  BY <1>1 DEF HeapInv, Aligned
<1>5. /\ freeList \in Seq(DOMAIN blocks)
      /\ IsInjective(freeList) /\ Ordered(freeList, blocks)
      /\ ToSet(freeList) = DOMAIN blocks \ DOMAIN granted
  BY DEF HeapInv
<1>6. freeBytesRemaining \in Nat /\ freeBytesRemaining <= TOTAL_HEAP_SIZE
  <2>1. ToSet(freeList) \in SUBSET DOMAIN blocks
    BY <1>5
  <2>2. SumOn(blocks, ToSet(freeList)) \in Nat
        /\ SumOn(blocks, ToSet(freeList)) <= SumOn(blocks, DOMAIN blocks)
    BY <1>3, <1>4, <2>1, SumMonotone
  <2> QED BY <2>2 DEF HeapInv
<1> QED BY <1>1, <1>2, <1>3, <1>4, <1>5, <1>6 DEF HeapInv

\* The inductive invariant is at least the invariant of HEAP2 that TLC checks.
LEMMA HeapInvImpliesInv ==
  ASSUME HeapInv
  PROVE  Heap2Manager!Inv
<1>1. Heap2Manager!TypeOK
  BY HeapFacts DEF HeapInv, Aligned, Heap2Manager!TypeOK
<1>2. Heap2Manager!Tile(blocks)
  BY DEF HeapInv, Tile, Heap2Manager!Tile
<1>3. Heap2Manager!FreeListSorted(blocks)
  BY DEF HeapInv, Ordered, ToSet, IsInjective, Heap2Manager!FreeListSorted,
         Heap2Manager!ToSet, Heap2Manager!IsInjective, Heap2Manager!IsSorted
<1>4. Heap2Manager!GrantsFit(blocks)
  BY DEF HeapInv, GrantsFit, Heap2Manager!GrantsFit
<1>5. freeBytesRemaining = Heap2Manager!FreeBytes(blocks)
  BY DEF HeapInv, SumOn, MapThenSumSet, MapThenFoldSet, ToSet, Heap2Manager!FreeBytes,
         Heap2Manager!MapThenSumSet, Heap2Manager!MapThenFoldSet, Heap2Manager!ToSet
<1> QED BY <1>1, <1>2, <1>3, <1>4, <1>5 DEF Heap2Manager!Inv

\* createMemoryManager: one free block.
LEMMA HeapInit ==
  ASSUME Heap2Manager!Init
  PROVE  HeapInv
<1>0. /\ blocks = [x \in {0} |-> TOTAL_HEAP_SIZE]
      /\ freeList = <<0>> /\ freeBytesRemaining = TOTAL_HEAP_SIZE
      /\ granted = <<>>
  BY DEF Heap2Manager!Init
<1>1. TOTAL_HEAP_SIZE \in Nat \ {0} /\ STRUCT_SIZE \in Nat \ {0} /\ BYTE_ALIGNMENT \in Nat \ {0}
      /\ STRUCT_SIZE < TOTAL_HEAP_SIZE /\ TOTAL_HEAP_SIZE % BYTE_ALIGNMENT = 0
  BY TotalAssumption, StructAssumption, AlignmentAssumption
<1>2. DOMAIN blocks = {0} /\ blocks[0] = TOTAL_HEAP_SIZE /\ DOMAIN granted = {}
  BY <1>0
<1>3. 0 % BYTE_ALIGNMENT = 0
  <2>1. (BYTE_ALIGNMENT * 0) % BYTE_ALIGNMENT = 0
    BY <1>1, MultipleMod
  <2> QED BY <1>1, <2>1
<1>4. Aligned
  BY <1>1, <1>2, <1>3 DEF Aligned
<1>5. Tile(blocks)
  BY <1>1, <1>2 DEF Tile
<1>6. /\ freeList \in Seq(DOMAIN blocks) /\ ToSet(freeList) = {0}
      /\ IsInjective(freeList) /\ Ordered(freeList, blocks)
  <2>1. freeList \in Seq({0}) /\ Len(freeList) = 1 /\ DOMAIN freeList = 1..1
        /\ freeList[1] = 0
    BY <1>0
  <2>2. ToSet(freeList) = {0}
    BY <2>1 DEF ToSet
  <2>3. IsInjective(freeList)
    BY <2>1 DEF IsInjective
  <2>4. Ordered(freeList, blocks)
    BY <2>1 DEF Ordered
  <2> QED BY <1>2, <2>1, <2>2, <2>3, <2>4
<1>7. GrantsFit(blocks)
  BY <1>2 DEF GrantsFit
<1>8. SumOn(blocks, {0}) = TOTAL_HEAP_SIZE
  <2>1. IsFiniteSet({}) /\ 0 \notin {} /\ \A y \in {} \union {0} : blocks[y] \in Int
    BY <1>1, <1>2, FS_EmptySet
  <2>2. SumOn(blocks, {} \union {0}) = SumOn(blocks, {}) + blocks[0]
    BY <2>1, SumAdd
  <2>3. {} \union {0} = {0}
    OBVIOUS
  <2> QED BY <1>1, <1>2, <2>2, <2>3, SumEmpty
<1> QED BY <1>0, <1>2, <1>4, <1>5, <1>6, <1>7, <1>8 DEF HeapInv

\* allocMem of n bytes finds the block b, the i-th of the list, and cuts it or not.
Cuts(b, need) ==
  /\ blocks[b] - need > STRUCT_SIZE * 2
  /\ blocks' = [y \in DOMAIN blocks \union {b + need} |->
                  IF y = b + need THEN blocks[b] - need
                  ELSE IF y = b THEN need ELSE blocks[y]]

Takes(n, i, b) ==
  /\ n \in Nat \ {0} /\ i \in 1..Len(freeList) /\ b = freeList[i]
  /\ blocks[b] >= Needed(n)
  /\ granted' = [y \in DOMAIN granted \union {b} |-> IF y = b THEN n ELSE granted[y]]
  /\ freeBytesRemaining' = freeBytesRemaining - blocks'[b]
  /\ \/ /\ Cuts(b, Needed(n))
        /\ freeList' = Insert(RemoveAt(freeList, i), blocks', b + Needed(n))
     \/ /\ UNCHANGED blocks
        /\ freeList' = RemoveAt(freeList, i)

\* Every allocMem that finds a block does one of the two.
LEMMA AllocTakes ==
  ASSUME HeapInv, NEW n \in Requests, Heap2Manager!AllocMem(n)
  PROVE  \E i, b : Takes(n, i, b)
<1> DEFINE need == Needed(n)
           i == FirstFit(blocks, need)
           b == freeList[i]
<1>1. /\ Heap2Manager!Needed(n) = need
      /\ Heap2Manager!FirstFit(blocks, need) = i
  BY DEF Needed, Heap2Manager!Needed, FirstFit, Heap2Manager!FirstFit,
         SelectInSeq, Heap2Manager!SelectInSeq, Min, Heap2Manager!Min
<1>2. n \in Nat
  BY RequestsAssumption, WordAssumption, StructAssumption, AlignmentAssumption
<1>3. n # 0 /\ i # 0
  BY <1>1 DEF Heap2Manager!AllocMem
<1>4. i \in 1..Len(freeList) /\ blocks[b] >= need
  BY <1>3, HeapFacts, FirstFitProperties
<1>5. b \in DOMAIN blocks
  BY <1>4, HeapFacts
<1> HIDE DEF need, i
<1>6. /\ freeBytesRemaining' = freeBytesRemaining - blocks'[b]
      /\ granted' = Heap2Manager!With(granted, b, n)
      /\ IF Heap2Manager!Splits(b, need)
         THEN /\ blocks' = Heap2Manager!SplitSizes(b, need)
              /\ freeList' = Heap2Manager!Insert(Heap2Manager!RemoveAt(freeList, i),
                                                  blocks', b + need)
         ELSE /\ freeList' = Heap2Manager!RemoveAt(freeList, i)
              /\ UNCHANGED blocks
  BY <1>1 DEF Heap2Manager!AllocMem
<1>7. granted' = [y \in DOMAIN granted \union {b} |-> IF y = b THEN n ELSE granted[y]]
  BY <1>6 DEF Heap2Manager!With
<1>8. \A l, k, s, x : Heap2Manager!Insert(l, s, x) = Insert(l, s, x)
                      /\ Heap2Manager!RemoveAt(l, k) = RemoveAt(l, k)
  BY DEF Insert, Heap2Manager!Insert, InsertAt, Heap2Manager!InsertAt, Min, Heap2Manager!Min,
         RemoveAt, Heap2Manager!RemoveAt
<1>9. CASE Heap2Manager!Splits(b, need)
  <2>1. blocks' = [y \in DOMAIN blocks \union {b + need} |->
                     IF y = b + need THEN blocks[b] - need
                     ELSE IF y = b THEN need ELSE blocks[y]]
    BY <1>5, <1>6, <1>9 DEF Heap2Manager!SplitSizes, Heap2Manager!With, HeapInv
  <2>2. blocks[b] - need > STRUCT_SIZE * 2
    BY <1>9 DEF Heap2Manager!Splits, Heap2Manager!MINIMUM_BLOCK_SIZE
  <2>3. Cuts(b, need)
    BY <2>1, <2>2 DEF Cuts
  <2>4. freeList' = Insert(RemoveAt(freeList, i), blocks', b + need)
    BY <1>6, <1>8, <1>9
  <2> QED BY <1>2, <1>3, <1>4, <1>6, <1>7, <2>3, <2>4 DEF Takes, need
<1>10. CASE ~Heap2Manager!Splits(b, need)
  BY <1>2, <1>3, <1>4, <1>6, <1>7, <1>8, <1>10 DEF Takes, need
<1> QED BY <1>9, <1>10

\* What every allocation finds.
LEMMA TakesFacts ==
  ASSUME HeapInv, NEW n, NEW i, NEW b, Takes(n, i, b)
  PROVE  /\ n \in Nat \ {0} /\ b \in DOMAIN blocks /\ b \notin DOMAIN granted
         /\ b \in Nat /\ blocks[b] \in Nat
         /\ Needed(n) \in Nat /\ Needed(n) >= n + STRUCT_SIZE
         /\ Needed(n) % BYTE_ALIGNMENT = 0
         /\ blocks[b] >= Needed(n)
         /\ RemoveAt(freeList, i) \in Seq(DOMAIN blocks)
         /\ ToSet(RemoveAt(freeList, i)) = ToSet(freeList) \ {b}
         /\ IsInjective(RemoveAt(freeList, i))
         /\ Ordered(RemoveAt(freeList, i), blocks)
<1>1. n \in Nat \ {0} /\ i \in 1..Len(freeList) /\ b = freeList[i] /\ blocks[b] >= Needed(n)
  BY DEF Takes
<1>2. b \in ToSet(freeList) /\ b \in DOMAIN blocks
  BY <1>1, HeapFacts DEF ToSet
<1>3. /\ RemoveAt(freeList, i) \in Seq(DOMAIN blocks)
      /\ ToSet(RemoveAt(freeList, i)) = ToSet(freeList) \ {b}
      /\ IsInjective(RemoveAt(freeList, i))
      /\ Ordered(RemoveAt(freeList, i), blocks)
  BY <1>1, HeapFacts, UnlinkProperties
<1> QED BY <1>1, <1>2, <1>3, HeapFacts, NeededProperties

\* A whole block is handed out.
LEMMA TakeWhole ==
  ASSUME HeapInv, NEW n, NEW i, NEW b, Takes(n, i, b), UNCHANGED blocks,
         freeList' = RemoveAt(freeList, i)
  PROVE  HeapInv'
<1>1. /\ n \in Nat \ {0} /\ b \in DOMAIN blocks /\ b \notin DOMAIN granted
      /\ blocks[b] >= Needed(n) /\ Needed(n) >= n + STRUCT_SIZE
      /\ Needed(n) \in Nat /\ blocks[b] \in Nat
  BY TakesFacts
<1>2. /\ granted' = [y \in DOMAIN granted \union {b} |-> IF y = b THEN n ELSE granted[y]]
      /\ freeBytesRemaining' = freeBytesRemaining - blocks[b]
  BY DEF Takes
<1>3. DOMAIN granted' = DOMAIN granted \union {b}
  BY <1>2
<1>4. freeList' \in Seq(DOMAIN blocks') /\ IsInjective(freeList)' /\ Ordered(freeList, blocks)'
  BY TakesFacts DEF Ordered
<1>5. ToSet(freeList)' = ToSet(freeList) \ {b}
  BY TakesFacts
<1>6. ToSet(freeList)' = DOMAIN blocks' \ DOMAIN granted'
  BY <1>3, <1>5, HeapFacts
<1>7. \A c \in DOMAIN granted' : granted'[c] \in Nat \ {0}
  BY <1>1, <1>2, HeapFacts
<1>8. GrantsFit(blocks)'
  <2> SUFFICES ASSUME NEW c \in DOMAIN granted' PROVE blocks[c] >= granted'[c] + STRUCT_SIZE
    BY DEF GrantsFit
  <2>1. CASE c = b
    BY <1>1, <1>2, <2>1, HeapFacts
  <2>2. CASE c # b
    BY <1>2, <2>2 DEF HeapInv, GrantsFit
  <2> QED BY <2>1, <2>2
<1>9. freeBytesRemaining' = SumOn(blocks, ToSet(freeList)')
  <2> DEFINE R == ToSet(freeList) \ {b}
  <2>1. R \union {b} = ToSet(freeList) /\ b \notin R
    BY <1>1, HeapFacts
  <2>2. IsFiniteSet(R) /\ \A y \in R \union {b} : blocks[y] \in Int
    <3>1. R \in SUBSET DOMAIN blocks
      BY HeapFacts
    <3> QED BY <1>1, <3>1, HeapFacts, FS_Subset
  <2> HIDE DEF R
  <2>3. SumOn(blocks, R) \in Int /\ SumOn(blocks, R \union {b}) = SumOn(blocks, R) + blocks[b]
    BY <2>1, <2>2, SumAdd
  <2>4. freeBytesRemaining = SumOn(blocks, R \union {b})
    BY <2>1 DEF HeapInv
  <2>5. freeBytesRemaining' = SumOn(blocks, R)
    BY <1>1, <1>2, <2>3, <2>4
  <2> QED BY <1>5, <2>5 DEF R
<1>10. Aligned' /\ Tile(blocks)'
  BY DEF HeapInv, Aligned, Tile
<1>11. /\ granted' = [c \in DOMAIN granted' |-> granted'[c]]
       /\ DOMAIN granted' \subseteq DOMAIN blocks'
  BY <1>1, <1>2 DEF HeapInv
<1> QED BY <1>4, <1>6, <1>7, <1>8, <1>9, <1>10, <1>11 DEF HeapInv

\* A block is cut: the front is handed out and the rest goes back into the list.
LEMMA TakeCut ==
  ASSUME HeapInv, NEW n, NEW i, NEW b, Takes(n, i, b), Cuts(b, Needed(n)),
         freeList' = Insert(RemoveAt(freeList, i), blocks', b + Needed(n))
  PROVE  HeapInv'
<1> DEFINE need == Needed(n)
           c == b + need
           rest == RemoveAt(freeList, i)
           D == DOMAIN blocks
<1>1. /\ n \in Nat \ {0} /\ b \in D /\ b \notin DOMAIN granted
      /\ b \in Nat /\ blocks[b] \in Nat
      /\ need \in Nat /\ need >= n + STRUCT_SIZE /\ need % BYTE_ALIGNMENT = 0
      /\ blocks[b] >= need /\ blocks[b] - need > STRUCT_SIZE * 2
  BY TakesFacts DEF Cuts
<1>2. /\ granted' = [y \in DOMAIN granted \union {b} |-> IF y = b THEN n ELSE granted[y]]
      /\ freeBytesRemaining' = freeBytesRemaining - blocks'[b]
      /\ blocks' = [y \in D \union {c} |-> IF y = c THEN blocks[b] - need
                                           ELSE IF y = b THEN need ELSE blocks[y]]
  BY DEF Takes, Cuts
<1>3. /\ rest \in Seq(D) /\ ToSet(rest) = ToSet(freeList) \ {b}
      /\ IsInjective(rest) /\ Ordered(rest, blocks)
  BY TakesFacts
<1>4. STRUCT_SIZE \in Nat \ {0} /\ BYTE_ALIGNMENT \in Nat \ {0} /\ TOTAL_HEAP_SIZE \in Nat
      /\ D \subseteq Nat /\ IsFiniteSet(D) /\ \A y \in D : blocks[y] \in Nat \ {0}
  BY HeapFacts
<1> HIDE DEF need, rest
<1>5. c \in Nat /\ c > b /\ c < b + blocks[b]
  BY <1>1, <1>4
<1>6. /\ \A y \in D : /\ y + blocks[y] = TOTAL_HEAP_SIZE \/ y + blocks[y] \in D
                      /\ \A z \in D : z <= y \/ z >= y + blocks[y]
      /\ \A y \in D : y < TOTAL_HEAP_SIZE
  BY <1>4 DEF HeapInv, Tile, Aligned
<1>7. c \notin D
  BY <1>1, <1>4, <1>5, <1>6
<1>8. /\ DOMAIN blocks' = D \union {c}
      /\ blocks'[c] = blocks[b] - need
      /\ blocks'[b] = need
      /\ \A y \in D : y # b => blocks'[y] = blocks[y]
  BY <1>1, <1>2, <1>7
<1>9. \A y \in D \union {c} : y \in Nat /\ blocks'[y] \in Nat
  <2>1. blocks[b] - need \in Nat
    BY <1>1
  <2> QED BY <1>1, <1>4, <1>5, <1>8, <2>1
<1>10. Tile(blocks)'
  <2>1. 0 \in DOMAIN blocks'
    BY <1>8 DEF HeapInv, Tile
  <2>2. ASSUME NEW y \in D \union {c}, NEW z \in D \union {c}
        PROVE  /\ y + blocks'[y] = TOTAL_HEAP_SIZE \/ y + blocks'[y] \in D \union {c}
               /\ z <= y \/ z >= y + blocks'[y]
    <3>1. CASE y = c
      <4>1. y + blocks'[y] = b + blocks[b]
        BY <1>1, <1>8, <3>1
      <4>2. z <= b \/ z >= b + blocks[b] \/ z = c
        BY <1>1, <1>6
      <4> QED BY <1>1, <1>4, <1>5, <1>6, <3>1, <4>1, <4>2
    <3>2. CASE y = b
      <4>1. y + blocks'[y] = c
        BY <1>8, <3>2
      <4>2. z <= b \/ z >= b + blocks[b] \/ z = c
        BY <1>1, <1>6
      <4> QED BY <1>1, <1>4, <1>5, <3>2, <4>1, <4>2
    <3>3. CASE y # c /\ y # b
      <4>1. y \in D /\ blocks'[y] = blocks[y] /\ y \in Nat /\ blocks[y] \in Nat
        BY <1>4, <1>8, <3>3
      <4>2. CASE z \in D
        BY <1>6, <4>1, <4>2
      <4>3. CASE z = c
        <5>1. b <= y \/ b >= y + blocks[y]
          BY <1>1, <1>6, <4>1
        <5>2. y <= b \/ y >= b + blocks[b]
          BY <1>1, <1>6, <4>1
        <5> QED BY <1>1, <1>5, <1>6, <3>3, <4>1, <4>3, <5>1, <5>2
      <4> QED BY <4>2, <4>3
    <3> QED BY <3>1, <3>2, <3>3
  <2> QED BY <1>8, <2>1, <2>2 DEF Tile
<1>11. Aligned'
  <2>1. b % BYTE_ALIGNMENT = 0 /\ blocks[b] % BYTE_ALIGNMENT = 0 /\ blocks[b] <= TOTAL_HEAP_SIZE
    BY <1>1 DEF HeapInv, Aligned
  <2>2. c % BYTE_ALIGNMENT = 0 /\ (blocks[b] - need) % BYTE_ALIGNMENT = 0
    BY <1>1, <1>4, <2>1, AlignedSum
  <2>3. c < TOTAL_HEAP_SIZE
    <3>1. b + blocks[b] <= TOTAL_HEAP_SIZE
      BY <1>1, <1>4, <1>6
    <3> QED BY <1>1, <1>4, <1>5, <3>1
  <2>4. /\ need \in STRUCT_SIZE..TOTAL_HEAP_SIZE
        /\ blocks[b] - need \in STRUCT_SIZE..TOTAL_HEAP_SIZE
    BY <1>1, <1>4, <2>1
  <2>5. ASSUME NEW y \in D \union {c}
        PROVE  /\ y \in 0..(TOTAL_HEAP_SIZE - 1) /\ y % BYTE_ALIGNMENT = 0
               /\ blocks'[y] \in STRUCT_SIZE..TOTAL_HEAP_SIZE
               /\ blocks'[y] % BYTE_ALIGNMENT = 0
    <3>1. CASE y = c
      <4>1. c \in 0..(TOTAL_HEAP_SIZE - 1)
        BY <1>4, <1>5, <2>3
      <4> QED BY <1>8, <2>2, <2>4, <3>1, <4>1
    <3>2. CASE y = b
      BY <1>1, <1>8, <2>4, <3>2 DEF HeapInv, Aligned
    <3>3. CASE y \in D /\ y # b
      BY <1>8, <3>3 DEF HeapInv, Aligned
    <3> QED BY <3>1, <3>2, <3>3
  <2> QED BY <1>8, <2>5 DEF Aligned
<1>12. /\ freeList' \in Seq(D \union {c})
       /\ ToSet(freeList)' = (ToSet(freeList) \ {b}) \union {c}
       /\ IsInjective(freeList)' /\ Ordered(freeList, blocks)'
  <2>1. rest \in Seq(D \union {c})
    BY <1>3
  <2>2. c \notin ToSet(rest)
    BY <1>3, <1>7, HeapFacts
  <2>3. Ordered(rest, blocks')
    <3> SUFFICES ASSUME NEW j \in 1..Len(rest), NEW k \in 1..Len(rest), j < k
                 PROVE  blocks'[rest[j]] <= blocks'[rest[k]]
      BY DEF Ordered
    <3>1. \A m \in 1..Len(rest) : rest[m] \in D /\ rest[m] # b
      BY <1>3 DEF ToSet
    <3> QED BY <1>3, <1>8, <3>1 DEF Ordered
  <2>4. freeList' = Insert(rest, blocks', c)
    BY DEF rest, need
  <2>5. /\ Insert(rest, blocks', c) \in Seq(D \union {c})
        /\ ToSet(Insert(rest, blocks', c)) = ToSet(rest) \union {c}
        /\ IsInjective(Insert(rest, blocks', c))
        /\ Ordered(Insert(rest, blocks', c), blocks')
    <3>1. c \in D \union {c}
      OBVIOUS
    <3> HIDE DEF c
    <3> QED BY <1>3, <1>9, <2>1, <2>2, <2>3, <3>1, InsertProperties
  <2> QED BY <1>3, <2>4, <2>5
<1>13. DOMAIN granted' = DOMAIN granted \union {b}
  BY <1>2
<1>14. ToSet(freeList)' = DOMAIN blocks' \ DOMAIN granted'
  <2>1. c \notin DOMAIN granted /\ c # b
    BY <1>1, <1>5, <1>7 DEF HeapInv
  <2> QED BY <1>8, <1>12, <1>13, <2>1, HeapFacts
<1>15. \A y \in DOMAIN granted' : granted'[y] \in Nat \ {0}
  BY <1>1, <1>2, HeapFacts
<1>16. GrantsFit(blocks)'
  <2> SUFFICES ASSUME NEW y \in DOMAIN granted' PROVE blocks'[y] >= granted'[y] + STRUCT_SIZE
    BY DEF GrantsFit
  <2>1. CASE y = b
    BY <1>1, <1>2, <1>8, <2>1
  <2>2. CASE y # b
    <3>1. y \in DOMAIN granted /\ y \in D
      BY <1>13, <2>2 DEF HeapInv
    <3> QED BY <1>2, <1>8, <2>2, <3>1 DEF HeapInv, GrantsFit
  <2> QED BY <2>1, <2>2
<1>17. ASSUME NEW S \in SUBSET D, b \in S
       PROVE  /\ SumOn(blocks', (S \ {b}) \union {c}) = SumOn(blocks, S) - need
              /\ SumOn(blocks', S \union {c}) = SumOn(blocks, S)
              /\ SumOn(blocks, S) \in Int
  <2> DEFINE R == S \ {b}
  <2>1. IsFiniteSet(R) /\ IsFiniteSet(S) /\ c \notin S /\ b \notin R /\ S = R \union {b}
    <3>1. R \in SUBSET D
      OBVIOUS
    <3> QED BY <1>4, <1>7, <1>17, <3>1, FS_Subset
  <2>2. \A y \in S : blocks[y] \in Int /\ blocks'[y] \in Int
    BY <1>4, <1>9
  <2>3. blocks'[c] = blocks[b] - need /\ blocks[b] \in Int /\ need \in Int
    BY <1>1, <1>8
  <2>3a. \A y \in R : blocks'[y] = blocks[y]
    BY <1>8
  <2> HIDE DEF R, c
  <2>4. SumOn(blocks', R) = SumOn(blocks, R)
    BY <2>1, <2>3a, SumAgree
  <2>5. SumOn(blocks, R) \in Int /\ SumOn(blocks, R \union {b}) = SumOn(blocks, R) + blocks[b]
    BY <2>1, <2>2, SumAdd
  <2>6. SumOn(blocks', R \union {b}) = SumOn(blocks', R) + blocks'[b]
    BY <2>1, <2>2, SumAdd
  <2>7. SumOn(blocks', R \union {c}) = SumOn(blocks', R) + blocks'[c]
    <3>1. c \notin R /\ \A y \in R \union {c} : blocks'[y] \in Int
      BY <2>1, <2>2, <2>3
    <3> QED BY <2>1, <3>1, SumAdd
  <2>8. SumOn(blocks', S \union {c}) = SumOn(blocks', S) + blocks'[c]
    <3>1. c \notin S /\ \A y \in S \union {c} : blocks'[y] \in Int
      BY <2>1, <2>2, <2>3
    <3> QED BY <2>1, <3>1, SumAdd
  <2>9. SumOn(blocks, S) = SumOn(blocks, R) + blocks[b]
    BY <2>1, <2>5
  <2>10. SumOn(blocks', R \union {c}) = SumOn(blocks, S) - need
    BY <2>3, <2>4, <2>5, <2>7, <2>9
  <2>11. SumOn(blocks', S) = SumOn(blocks, R) + need
    BY <1>8, <2>1, <2>4, <2>6
  <2>12. SumOn(blocks', S \union {c}) = SumOn(blocks, S)
    BY <2>3, <2>5, <2>8, <2>9, <2>11
  <2>13. SumOn(blocks, S) \in Int
    BY <2>3, <2>5, <2>9
  <2> QED BY <2>10, <2>12, <2>13 DEF R
<1>18. SumOn(blocks, DOMAIN blocks)' = TOTAL_HEAP_SIZE
  BY <1>1, <1>8, <1>17 DEF HeapInv
<1>19. freeBytesRemaining' = SumOn(blocks, ToSet(freeList))'
  <2>1. b \in ToSet(freeList) /\ ToSet(freeList) \in SUBSET D
    BY <1>1, HeapFacts
  <2> QED BY <1>2, <1>8, <1>12, <1>17, <2>1 DEF HeapInv
<1>20. /\ blocks' = [y \in DOMAIN blocks' |-> blocks'[y]]
       /\ granted' = [y \in DOMAIN granted' |-> granted'[y]]
       /\ DOMAIN granted' \subseteq DOMAIN blocks'
  <2>1. DOMAIN granted' \subseteq DOMAIN blocks'
    BY <1>1, <1>8, <1>13 DEF HeapInv
  <2>2. granted' = [y \in DOMAIN granted' |-> granted'[y]]
    BY <1>2
  <2>3. blocks' = [y \in DOMAIN blocks' |-> blocks'[y]]
    BY <1>2
  <2> QED BY <2>1, <2>2, <2>3
<1> QED BY <1>8, <1>10, <1>11, <1>12, <1>14, <1>15, <1>16, <1>18, <1>19, <1>20 DEF HeapInv

\* allocMem.
LEMMA AllocKeeps ==
  ASSUME HeapInv, NEW n \in Requests, Heap2Manager!AllocMem(n)
  PROVE  HeapInv'
<1>1. PICK i, b : Takes(n, i, b)
  BY AllocTakes, Zenon
<1>2. CASE Cuts(b, Needed(n)) /\ freeList' = Insert(RemoveAt(freeList, i), blocks', b + Needed(n))
  BY <1>1, <1>2, TakeCut
<1>3. CASE UNCHANGED blocks /\ freeList' = RemoveAt(freeList, i)
  BY <1>1, <1>3, TakeWhole
<1> QED BY <1>1, <1>2, <1>3 DEF Takes

\* freeMem: the block goes back into the list as it is.
LEMMA FreeKeeps ==
  ASSUME HeapInv, NEW b \in DOMAIN granted, Heap2Manager!FreeMem(b)
  PROVE  HeapInv'
<1>1. /\ freeList' = Insert(freeList, blocks, b)
      /\ freeBytesRemaining' = freeBytesRemaining + blocks[b]
      /\ granted' = [y \in DOMAIN granted \ {b} |-> granted[y]]
      /\ UNCHANGED blocks
  BY DEF Heap2Manager!FreeMem, Heap2Manager!Insert, Insert, Heap2Manager!InsertAt, InsertAt,
         Heap2Manager!Min, Min, Heap2Manager!Restrict
<1>2. b \in DOMAIN blocks /\ b \notin ToSet(freeList) /\ blocks[b] \in Int
  BY HeapFacts DEF HeapInv
<1>3. /\ freeList' \in Seq(DOMAIN blocks)
      /\ ToSet(freeList)' = ToSet(freeList) \union {b}
      /\ IsInjective(freeList)' /\ Ordered(freeList, blocks)'
  <2>1. \A y \in DOMAIN blocks : blocks[y] \in Nat
    BY HeapFacts
  <2>2. /\ Insert(freeList, blocks, b) \in Seq(DOMAIN blocks)
        /\ ToSet(Insert(freeList, blocks, b)) = ToSet(freeList) \union {b}
        /\ IsInjective(Insert(freeList, blocks, b))
        /\ Ordered(Insert(freeList, blocks, b), blocks)
    BY <1>2, <2>1, HeapFacts, InsertProperties
  <2> QED BY <1>1, <2>2 DEF Ordered
<1>4. DOMAIN granted' = DOMAIN granted \ {b}
  BY <1>1
<1>5. ToSet(freeList)' = DOMAIN blocks' \ DOMAIN granted'
  BY <1>1, <1>2, <1>3, <1>4, HeapFacts
<1>6. SumOn(blocks, ToSet(freeList) \union {b}) = SumOn(blocks, ToSet(freeList)) + blocks[b]
  <2>1. IsFiniteSet(ToSet(freeList)) /\ \A y \in ToSet(freeList) \union {b} : blocks[y] \in Int
    <3>1. ToSet(freeList) \in SUBSET DOMAIN blocks
      BY HeapFacts
    <3> QED BY <1>2, <3>1, HeapFacts, FS_Subset
  <2> QED BY <1>2, <2>1, SumAdd
<1>7. freeBytesRemaining' = SumOn(blocks, ToSet(freeList))'
  BY <1>1, <1>3, <1>6 DEF HeapInv
<1>8. GrantsFit(blocks)' /\ \A y \in DOMAIN granted' : granted'[y] \in Nat \ {0}
  BY <1>1, <1>4 DEF HeapInv, GrantsFit
<1>9. granted' = [y \in DOMAIN granted' |-> granted'[y]] /\ DOMAIN granted' \subseteq DOMAIN blocks'
  BY <1>1, <1>4 DEF HeapInv
<1>10. Aligned' /\ Tile(blocks)'
  BY <1>1 DEF HeapInv, Aligned, Tile
<1> QED BY <1>1, <1>3, <1>5, <1>7, <1>8, <1>9, <1>10 DEF HeapInv
-----------------------------------------------------------------------------
(* BUDDY: the sizes of blocks                                              *)

\* Level satisfies its recursive definition.
LEMMA LevelDef ==
  /\ Level \in [0..32 -> Nat \ {0}]
  /\ Level[0] = BUDDY_BLOCK_SIZE
  /\ \A k \in 1..32 : Level[k] = 2 * Level[k-1]
<1> DEFINE Up(n, g) == [k \in 0..n |-> IF k = 0 THEN BUDDY_BLOCK_SIZE ELSE 2 * g[k-1]]
           Bad == {n \in Nat : ~ \E g : g = Up(n, g)}
<1>1. Bad = {}
  <2> SUFFICES ASSUME Bad # {} PROVE FALSE
    OBVIOUS
  <2>1. PICK n \in Bad : \A k \in Bad : n <= k
    BY LeastNatural, Zenon
  <2>2. n \in Nat /\ ~ \E g : g = Up(n, g)
    OBVIOUS
  <2>3. CASE n = 0
    <3>1. [k \in 0..0 |-> BUDDY_BLOCK_SIZE] = Up(0, [k \in 0..0 |-> BUDDY_BLOCK_SIZE])
      OBVIOUS
    <3> QED BY <2>2, <2>3, <3>1
  <2>4. CASE n # 0
    <3>1. n - 1 \in Nat /\ n - 1 \notin Bad
      <4>1. n - 1 \in Nat /\ ~ (n <= n - 1)
        BY <2>2, <2>4
      <4> QED BY <2>1, <4>1, Zenon
    <3>2. PICK g : g = Up(n - 1, g)
      BY <3>1
    <3>3. Up(n, g) = Up(n, Up(n, g))
      <4>1. ASSUME NEW k \in 1..n PROVE Up(n, g)[k-1] = g[k-1]
        <5>1. k - 1 \in 0..(n-1) /\ k - 1 \in 0..n
          BY <2>2
        <5> HIDE DEF Bad
        <5>2. g[k-1] = IF k-1 = 0 THEN BUDDY_BLOCK_SIZE ELSE 2 * g[(k-1)-1]
          BY <3>2, <5>1
        <5> QED BY <5>1, <5>2
      <4> DEFINE h == Up(n, g)
      <4>2. h = [k \in 0..n |-> h[k]]
        OBVIOUS
      <4>3. ASSUME NEW k \in 0..n
            PROVE  h[k] = IF k = 0 THEN BUDDY_BLOCK_SIZE ELSE 2 * h[k-1]
        <5>1. CASE k = 0
          BY <5>1
        <5>2. CASE k # 0
          <6>1. k \in 1..n
            BY <5>2
          <6>2. h[k-1] = g[k-1]
            BY <4>1, <6>1
          <6>3. h[k] = 2 * g[k-1]
            BY <5>2
          <6> HIDE DEF h
          <6> QED BY <5>2, <6>2, <6>3
        <5> QED BY <5>1, <5>2
      <4> HIDE DEF h
      <4>4. h = [k \in 0..n |-> IF k = 0 THEN BUDDY_BLOCK_SIZE ELSE 2 * h[k-1]]
        BY <4>2, <4>3
      <4> QED BY <4>4 DEF h
    <3> QED BY <2>2, <3>3
  <2> QED BY <2>3, <2>4
<1>2. \E g : g = Up(32, g)
  BY <1>1
<1> HIDE DEF Bad
<1>3. Level = Up(32, Level)
  BY <1>2, Zenon DEF Level
<1>4. /\ DOMAIN Level = 0..32
      /\ Level[0] = BUDDY_BLOCK_SIZE
      /\ \A k \in 1..32 : Level[k] = 2 * Level[k-1]
  BY <1>3
<1> DEFINE Wrong == {k \in 0..32 : Level[k] \notin Nat \ {0}}
<1>5. Wrong = {}
  <2> SUFFICES ASSUME Wrong # {} PROVE FALSE
    OBVIOUS
  <2>1. Wrong \in SUBSET Nat
    OBVIOUS
  <2>2. PICK k \in Wrong : \A j \in Wrong : k <= j
    BY <2>1, LeastNatural, Zenon
  <2>3. k # 0
    BY <1>4, BuddyAssumption, StructAssumption
  <2>4. k - 1 \notin Wrong /\ k - 1 \in 0..32
    BY <2>2, <2>3
  <2> QED BY <1>4, <2>3, <2>4
<1> HIDE DEF Wrong
<1>6. \A k \in 0..32 : Level[k] \in Nat \ {0}
  BY <1>5 DEF Wrong
<1>7. Level = [k \in 0..32 |-> Level[k]]
  BY <1>3
<1> QED BY <1>4, <1>6, <1>7

\* A larger level is twice a smaller one, so many times.
LEMMA LevelsDivide ==
  ASSUME NEW i \in 0..32, NEW j \in 0..32, i < j
  PROVE  \E k \in Nat \ {0} : Level[j] = (2 * Level[i]) * k
<1> DEFINE Wrong == {m \in 0..32 : i < m /\ ~ \E k \in Nat \ {0} : Level[m] = (2 * Level[i]) * k}
<1>1. ASSUME Wrong # {} PROVE FALSE
  <2>1. Wrong \in SUBSET Nat
    OBVIOUS
  <2>2. PICK m \in Wrong : \A l \in Wrong : m <= l
    BY <1>1, <2>1, LeastNatural, Zenon
  <2>3. m \in 1..32 /\ Level[m] = 2 * Level[m-1] /\ Level[i] \in Nat /\ Level[m-1] \in Nat
    BY LevelDef
  <2>4. CASE m - 1 = i
    <3>1. Level[m] = (2 * Level[i]) * 1
      BY <2>3, <2>4
    <3> QED BY <3>1
  <2>5. CASE m - 1 # i
    <3>1. m - 1 \notin Wrong
      BY <2>2, <2>3
    <3>2. PICK k \in Nat \ {0} : Level[m-1] = (2 * Level[i]) * k
      BY <2>3, <2>5, <3>1
    <3>3. Level[m] = (2 * Level[i]) * (2 * k) /\ 2 * k \in Nat \ {0}
      BY <2>3, <3>2
    <3> QED BY <3>3
  <2> QED BY <2>4, <2>5
<1> QED BY <1>1

\* The heap is of the Top-th level.
Top == CHOOSE k \in 0..32 : TOTAL_HEAP_SIZE = Level[k]

\* The sizes that a block can have.
BlockSizes == {Level[k] : k \in 0..Top}

\* They lie between the smallest block and the heap, which is made of smallest ones.
LEMMA BlockSizesFacts ==
  /\ Top \in 0..32 /\ TOTAL_HEAP_SIZE \in Nat \ {0} /\ BUDDY_BLOCK_SIZE \in Nat \ {0}
  /\ TOTAL_HEAP_SIZE \in BlockSizes
  /\ \A s \in BlockSizes : s \in Nat \ {0} /\ BUDDY_BLOCK_SIZE <= s /\ s <= TOTAL_HEAP_SIZE
  /\ \E n \in Nat : TOTAL_HEAP_SIZE = BUDDY_BLOCK_SIZE * n
<1>1. Top \in 0..32 /\ TOTAL_HEAP_SIZE = Level[Top]
  BY BuddyAssumption DEF Top
<1>2. TOTAL_HEAP_SIZE \in BlockSizes
  BY <1>1 DEF BlockSizes
<1>3. ASSUME NEW i \in 0..32, NEW j \in 0..32, i <= j
      PROVE  /\ Level[i] \in Nat \ {0} /\ Level[j] \in Nat \ {0} /\ Level[i] <= Level[j]
             /\ \E n \in Nat : Level[j] = Level[i] * n
  <2>1. Level[i] \in Nat \ {0} /\ Level[j] \in Nat \ {0}
    BY LevelDef
  <2>2. CASE i = j
    <3>1. Level[j] = Level[i] * 1
      BY <2>1, <2>2
    <3> QED BY <2>1, <2>2, <3>1
  <2>3. CASE i < j
    <3>1. PICK k \in Nat \ {0} : Level[j] = (2 * Level[i]) * k
      BY <2>3, LevelsDivide
    <3> DEFINE x == Level[i]
    <3> HIDE DEF x
    <3>2. x \in Nat /\ 2 * k \in Nat /\ 2 * k - 1 \in Nat
      BY <2>1 DEF x
    <3>3. Level[j] = x * (2 * k)
      BY <2>1, <3>1, <3>2 DEF x
    <3>4. x * (2 * k) = x + x * (2 * k - 1) /\ x * (2 * k - 1) \in Nat
      BY <3>2
    <3>5. x <= Level[j]
      BY <3>2, <3>3, <3>4
    <3>6. \E n \in Nat : Level[j] = x * n
      BY <3>2, <3>3
    <3> QED BY <2>1, <3>5, <3>6 DEF x
  <2> QED BY <1>3, <2>2, <2>3
<1>4. ASSUME NEW s \in BlockSizes
      PROVE  s \in Nat \ {0} /\ BUDDY_BLOCK_SIZE <= s /\ s <= TOTAL_HEAP_SIZE
  <2>1. PICK k \in 0..Top : s = Level[k]
    BY DEF BlockSizes
  <2>2. k \in 0..32 /\ k <= Top /\ 0 <= k /\ 0 \in 0..32 /\ Top \in 0..32
    BY <1>1
  <2>3. Level[0] <= Level[k] /\ Level[k] <= Level[Top] /\ Level[k] \in Nat \ {0}
    <3>1. Level[0] <= Level[k]
      BY <1>3, <2>2, Zenon
    <3>2. Level[k] <= Level[Top] /\ Level[k] \in Nat \ {0}
      BY <1>3, <2>2, Zenon
    <3> QED BY <3>1, <3>2
  <2> QED BY <1>1, <2>1, <2>3, LevelDef
<1>5. \E n \in Nat : TOTAL_HEAP_SIZE = BUDDY_BLOCK_SIZE * n
  <2>1. 0 \in 0..32 /\ 0 <= Top /\ Top \in 0..32
    BY <1>1
  <2>2. \E n \in Nat : Level[Top] = Level[0] * n
    BY <1>3, <2>1, Zenon
  <2> QED BY <1>1, <2>2, LevelDef
<1>6. BUDDY_BLOCK_SIZE \in Nat \ {0}
  <2>1. 0 \in 0..32
    OBVIOUS
  <2> QED BY <2>1, LevelDef
<1>7. TOTAL_HEAP_SIZE \in Nat \ {0}
  BY <1>1, LevelDef
<1> QED BY <1>1, <1>2, <1>4, <1>5, <1>6, <1>7

\* Two sizes are the same or one is twice the other, so many times.
LEMMA SizesDivide ==
  ASSUME NEW s \in BlockSizes, NEW t \in BlockSizes, s < t
  PROVE  \E k \in Nat \ {0} : t = (2 * s) * k
<1>1. PICK i \in 0..Top : s = Level[i]
  BY DEF BlockSizes
<1>2. PICK j \in 0..Top : t = Level[j]
  BY DEF BlockSizes
<1>3. i \in 0..32 /\ j \in 0..32 /\ s \in Nat /\ t \in Nat
  BY BlockSizesFacts
<1>4. i # j
  BY <1>1, <1>2, <1>3
<1>5. CASE j < i
  <2>1. PICK k \in Nat \ {0} : s = (2 * t) * k
    BY <1>1, <1>2, <1>3, <1>5, LevelsDivide
  <2>2. s = t + t * (2 * k - 1) /\ t * (2 * k - 1) \in Nat
    BY <1>3, <2>1
  <2> QED BY <1>3, <2>2
<1>6. CASE i < j
  BY <1>1, <1>2, <1>3, <1>6, LevelsDivide
<1> QED BY <1>3, <1>4, <1>5, <1>6

\* What merging and splitting make is a size again.
LEMMA SizesNext ==
  ASSUME NEW s \in BlockSizes
  PROVE  /\ s < TOTAL_HEAP_SIZE => 2 * s \in BlockSizes
         /\ s \div 2 >= BUDDY_BLOCK_SIZE => s \div 2 \in BlockSizes /\ s = 2 * (s \div 2)
<1>1. PICK k \in 0..Top : s = Level[k]
  BY DEF BlockSizes
<1>2. Top \in 0..32 /\ TOTAL_HEAP_SIZE = Level[Top]
  BY BuddyAssumption DEF Top
<1>3. ASSUME s < TOTAL_HEAP_SIZE PROVE 2 * s \in BlockSizes
  <2>1. k + 1 \in 1..32 /\ k + 1 \in 0..Top /\ (k + 1) - 1 = k
    <3>1. k # Top
      <4> SUFFICES ASSUME k = Top PROVE FALSE
        OBVIOUS
      <4>1. s = TOTAL_HEAP_SIZE /\ s \in Nat
        BY <1>1, <1>2, BlockSizesFacts
      <4> QED BY <1>3, <4>1
    <3> QED BY <1>2, <3>1
  <2>2. Level[k+1] = 2 * Level[k]
    BY <2>1, LevelDef
  <2> QED BY <1>1, <2>1, <2>2 DEF BlockSizes
<1>4. ASSUME s \div 2 >= BUDDY_BLOCK_SIZE PROVE s \div 2 \in BlockSizes /\ s = 2 * (s \div 2)
  <2>1. k # 0
    <3> SUFFICES ASSUME k = 0 PROVE FALSE
      OBVIOUS
    <3>1. s = BUDDY_BLOCK_SIZE /\ s \in Nat \ {0}
      BY <1>1, LevelDef, BlockSizesFacts
    <3> QED BY <1>4, <3>1
  <2>2. k \in 1..32 /\ k - 1 \in 0..Top /\ k - 1 \in 0..32
    BY <1>2, <2>1
  <2>3. s = 2 * Level[k-1] /\ Level[k-1] \in Nat
    BY <1>1, <2>2, LevelDef
  <2>4. s \div 2 = Level[k-1]
    BY <2>3
  <2> QED BY <2>2, <2>3, <2>4 DEF BlockSizes
<1> QED BY <1>3, <1>4


\* Different multiples are apart.
LEMMA Multiples ==
  ASSUME NEW s \in Nat \ {0}, NEW i \in Int, NEW j \in Int, s * i < s * j
  PROVE  s * i + s <= s * j
<1>1. CASE i >= j
  <2>1. s * (i - j) \in Nat /\ s * i = s * j + s * (i - j)
    BY <1>1
  <2> QED BY <2>1
<1>2. CASE i < j
  <2>1. s * (j - i - 1) \in Nat /\ s * j = s * i + s + s * (j - i - 1)
    BY <1>2
  <2> QED BY <2>1
<1> QED BY <1>1, <1>2

\* An odd multiple of s is no multiple of twice s.
LEMMA OddMultiple ==
  ASSUME NEW s \in Nat \ {0}, NEW i \in Int, NEW j \in Int
  PROVE  s * (2 * i + 1) # (2 * s) * j
<1> SUFFICES ASSUME s * (2 * i + 1) = (2 * s) * j PROVE FALSE
  OBVIOUS
<1> DEFINE t == 2 * s
<1>1. t \in Nat \ {0} /\ t = s + s
  OBVIOUS
<1>2. s * (2 * i + 1) = t * i + s
  OBVIOUS
<1>3. t * j = t * i + s
  BY <1>2
<1>4. t * i \in Int /\ t * j \in Int
  OBVIOUS
<1> HIDE DEF t
<1>5. t * i + t <= t * j
  BY <1>1, <1>3, <1>4, Multiples
<1> QED BY <1>1, <1>3, <1>4, <1>5

\* A block that has a multiple a of twice s inside and ends no more than s behind it
\* begins at a.
LEMMA BlockBegins ==
  ASSUME NEW s \in BlockSizes, NEW t \in BlockSizes, NEW m \in Int, NEW p \in Int,
         t * p <= s * (2 * m), s * (2 * m) < t * p + t, t * p + t <= s * (2 * m) + s
  PROVE  t * p = s * (2 * m)
<1>1. s \in Nat \ {0} /\ t \in Nat \ {0}
  BY BlockSizesFacts
<1> DEFINE a == s * (2 * m)
           c == t * p
<1>2. CASE t <= s
  <2>1. \E k \in Nat : s = t * k
    <3>1. CASE s = t
      <4>1. s = t * 1
        BY <1>1, <3>1
      <4> QED BY <4>1
    <3>2. CASE t < s
      <4>1. PICK k \in Nat \ {0} : s = (2 * t) * k
        BY <3>2, SizesDivide
      <4>2. s = t * (2 * k) /\ 2 * k \in Nat
        BY <1>1, <4>1
      <4> QED BY <4>2
    <3> QED BY <1>1, <1>2, <3>1, <3>2
  <2>2. PICK k \in Nat : s = t * k
    BY <2>1
  <2> DEFINE n == k * (2 * m)
  <2>3. n \in Int /\ a = t * n
    BY <1>1, <2>2
  <2>4. a \in Int /\ c \in Int
    BY <1>1
  <2> HIDE DEF n
  <2>5. ASSUME c < a PROVE FALSE
    <3>1. t * p < t * n
      BY <2>3, <2>5
    <3>2. t * p + t <= t * n
      BY <1>1, <2>3, <3>1, Multiples
    <3> QED BY <1>1, <2>3, <2>4, <3>2
  <2> QED BY <2>4, <2>5
<1>3. CASE s < t
  <2>1. PICK k \in Nat \ {0} : t = (2 * s) * k
    BY <1>3, SizesDivide
  <2> DEFINE d == 2 * s
             e == k * p + k
  <2>2. d \in Nat \ {0} /\ e \in Int /\ a = d * m
    BY <1>1
  <2>3. c + t = d * e
    <3>1. c = d * (k * p) /\ t = d * k
      BY <1>1, <2>1
    <3>2. d * e = d * (k * p) + d * k
      BY <2>2
    <3> QED BY <3>1, <3>2
  <2>4. d * m < d * e
    BY <2>2, <2>3
  <2>5. a \in Int /\ c + t \in Int /\ d = s + s
    BY <1>1
  <2> HIDE DEF d, e
  <2>6. d * m + d <= d * e
    BY <2>2, <2>4, Multiples
  <2> QED BY <1>1, <2>2, <2>3, <2>5, <2>6
<1> QED BY <1>1, <1>2, <1>3
-----------------------------------------------------------------------------
(* BUDDY: the blocks                                                       *)

\* What the fields of a header can hold.
Headers == [blockSize : BlockSizes, history : Nat, free : BOOLEAN]

\* The headers of blocks that tile the heap, each at a multiple of its size, its
\* history telling which.
Sound(h) ==
  /\ h \in [DOMAIN h -> Headers]
  /\ \A b \in DOMAIN h :
       b \in 0..(TOTAL_HEAP_SIZE - 1) /\ b = h[b].blockSize * h[b].history
  /\ Tile(BuddyManager!Sizes(h))

\* What every proof needs of such headers.
LEMMA SoundFacts ==
  ASSUME NEW h, Sound(h)
  PROVE  /\ 0 \in DOMAIN h /\ TOTAL_HEAP_SIZE \in Nat \ {0}
         /\ \A b \in DOMAIN h :
              /\ b \in 0..(TOTAL_HEAP_SIZE - 1) /\ b \in Nat
              /\ h[b].blockSize \in BlockSizes /\ h[b].blockSize \in Nat \ {0}
              /\ h[b].history \in Nat /\ h[b].free \in BOOLEAN
              /\ b = h[b].blockSize * h[b].history
              /\ b + h[b].blockSize = TOTAL_HEAP_SIZE \/ b + h[b].blockSize \in DOMAIN h
              /\ b + h[b].blockSize <= TOTAL_HEAP_SIZE
         /\ \A b, c \in DOMAIN h : c <= b \/ c >= b + h[b].blockSize
<1>1. DOMAIN BuddyManager!Sizes(h) = DOMAIN h
      /\ \A b \in DOMAIN h : BuddyManager!Sizes(h)[b] = h[b].blockSize
  BY DEF BuddyManager!Sizes
<1>2. /\ 0 \in DOMAIN h
      /\ \A b \in DOMAIN h :
           b + h[b].blockSize = TOTAL_HEAP_SIZE \/ b + h[b].blockSize \in DOMAIN h
      /\ \A b, c \in DOMAIN h : c <= b \/ c >= b + h[b].blockSize
  BY <1>1 DEF Sound, Tile
<1>3. TOTAL_HEAP_SIZE \in Nat \ {0} /\ BlockSizes \subseteq Nat \ {0}
  BY BlockSizesFacts
<1>4. \A b \in DOMAIN h : h[b] \in Headers
  BY DEF Sound
<1>5. \A b \in DOMAIN h :
        /\ h[b].blockSize \in BlockSizes /\ h[b].blockSize \in Nat \ {0}
        /\ h[b].history \in Nat /\ h[b].free \in BOOLEAN
  BY <1>3, <1>4 DEF Headers
<1>6. \A b \in DOMAIN h : b \in 0..(TOTAL_HEAP_SIZE - 1) /\ b = h[b].blockSize * h[b].history
  BY DEF Sound
<1>7. \A b \in DOMAIN h : b + h[b].blockSize <= TOTAL_HEAP_SIZE
  <2> SUFFICES ASSUME NEW b \in DOMAIN h PROVE b + h[b].blockSize <= TOTAL_HEAP_SIZE
    OBVIOUS
  <2>1. CASE b + h[b].blockSize = TOTAL_HEAP_SIZE
    BY <1>3, <2>1
  <2>2. CASE b + h[b].blockSize \in DOMAIN h
    BY <1>3, <1>6, <2>2
  <2> QED BY <1>2, <2>1, <2>2
<1> QED BY <1>2, <1>3, <1>5, <1>6, <1>7

\* Every byte is in a block.
LEMMA Containing ==
  ASSUME NEW h, Sound(h), NEW a \in 0..(TOTAL_HEAP_SIZE - 1)
  PROVE  \E c \in DOMAIN h : c <= a /\ a < c + h[c].blockSize
<1> DEFINE S == {a - c : c \in {x \in DOMAIN h : x <= a}}
<1>1. S \in SUBSET Nat /\ S # {}
  <2>1. 0 \in DOMAIN h /\ 0 <= a /\ \A c \in DOMAIN h : c \in Nat
    BY SoundFacts
  <2> QED BY <2>1
<1>2. PICK n \in S : \A m \in S : n <= m
  BY <1>1, LeastNatural, Zenon
<1>3. PICK c \in DOMAIN h : c <= a /\ n = a - c
  OBVIOUS
<1> DEFINE end == c + h[c].blockSize
<1>4. c \in Nat /\ h[c].blockSize \in Nat \ {0} /\ (end = TOTAL_HEAP_SIZE \/ end \in DOMAIN h)
      /\ TOTAL_HEAP_SIZE \in Nat
  BY SoundFacts
<1>5. ASSUME end <= a PROVE FALSE
  <2>1. end \in DOMAIN h
    BY <1>4, <1>5
  <2>2. a - end \in S
    BY <1>5, <2>1
  <2>3. n <= a - end
    BY <1>2, <2>2, Zenon
  <2> HIDE DEF S
  <2> QED BY <1>3, <1>4, <2>3
<1> QED BY <1>3, <1>4, <1>5


\* Every number is even or odd.
LEMMA Parity ==
  ASSUME NEW q \in Nat
  PROVE  \E m \in Nat : \/ q = 2 * m /\ q % 2 = 0
                        \/ q = 2 * m + 1 /\ q % 2 = 1
<1>1. q = 2 * (q \div 2) + (q % 2) /\ q \div 2 \in Nat /\ q % 2 \in 0..1
  OBVIOUS
<1> QED BY <1>1

\* Where the buddy of a block is looked for, a block begins.  It is no larger.
LEMMA BuddyBegins ==
  ASSUME NEW h, Sound(h), NEW b \in DOMAIN h, h[b].blockSize < TOTAL_HEAP_SIZE,
         NEW u, u = BuddyManager!Buddy(h, b)
  PROVE  /\ u \in DOMAIN h /\ u # b
         /\ h[u].blockSize <= h[b].blockSize
         /\ h[b].history % 2 = 1 => u = b - h[b].blockSize
         /\ h[b].history % 2 = 0 => u = b + h[b].blockSize
         /\ h[b].history % 2 \in {0, 1}
<1> DEFINE s == h[b].blockSize
           q == h[b].history
<1>1. /\ s \in BlockSizes /\ s \in Nat \ {0} /\ q \in Nat /\ b = s * q /\ b \in Nat
      /\ TOTAL_HEAP_SIZE \in Nat /\ TOTAL_HEAP_SIZE \in BlockSizes
      /\ b + s = TOTAL_HEAP_SIZE \/ b + s \in DOMAIN h
      /\ b + s <= TOTAL_HEAP_SIZE
  BY SoundFacts, BlockSizesFacts
<1>2. PICK m \in Nat : \/ q = 2 * m /\ q % 2 = 0
                       \/ q = 2 * m + 1 /\ q % 2 = 1
  BY <1>1, Parity
<1>3. u = IF q % 2 = 1 THEN b - s ELSE b + s
  BY DEF BuddyManager!Buddy
<1>4. s < TOTAL_HEAP_SIZE
  OBVIOUS
<1> HIDE DEF s, q
<1>5. ASSUME q = 2 * m, q % 2 = 0
      PROVE  u \in DOMAIN h /\ u = b + s /\ h[u].blockSize <= s
  <2>1. u = b + s /\ b + s = s * (2 * m + 1)
    BY <1>1, <1>3, <1>5
  <2>2. ASSUME NEW t \in BlockSizes, NEW p \in Nat, b + s = t * p PROVE t <= s
    <3> SUFFICES ASSUME s < t PROVE FALSE
      BY <1>1, BlockSizesFacts
    <3>1. PICK k \in Nat \ {0} : t = (2 * s) * k
      BY <1>1, SizesDivide
    <3>2. b + s = (2 * s) * (k * p) /\ k * p \in Int
      BY <1>1, <2>2, <3>1
    <3> QED BY <1>1, <2>1, <3>2, OddMultiple
  <2>3. b + s # TOTAL_HEAP_SIZE
    <3>1. TOTAL_HEAP_SIZE = TOTAL_HEAP_SIZE * 1
      BY <1>1
    <3>2. ~(TOTAL_HEAP_SIZE <= s)
      BY <1>1, <1>4
    <3> QED BY <1>1, <2>2, <3>1, <3>2
  <2>4. u \in DOMAIN h
    BY <1>1, <2>1, <2>3
  <2>5. h[u].blockSize \in BlockSizes /\ h[u].history \in Nat
        /\ b + s = h[u].blockSize * h[u].history
    BY <2>1, <2>4, SoundFacts
  <2> QED BY <2>1, <2>2, <2>4, <2>5
<1>6. ASSUME q = 2 * m + 1, q % 2 = 1
      PROVE  u \in DOMAIN h /\ u = b - s /\ h[u].blockSize <= s
  <2>1. u = b - s /\ u = s * (2 * m) /\ u \in 0..(TOTAL_HEAP_SIZE - 1) /\ u < b
    <3>1. s * (2 * m) \in Nat
      BY <1>1
    <3>2. b = s * (2 * m) + s
      BY <1>1, <1>6
    <3> QED BY <1>1, <1>3, <1>6, <3>1, <3>2
  <2>2. PICK c \in DOMAIN h : c <= u /\ u < c + h[c].blockSize
    BY <2>1, Containing
  <2> DEFINE t == h[c].blockSize
             p == h[c].history
  <2>3. t \in BlockSizes /\ p \in Int /\ c = t * p /\ c \in Nat /\ t \in Nat
    BY SoundFacts
  <2>4. c + t <= b
    <3>1. b <= c \/ b >= c + t
      BY SoundFacts
    <3> QED BY <1>1, <2>1, <2>2, <2>3, <3>1
  <2>5. u < c + t /\ c <= u
    BY <2>2
  <2> HIDE DEF t, p
  <2>6. t * p = s * (2 * m)
    <3>1. b = s * (2 * m) + s
      BY <1>1, <2>1
    <3>2. m \in Int
      OBVIOUS
    <3>3. t * p <= s * (2 * m) /\ s * (2 * m) < t * p + t
      BY <2>1, <2>3, <2>5
    <3>4. t * p + t <= s * (2 * m) + s
      BY <2>3, <2>4, <3>1
    <3>5. s \in BlockSizes /\ t \in BlockSizes /\ m \in Int /\ p \in Int
      BY <1>1, <2>3
    <3> QED BY <3>3, <3>4, <3>5, BlockBegins, Zenon
  <2>7. c = u
    BY <2>1, <2>3, <2>6
  <2>8. t <= s
    BY <1>1, <2>1, <2>3, <2>4, <2>7
  <2> QED BY <2>1, <2>7, <2>8 DEF t
<1>7. u # b
  BY <1>1, <1>2, <1>5, <1>6
<1> QED BY <1>2, <1>5, <1>6, <1>7 DEF s, q

\* Of blocks of one size each is the buddy of its buddy, and the last bit of the
\* history of a right one is set.
LEMMA BuddySymmetric ==
  ASSUME NEW h, Sound(h), NEW b \in DOMAIN h, NEW u, u = BuddyManager!Buddy(h, b),
         u \in DOMAIN h, h[u].blockSize = h[b].blockSize, h[b].blockSize < TOTAL_HEAP_SIZE
  PROVE  /\ BuddyManager!Buddy(h, u) = b
         /\ u < b => /\ u + h[b].blockSize = b /\ h[u].history % 2 = 0
                     /\ h[b].history % 2 = 1
         /\ b < u => /\ b + h[b].blockSize = u /\ h[b].history % 2 = 0
                     /\ h[u].history % 2 = 1
<1> DEFINE s == h[b].blockSize
           q == h[b].history
           r == h[u].history
<1>1. /\ s \in Nat \ {0} /\ q \in Nat /\ r \in Nat /\ b = s * q /\ u = s * r
      /\ b \in Nat /\ u \in Nat
  BY SoundFacts
<1>2. PICK m \in Nat : \/ q = 2 * m /\ q % 2 = 0
                       \/ q = 2 * m + 1 /\ q % 2 = 1
  BY <1>1, Parity
<1>3. PICK n \in Nat : \/ r = 2 * n /\ r % 2 = 0
                       \/ r = 2 * n + 1 /\ r % 2 = 1
  BY <1>1, Parity
<1>4. /\ u # b
      /\ q % 2 = 1 => u = b - s
      /\ q % 2 = 0 => u = b + s
      /\ q % 2 \in {0, 1}
  BY BuddyBegins
<1>5. BuddyManager!Buddy(h, u) = IF r % 2 = 1 THEN u - s ELSE u + s
  BY DEF BuddyManager!Buddy
<1> HIDE DEF s, q, r
<1>6. q % 2 = 1 => r % 2 = 0
  <2> SUFFICES ASSUME q = 2 * m + 1, r = 2 * n + 1, u = b - s PROVE FALSE
    BY <1>2, <1>3, <1>4
  <2>1. s * (2 * n + 1) = (2 * s) * m
    BY <1>1
  <2> QED BY <1>1, <2>1, OddMultiple
<1>7. q % 2 = 0 => r % 2 = 1
  <2> SUFFICES ASSUME q = 2 * m, r = 2 * n, u = b + s PROVE FALSE
    BY <1>2, <1>3, <1>4
  <2>1. s * (2 * m + 1) = (2 * s) * n
    BY <1>1
  <2> QED BY <1>1, <2>1, OddMultiple
<1>8. CASE q % 2 = 1
  <2>1. u = b - s /\ r % 2 = 0 /\ BuddyManager!Buddy(h, u) = u + s
    BY <1>4, <1>5, <1>6, <1>8
  <2> QED BY <1>1, <1>8, <2>1 DEF s, q, r
<1>9. CASE q % 2 = 0
  <2>1. u = b + s /\ r % 2 = 1 /\ BuddyManager!Buddy(h, u) = u - s
    BY <1>4, <1>5, <1>7, <1>9
  <2> QED BY <1>1, <1>9, <2>1 DEF s, q, r
<1> QED BY <1>4, <1>8, <1>9

-----------------------------------------------------------------------------
(* BUDDY: merging                                                          *)

\* g has the buddies left and right of h as one block.
Joined(g, h, left, right) ==
  /\ DOMAIN g = DOMAIN h \ {right}
  /\ g \in [DOMAIN g -> Headers]
  /\ g[left].blockSize = 2 * h[left].blockSize
  /\ g[left].history = h[left].history \div 2
  /\ \A c \in DOMAIN g : c # left => g[c] = h[c]

\* The blocks still tile the heap, at multiples of their sizes.
LEMMA JoinSound ==
  ASSUME NEW h, Sound(h), NEW left \in DOMAIN h, NEW right \in DOMAIN h,
         left + h[left].blockSize = right, h[right].blockSize = h[left].blockSize,
         h[left].history % 2 = 0, NEW g, Joined(g, h, left, right)
  PROVE  Sound(g)
<1> DEFINE s == h[left].blockSize
           q == h[left].history
<1>1. /\ left \in Nat /\ s \in Nat \ {0} /\ q \in Nat /\ left = s * q /\ left + s = right
      /\ left \in 0..(TOTAL_HEAP_SIZE - 1) /\ left # right
  BY SoundFacts
<1>2. DOMAIN g = DOMAIN h \ {right} /\ left \in DOMAIN g
      /\ g[left].blockSize = 2 * s /\ g[left].history = q \div 2
      /\ \A c \in DOMAIN g : c # left => g[c] = h[c]
  BY <1>1 DEF Joined
<1>3. left = g[left].blockSize * g[left].history
  <2>1. q % 2 = 0
    OBVIOUS
  <2> HIDE DEF s, q
  <2>2. q = 2 * (q \div 2) /\ q \div 2 \in Nat
    BY <1>1, <2>1
  <2> DEFINE m == q \div 2
  <2>3. q = 2 * m /\ m \in Nat
    BY <2>2
  <2> HIDE DEF m
  <2>4. s * q = (2 * s) * m
    BY <1>1, <2>3
  <2> QED BY <1>1, <1>2, <2>4 DEF m
<1>4. \A b \in DOMAIN g :
        b \in 0..(TOTAL_HEAP_SIZE - 1) /\ b = g[b].blockSize * g[b].history
  BY <1>1, <1>2, <1>3, SoundFacts
<1> DEFINE z == BuddyManager!Sizes(g)
<1>5. DOMAIN z = DOMAIN g /\ \A c \in DOMAIN g : z[c] = g[c].blockSize
  BY DEF BuddyManager!Sizes
<1>6. \A c \in DOMAIN g : c # left => z[c] = h[c].blockSize
  BY <1>2, <1>5
<1>7. z[left] = s + s /\ left + z[left] = right + s
  BY <1>1, <1>2, <1>5
<1> HIDE DEF z
<1>8. 0 \in DOMAIN z
  BY <1>1, <1>2, <1>5, SoundFacts
<1>9. ASSUME NEW c \in DOMAIN z
      PROVE  c + z[c] = TOTAL_HEAP_SIZE \/ c + z[c] \in DOMAIN z
  <2>1. CASE c = left
    <3>1. right + s = TOTAL_HEAP_SIZE \/ right + s \in DOMAIN h
      BY SoundFacts
    <3>2. right + s # right
      BY <1>1
    <3> QED BY <1>2, <1>5, <1>7, <2>1, <3>1, <3>2
  <2>2. CASE c # left
    <3>1. /\ c \in DOMAIN h /\ c # right /\ c \in Nat /\ h[c].blockSize \in Nat \ {0}
          /\ c + h[c].blockSize = TOTAL_HEAP_SIZE \/ c + h[c].blockSize \in DOMAIN h
          /\ c <= left \/ c >= left + s
          /\ left <= c \/ left >= c + h[c].blockSize
      BY <1>2, <1>5, SoundFacts
    <3>2. c + h[c].blockSize # right
      BY <1>1, <2>2, <3>1
    <3> QED BY <1>2, <1>5, <1>6, <2>2, <3>1, <3>2
  <2> QED BY <2>1, <2>2
<1>10. ASSUME NEW c \in DOMAIN z, NEW d \in DOMAIN z PROVE d <= c \/ d >= c + z[c]
  <2>1. /\ c \in DOMAIN h /\ d \in DOMAIN h /\ c \in Nat /\ d \in Nat /\ d # right
        /\ h[c].blockSize \in Nat /\ (d <= c \/ d >= c + h[c].blockSize)
        /\ d <= right \/ d >= right + s
    BY <1>2, <1>5, SoundFacts
  <2>2. CASE c = left
    BY <1>1, <1>7, <2>1, <2>2
  <2>3. CASE c # left
    BY <1>6, <1>5, <2>1, <2>3
  <2> QED BY <2>2, <2>3
<1>11. Tile(z)
  BY <1>8, <1>9, <1>10 DEF Tile
<1> QED BY <1>4, <1>11 DEF Sound, Joined, z

\* While block b is in hand, callers own the blocks of K and all others are in the free
\* list; only with b one of them could be merged.
InHand(h, l, b, K) ==
  /\ Sound(h) /\ K \subseteq DOMAIN h /\ b \in DOMAIN h /\ b \notin K
  /\ l \in Seq(DOMAIN h) /\ ToSet(l) = (DOMAIN h \ K) \ {b}
  /\ IsInjective(l) /\ Ordered(l, BuddyManager!Sizes(h))
  /\ \A c \in DOMAIN h : c # b => h[c].free = (c \notin K)
  /\ \A c \in ToSet(l) : BuddyManager!CanMerge(h, c) => BuddyManager!Buddy(h, c) = b

\* Sizes gives the size of each header.
LEMMA SizesAre ==
  ASSUME NEW h
  PROVE  /\ DOMAIN BuddyManager!Sizes(h) = DOMAIN h
         /\ \A b \in DOMAIN h : BuddyManager!Sizes(h)[b] = h[b].blockSize
BY DEF BuddyManager!Sizes

\* removeBlockFromFreeList.
LEMMA RemoveFirstProperties ==
  ASSUME NEW D, NEW sizes, NEW l \in Seq(D), IsInjective(l), Ordered(l, sizes),
         NEW u \in ToSet(l)
  PROVE  /\ RemoveFirst(l, u) \in Seq(D)
         /\ ToSet(RemoveFirst(l, u)) = ToSet(l) \ {u}
         /\ IsInjective(RemoveFirst(l, u))
         /\ Ordered(RemoveFirst(l, u), sizes)
<1> DEFINE I == {i \in 1..Len(l) : l[i] = u}
<1>1. I # {} /\ I \in SUBSET Nat /\ \E i \in 1..Len(l) : l[i] = u
  <2>1. DOMAIN l = 1..Len(l)
    OBVIOUS
  <2> QED BY <2>1 DEF ToSet
<1>2. RemoveFirst(l, u) = RemoveAt(l, Min(I))
  BY <1>1 DEF RemoveFirst, SelectInSeq
<1> HIDE DEF I
<1>3. \E j \in I : \A i \in I : j <= i
  BY <1>1, LeastNatural
<1>4. Min(I) \in I
  BY <1>3 DEF Min
<1>5. Min(I) \in 1..Len(l) /\ l[Min(I)] = u
  BY <1>4 DEF I
<1> HIDE DEF I
<1> QED BY <1>2, <1>5, UnlinkProperties


\* CanMerge reads two headers, that of the block and that of its buddy.
LEMMA CanMergeIs ==
  ASSUME NEW h, NEW c
  PROVE  BuddyManager!CanMerge(h, c) <=>
           /\ h[c].blockSize < TOTAL_HEAP_SIZE
           /\ h[BuddyManager!Buddy(h, c)].free
           /\ h[BuddyManager!Buddy(h, c)].blockSize = h[c].blockSize
BY DEF BuddyManager!CanMerge, BuddyManager!Buddy

\* Whose header and whose buddy's header are the same can be merged as before.
LEMMA CanMergeSame ==
  ASSUME NEW g, NEW h, NEW c, g[c] = h[c],
         g[BuddyManager!Buddy(h, c)] = h[BuddyManager!Buddy(h, c)]
  PROVE  /\ BuddyManager!Buddy(g, c) = BuddyManager!Buddy(h, c)
         /\ BuddyManager!CanMerge(g, c) <=> BuddyManager!CanMerge(h, c)
<1>1. BuddyManager!Buddy(g, c) = BuddyManager!Buddy(h, c)
  BY DEF BuddyManager!Buddy
<1> QED BY <1>1, CanMergeIs

\* A sequence is one of any set that holds its elements.
LEMMA SubSequence ==
  ASSUME NEW D, NEW E, NEW l \in Seq(D), ToSet(l) \subseteq E
  PROVE  l \in Seq(E)
<1>1. Len(l) \in Nat /\ DOMAIN l = 1..Len(l) /\ l = [i \in 1..Len(l) |-> l[i]]
  OBVIOUS
<1>2. \A i \in 1..Len(l) : l[i] \in E
  BY <1>1 DEF ToSet
<1> QED BY <1>1, <1>2

\* Joining the block in hand with its buddy, which leaves the list, keeps all but the two.
LEMMA JoinKeeps ==
  ASSUME NEW h, NEW l, NEW b, NEW K, InHand(h, l, b, K),
         BuddyManager!CanMerge(h, b), NEW u, u = BuddyManager!Buddy(h, b),
         NEW left, left = (IF b < u THEN b ELSE u),
         NEW right, right = (IF b < u THEN u ELSE b),
         NEW g, Joined(g, h, left, right), NEW m, m = RemoveFirst(l, u)
  PROVE  /\ InHand(g, m, left, K)
         /\ \A c \in K : g[c] = h[c]
         /\ g[left].blockSize = 2 * h[b].blockSize
<1>1. /\ Sound(h) /\ K \subseteq DOMAIN h /\ b \in DOMAIN h /\ b \notin K
      /\ l \in Seq(DOMAIN h) /\ ToSet(l) = (DOMAIN h \ K) \ {b}
      /\ IsInjective(l) /\ Ordered(l, BuddyManager!Sizes(h))
      /\ \A c \in DOMAIN h : c # b => h[c].free = (c \notin K)
      /\ \A c \in ToSet(l) : BuddyManager!CanMerge(h, c) => BuddyManager!Buddy(h, c) = b
  BY DEF InHand
<1>2. h[b].blockSize < TOTAL_HEAP_SIZE /\ h[u].free /\ h[u].blockSize = h[b].blockSize
  BY CanMergeIs
<1>3. u \in DOMAIN h /\ u # b
  BY <1>1, <1>2, BuddyBegins
<1>4. u \notin K /\ u \in ToSet(l)
  BY <1>1, <1>2, <1>3
<1>5. b \in Nat /\ u \in Nat
  BY <1>1, <1>3, SoundFacts
<1>6. /\ left \in DOMAIN h /\ right \in DOMAIN h /\ left # right
      /\ {left, right} = {b, u}
  BY <1>1, <1>3, <1>5
<1>7. left + h[left].blockSize = right /\ h[right].blockSize = h[left].blockSize
      /\ h[left].history % 2 = 0 /\ h[left].blockSize = h[b].blockSize
  <2>1. /\ u < b => /\ u + h[b].blockSize = b /\ h[u].history % 2 = 0
        /\ b < u => /\ b + h[b].blockSize = u /\ h[b].history % 2 = 0
    BY <1>1, <1>2, <1>3, BuddySymmetric
  <2>2. CASE b < u
    BY <1>2, <2>1, <2>2
  <2>3. CASE ~(b < u)
    <3>1. u < b
      BY <1>3, <1>5, <2>3
    <3> QED BY <1>2, <2>1, <2>3, <3>1
  <2> QED BY <2>2, <2>3
<1>8. Sound(g)
  BY <1>1, <1>6, <1>7, JoinSound
<1>9. /\ DOMAIN g = DOMAIN h \ {right} /\ left \in DOMAIN g
      /\ g[left].blockSize = 2 * h[left].blockSize
      /\ \A c \in DOMAIN g : c # left => g[c] = h[c]
  BY <1>6 DEF Joined
<1>10. left \notin K /\ right \notin K
  BY <1>1, <1>4, <1>6
<1>11. /\ m \in Seq(DOMAIN h) /\ ToSet(m) = ToSet(l) \ {u}
       /\ IsInjective(m) /\ Ordered(m, BuddyManager!Sizes(h))
  BY <1>1, <1>4, RemoveFirstProperties
<1>12. ToSet(m) = (DOMAIN g \ K) \ {left}
  BY <1>1, <1>3, <1>6, <1>9, <1>11
<1>13. m \in Seq(DOMAIN g)
  BY <1>11, <1>12, SubSequence
<1>14. Ordered(m, BuddyManager!Sizes(g))
  <2> SUFFICES ASSUME NEW i \in 1..Len(m), NEW j \in 1..Len(m), i < j
               PROVE  BuddyManager!Sizes(g)[m[i]] <= BuddyManager!Sizes(g)[m[j]]
    BY DEF Ordered
  <2>1. \A k \in 1..Len(m) : m[k] \in DOMAIN g /\ m[k] # left
    <3>1. DOMAIN m = 1..Len(m)
      BY <1>13
    <3> QED BY <1>12, <3>1 DEF ToSet
  <2>2. \A k \in 1..Len(m) : BuddyManager!Sizes(g)[m[k]] = BuddyManager!Sizes(h)[m[k]]
    <3> SUFFICES ASSUME NEW k \in 1..Len(m)
                 PROVE  BuddyManager!Sizes(g)[m[k]] = BuddyManager!Sizes(h)[m[k]]
      OBVIOUS
    <3>1. m[k] \in DOMAIN g /\ m[k] \in DOMAIN h /\ g[m[k]] = h[m[k]]
      BY <1>9, <2>1
    <3> QED BY <3>1, SizesAre
  <2>3. BuddyManager!Sizes(h)[m[i]] <= BuddyManager!Sizes(h)[m[j]]
    BY <1>11 DEF Ordered
  <2> QED BY <2>2, <2>3
<1>15. \A c \in DOMAIN g : c # left => g[c].free = (c \notin K)
  <2> SUFFICES ASSUME NEW c \in DOMAIN g, c # left PROVE g[c].free = (c \notin K)
    OBVIOUS
  <2>1. c \in DOMAIN h /\ c # b /\ g[c] = h[c]
    BY <1>6, <1>9
  <2> QED BY <1>1, <2>1
<1>16. ASSUME NEW c \in ToSet(m), BuddyManager!CanMerge(g, c), BuddyManager!Buddy(g, c) # left
       PROVE  FALSE
  <2> DEFINE v == BuddyManager!Buddy(g, c)
  <2>1. c \in DOMAIN g /\ c # left /\ c \in DOMAIN h /\ g[c] = h[c] /\ c \in ToSet(l)
    BY <1>9, <1>11, <1>12
  <2>2. g[c].blockSize < TOTAL_HEAP_SIZE
    BY <1>16, CanMergeIs
  <2>3. v \in DOMAIN g
    BY <1>8, <2>1, <2>2, BuddyBegins
  <2>4. v = BuddyManager!Buddy(h, c)
    BY <2>1 DEF BuddyManager!Buddy
  <2>5. v # left /\ v # right /\ g[v] = h[v]
    BY <1>9, <1>16, <2>3
  <2> HIDE DEF v
  <2>6. BuddyManager!CanMerge(h, c)
    BY <1>16, <2>1, <2>4, <2>5, CanMergeSame
  <2>7. v = b
    BY <1>1, <2>1, <2>4, <2>6
  <2> QED BY <1>6, <2>5, <2>7
<1>17. \A c \in K : g[c] = h[c]
  BY <1>1, <1>9, <1>10
<1>18. K \subseteq DOMAIN g
  BY <1>1, <1>9, <1>10
<1>19. InHand(g, m, left, K)
  BY <1>8, <1>9, <1>10, <1>11, <1>12, <1>13, <1>14, <1>15, <1>16, <1>18 DEF InHand
<1> QED BY <1>7, <1>9, <1>17, <1>19


\* A level of the recursion of insertBlockIntoFreeList.
Larger(t, s, K) ==
  /\ InHand(t.h, t.l, t.block, K)
  /\ \A c \in K : t.h[c] = s.h[c]
  /\ t.h[t.block].blockSize = 2 * s.h[s.block].blockSize

\* A turn that merges joins two blocks.
LEMMA MergeStepKeeps ==
  ASSUME NEW s, NEW K, InHand(s.h, s.l, s.block, K), BuddyManager!CanMerge(s.h, s.block)
  PROVE  Larger(BuddyManager!MergeStep(s), s, K)
<1> DEFINE t == BuddyManager!MergeStep(s)
           h == s.h
           b == s.block
           u == BuddyManager!Buddy(h, b)
           left == IF b < u THEN b ELSE u
           right == IF b < u THEN u ELSE b
           r == BuddyManager!Restrict(h, DOMAIN h \ {right})
           g == [r EXCEPT ![left].blockSize = 2 * @, ![left].history = @ \div 2]
           m == RemoveFirst(s.l, u)
<1>1. Sound(h) /\ b \in DOMAIN h
  BY DEF InHand
<1>2. h[b].blockSize < TOTAL_HEAP_SIZE /\ h[u].blockSize = h[b].blockSize
  BY CanMergeIs
<1>3. u \in DOMAIN h /\ u # b
  BY <1>1, <1>2, BuddyBegins
<1>4. b \in Nat /\ u \in Nat
  BY <1>1, <1>3, SoundFacts
<1>5. BuddyManager!Min({b, u}) = left /\ BuddyManager!Max({b, u}) = right
  <2> HIDE DEF b, u
  <2>1. b < u \/ u < b
    BY <1>3, <1>4
  <2>2. CASE b < u
    BY <1>4, <2>2 DEF BuddyManager!Min, BuddyManager!Max
  <2>3. CASE u < b
    BY <1>4, <2>3 DEF BuddyManager!Min, BuddyManager!Max
  <2> QED BY <2>1, <2>2, <2>3
<1>6. t = [h |-> g, l |-> m, block |-> left]
  <2>1. BuddyManager!RemoveFirst(s.l, u) = m
    BY DEF BuddyManager!RemoveFirst, RemoveFirst, BuddyManager!SelectInSeq, SelectInSeq,
           BuddyManager!RemoveAt, RemoveAt, BuddyManager!Min, Min
  <2> QED BY <1>5, <2>1 DEF BuddyManager!MergeStep
<1>7. left \in DOMAIN h /\ right \in DOMAIN h /\ left # right
      /\ h[left].blockSize = h[b].blockSize
  BY <1>1, <1>2, <1>3
<1>8. Joined(g, h, left, right)
  <2>1. r = [c \in DOMAIN h \ {right} |-> h[c]]
    BY DEF BuddyManager!Restrict
  <2>2. h[left] \in Headers /\ \A c \in DOMAIN h : h[c] \in Headers
    BY <1>1, <1>7 DEF Sound
  <2>3. 2 * h[left].blockSize \in BlockSizes
    BY <1>1, <1>2, <1>7, SoundFacts, SizesNext
  <2>4. h[left].history \div 2 \in Nat
    <3>1. h[left].history \in Nat
      BY <1>1, <1>7, SoundFacts
    <3> QED BY <3>1
  <2> HIDE DEF r, left, right, h
  <2> DEFINE e == [[h[left] EXCEPT !.blockSize = 2 * @] EXCEPT !.history = @ \div 2]
  <2>5. e \in Headers /\ e.blockSize = 2 * h[left].blockSize
        /\ e.history = h[left].history \div 2
    BY <2>2, <2>3, <2>4 DEF Headers
  <2>6. g = [c \in DOMAIN h \ {right} |-> IF c = left THEN e ELSE h[c]]
    BY <1>7, <2>1
  <2> HIDE DEF e, g
  <2>7. /\ DOMAIN g = DOMAIN h \ {right}
        /\ \A c \in DOMAIN g : c # left => g[c] = h[c]
        /\ left \in DOMAIN g /\ g[left] = e
    BY <1>7, <2>6
  <2>8. g \in [DOMAIN g -> Headers]
    BY <2>2, <2>5, <2>6, <2>7
  <2> QED BY <2>5, <2>7, <2>8 DEF Joined
<1>9. t.h = g /\ t.l = m /\ t.block = left
  BY <1>6
<1> HIDE DEF t, g, m, left, right, u
<1> HIDE DEF t
<1>10. u = BuddyManager!Buddy(h, b) /\ left = (IF b < u THEN b ELSE u)
       /\ right = (IF b < u THEN u ELSE b) /\ m = RemoveFirst(s.l, u)
  BY DEF u, left, right, m
<1> HIDE DEF h, b
<1>11. InHand(h, s.l, b, K) /\ BuddyManager!CanMerge(h, b)
  BY DEF h, b
<1>12. InHand(g, m, left, K) /\ (\A c \in K : g[c] = h[c])
       /\ g[left].blockSize = 2 * h[b].blockSize
  BY <1>8, <1>10, <1>11, JoinKeeps
<1>13. Larger(t, s, K)
  BY <1>9, <1>12 DEF h, b, Larger
<1> QED BY <1>13 DEF t


\* There are as many turns as smallest blocks in the heap.
LEMMA TurnsAre ==
  /\ BuddyManager!Turns \in Nat
  /\ BUDDY_BLOCK_SIZE * BuddyManager!Turns = TOTAL_HEAP_SIZE
<1>1. PICK n \in Nat : TOTAL_HEAP_SIZE = BUDDY_BLOCK_SIZE * n
  BY BlockSizesFacts
<1>2. BUDDY_BLOCK_SIZE \in Nat \ {0} /\ TOTAL_HEAP_SIZE \in Nat
  BY BlockSizesFacts
<1>3. TOTAL_HEAP_SIZE % BUDDY_BLOCK_SIZE = 0
  BY <1>1, <1>2, MultipleMod
<1> DEFINE N == TOTAL_HEAP_SIZE \div BUDDY_BLOCK_SIZE
<1>4. N \in Nat /\ TOTAL_HEAP_SIZE = (BUDDY_BLOCK_SIZE * N) + (TOTAL_HEAP_SIZE % BUDDY_BLOCK_SIZE)
  BY <1>2
<1>5. BuddyManager!Turns = N
  BY DEF BuddyManager!Turns
<1> HIDE DEF N
<1> QED BY <1>2, <1>3, <1>4, <1>5

\* The recursion as the sequence of its levels.
LEMMA MergedIs ==
  ASSUME NEW h, NEW l, NEW b
  PROVE  \E after :
           /\ after[0] = [h |-> h, l |-> l, block |-> b]
           /\ \A k \in 1..BuddyManager!Turns :
                after[k] = BuddyManager!MergeStep(after[k-1])
           /\ BuddyManager!Merged(h, l, b) = after[BuddyManager!Turns]
<1> DEFINE base == [h |-> h, l |-> l, block |-> b]
           Up(n, g) == [k \in 0..n |-> IF k = 0 THEN base ELSE BuddyManager!MergeStep(g[k-1])]
           Bad == {n \in Nat : ~ \E g : g = Up(n, g)}
<1> HIDE DEF base
<1>1. Bad = {}
  <2> SUFFICES ASSUME Bad # {} PROVE FALSE
    OBVIOUS
  <2>1. PICK n \in Bad : \A k \in Bad : n <= k
    BY LeastNatural, Zenon
  <2>2. n \in Nat /\ ~ \E g : g = Up(n, g)
    OBVIOUS
  <2>3. CASE n = 0
    <3>1. [k \in 0..0 |-> base] = Up(0, [k \in 0..0 |-> base])
      OBVIOUS
    <3> QED BY <2>2, <2>3, <3>1
  <2>4. CASE n # 0
    <3>1. n - 1 \in Nat /\ n - 1 \notin Bad
      <4>1. n - 1 \in Nat /\ ~ (n <= n - 1)
        BY <2>2, <2>4
      <4> QED BY <2>1, <4>1, Zenon
    <3>2. PICK g : g = Up(n - 1, g)
      BY <3>1
    <3> DEFINE f == Up(n, g)
    <3>3. f = [k \in 0..n |-> f[k]]
      OBVIOUS
    <3>4. ASSUME NEW k \in 0..n
          PROVE  f[k] = IF k = 0 THEN base ELSE BuddyManager!MergeStep(f[k-1])
      <4>1. CASE k = 0
        BY <4>1
      <4>2. CASE k # 0
        <5>1. k - 1 \in 0..(n-1) /\ k - 1 \in 0..n
          BY <2>2, <4>2
        <5>2. g[k-1] = IF k-1 = 0 THEN base ELSE BuddyManager!MergeStep(g[(k-1)-1])
          BY <3>2, <5>1
        <5>3. f[k-1] = g[k-1]
          BY <5>1, <5>2
        <5>4. f[k] = BuddyManager!MergeStep(g[k-1])
          BY <4>2
        <5> HIDE DEF f
        <5> QED BY <4>2, <5>3, <5>4
      <4> QED BY <4>1, <4>2
    <3> HIDE DEF f
    <3>5. f = Up(n, f)
      BY <3>3, <3>4
    <3> QED BY <2>2, <3>5
  <2> QED BY <2>3, <2>4
<1> DEFINE N == BuddyManager!Turns
           after == CHOOSE g : g = Up(N, g)
<1>2. N \in Nat
  BY TurnsAre
<1>3. \E g : g = Up(N, g)
  BY <1>1, <1>2
<1> HIDE DEF Bad
<1>4. after = Up(N, after)
  BY <1>3, Zenon
<1>5. BuddyManager!Merged(h, l, b) = after[N]
  BY DEF BuddyManager!Merged, base
<1> HIDE DEF after, N
<1>6. after[0] = base /\ \A k \in 1..N : after[k] = BuddyManager!MergeStep(after[k-1])
  BY <1>2, <1>4
<1> QED BY <1>5, <1>6 DEF base, N

\* What the recursion makes of the block in hand has no free buddy.
LEMMA MergedKeeps ==
  ASSUME NEW h, NEW l, NEW b, NEW K, InHand(h, l, b, K),
         NEW t, t = BuddyManager!Merged(h, l, b)
  PROVE  /\ InHand(t.h, t.l, t.block, K)
         /\ \A c \in K : t.h[c] = h[c]
         /\ ~BuddyManager!CanMerge(t.h, t.block)
<1> DEFINE N == BuddyManager!Turns
           Good(s, k) ==
             /\ InHand(s.h, s.l, s.block, K)
             /\ \A c \in K : s.h[c] = h[c]
             /\ BuddyManager!CanMerge(s.h, s.block) =>
                  s.h[s.block].blockSize > BUDDY_BLOCK_SIZE * k
<1>1. PICK after :
        /\ after[0] = [h |-> h, l |-> l, block |-> b]
        /\ \A k \in 1..N : after[k] = BuddyManager!MergeStep(after[k-1])
        /\ t = after[N]
  BY MergedIs
<1>2. N \in Nat /\ BUDDY_BLOCK_SIZE * N = TOTAL_HEAP_SIZE /\ BUDDY_BLOCK_SIZE \in Nat \ {0}
  BY TurnsAre, BlockSizesFacts
<1>3. ASSUME NEW s, InHand(s.h, s.l, s.block, K)
      PROVE  s.h[s.block].blockSize \in Nat /\ s.h[s.block].blockSize >= BUDDY_BLOCK_SIZE
             /\ s.h[s.block].blockSize <= TOTAL_HEAP_SIZE
  <2>1. Sound(s.h) /\ s.block \in DOMAIN s.h
    BY <1>3 DEF InHand
  <2>2. s.h[s.block].blockSize \in BlockSizes
    BY <2>1, SoundFacts
  <2> QED BY <2>2, BlockSizesFacts
<1>4. Good(after[0], 0)
  <2> DEFINE s == after[0]
  <2>1. s.h = h /\ s.l = l /\ s.block = b
    BY <1>1
  <2> HIDE DEF s
  <2>2. InHand(s.h, s.l, s.block, K)
    BY <2>1
  <2>3. s.h[s.block].blockSize > BUDDY_BLOCK_SIZE * 0
    BY <1>2, <1>3, <2>2
  <2>4. Good(s, 0)
    BY <2>1, <2>2, <2>3
  <2> QED BY <2>4 DEF s
<1>5. ASSUME NEW k \in 1..N, Good(after[k-1], k-1) PROVE Good(after[k], k)
  <2> DEFINE s == after[k-1]
             r == after[k]
  <2>1. r = BuddyManager!MergeStep(s)
    BY <1>1
  <2>2. Good(s, k-1)
    BY <1>5
  <2> HIDE DEF s, r
  <2>3. CASE ~BuddyManager!CanMerge(s.h, s.block)
    <3>1. r = s
      BY <2>1, <2>3 DEF BuddyManager!MergeStep
    <3> QED BY <2>2, <2>3, <3>1 DEF s, r
  <2>4. CASE BuddyManager!CanMerge(s.h, s.block)
    <3>1. /\ InHand(r.h, r.l, r.block, K)
          /\ \A c \in K : r.h[c] = s.h[c]
          /\ r.h[r.block].blockSize = 2 * s.h[s.block].blockSize
      <4>1. InHand(s.h, s.l, s.block, K)
        BY <2>2
      <4>2. Larger(BuddyManager!MergeStep(s), s, K)
        BY <2>4, <4>1, MergeStepKeeps
      <4> QED BY <2>1, <4>2 DEF Larger
    <3>2. \A c \in K : r.h[c] = h[c]
      BY <2>2, <3>1
    <3> DEFINE x == s.h[s.block].blockSize
    <3>3. x \in Nat /\ x >= BUDDY_BLOCK_SIZE
      BY <1>3, <2>2
    <3>4. x > BUDDY_BLOCK_SIZE * (k-1)
      BY <2>2, <2>4
    <3>5. r.h[r.block].blockSize = 2 * x
      BY <3>1
    <3> HIDE DEF x
    <3>6. 2 * x > BUDDY_BLOCK_SIZE * k
      <4>1. BUDDY_BLOCK_SIZE * k = BUDDY_BLOCK_SIZE * (k-1) + BUDDY_BLOCK_SIZE
            /\ BUDDY_BLOCK_SIZE * (k-1) \in Int
        BY <1>2
      <4> QED BY <1>2, <3>3, <3>4, <4>1
    <3>7. Good(r, k)
      BY <3>1, <3>2, <3>5, <3>6
    <3> QED BY <3>7 DEF r
  <2> QED BY <2>3, <2>4
<1> DEFINE Wrong == {k \in 0..N : ~Good(after[k], k)}
<1>6. Wrong = {}
  <2> SUFFICES ASSUME Wrong # {} PROVE FALSE
    OBVIOUS
  <2>1. Wrong \in SUBSET Nat
    BY <1>2
  <2> HIDE DEF Good
  <2>2. PICK k \in Wrong : \A j \in Wrong : k <= j
    BY <2>1, LeastNatural, Zenon
  <2>3. k # 0
    BY <1>4
  <2>4. k \in 1..N /\ k - 1 \in 0..N /\ ~(k <= k-1)
    BY <1>2, <2>3
  <2>5. k - 1 \notin Wrong
    BY <2>2, <2>4, Zenon
  <2>6. Good(after[k-1], k-1)
    BY <2>4, <2>5
  <2>7. Good(after[k], k)
    BY <1>5, <2>4, <2>6, Zenon
  <2> QED BY <2>7
<1>7. Good(t, N)
  <2>1. N \in 0..N
    BY <1>2
  <2> HIDE DEF Good
  <2> QED BY <1>1, <1>6, <2>1
<1>8. ~BuddyManager!CanMerge(t.h, t.block)
  BY <1>2, <1>3, <1>7
<1> QED BY <1>7, <1>8

-----------------------------------------------------------------------------
(* BUDDY: splitting                                                        *)

\* g has the halves of block b of h, the right one at c.
Halved(g, h, b, c) ==
  /\ DOMAIN g = DOMAIN h \union {c}
  /\ g \in [DOMAIN g -> Headers]
  /\ h[b].blockSize = 2 * g[b].blockSize
  /\ g[b].history = 2 * h[b].history
  /\ g[c].blockSize = g[b].blockSize /\ g[c].history = 2 * h[b].history + 1
  /\ g[c].free
  /\ c = b + g[b].blockSize
  /\ \A d \in DOMAIN g : d # b /\ d # c => g[d] = h[d]

\* The right half begins inside the block that was halved, where no block begins.
LEMMA HalvePlace ==
  ASSUME NEW h, Sound(h), NEW b \in DOMAIN h, NEW g, NEW c, Halved(g, h, b, c)
  PROVE  /\ g[b].blockSize \in Nat \ {0} /\ g[b].blockSize \in BlockSizes
         /\ b \in Nat /\ c \in Nat /\ c \in 0..(TOTAL_HEAP_SIZE - 1)
         /\ c \notin DOMAIN h
<1> DEFINE z == g[b].blockSize
<1>1. z \in BlockSizes /\ z \in Nat \ {0}
  <2>1. b \in DOMAIN g /\ g[b] \in Headers
    BY DEF Halved
  <2> QED BY <2>1, BlockSizesFacts DEF Headers
<1>2. b \in Nat /\ h[b].blockSize = z + z /\ c = b + z /\ b + h[b].blockSize <= TOTAL_HEAP_SIZE
      /\ TOTAL_HEAP_SIZE \in Nat
  BY <1>1, SoundFacts DEF Halved
<1>3. \A d \in DOMAIN h : d \in Nat /\ (d <= b \/ d >= b + h[b].blockSize)
  BY SoundFacts
<1> HIDE DEF z
<1>4. c \notin DOMAIN h
  BY <1>1, <1>2, <1>3
<1>5. c \in Nat /\ c \in 0..(TOTAL_HEAP_SIZE - 1)
  BY <1>1, <1>2
<1> QED BY <1>1, <1>2, <1>4, <1>5 DEF z

\* The blocks still tile the heap, at multiples of their sizes.
LEMMA HalveSound ==
  ASSUME NEW h, Sound(h), NEW b \in DOMAIN h, NEW g, NEW c, Halved(g, h, b, c)
  PROVE  Sound(g)
<1> DEFINE s == g[b].blockSize
           q == h[b].history
<1>1. /\ b \in Nat /\ s \in Nat \ {0} /\ q \in Nat /\ c \in Nat /\ c = b + s
      /\ b \in 0..(TOTAL_HEAP_SIZE - 1) /\ c \in 0..(TOTAL_HEAP_SIZE - 1)
      /\ c \notin DOMAIN h /\ b # c
  BY SoundFacts, HalvePlace DEF Halved
<1>2. /\ DOMAIN g = DOMAIN h \union {c}
      /\ h[b].blockSize = s + s
      /\ g[b].history = 2 * q /\ g[c].history = 2 * q + 1 /\ g[c].blockSize = s
      /\ \A d \in DOMAIN g : d # b /\ d # c => g[d] = h[d]
  BY <1>1 DEF Halved
<1>3. b = s * (2 * q) /\ c = s * (2 * q + 1)
  <2>1. b = (s + s) * q
    BY <1>2, SoundFacts
  <2> HIDE DEF s, q
  <2>2. (s + s) * q = s * (2 * q) /\ s * (2 * q + 1) = s * (2 * q) + s
    BY <1>1
  <2> QED BY <1>1, <2>1, <2>2
<1>4. \A d \in DOMAIN g :
        d \in 0..(TOTAL_HEAP_SIZE - 1) /\ d = g[d].blockSize * g[d].history
  <2> SUFFICES ASSUME NEW d \in DOMAIN g
               PROVE  d \in 0..(TOTAL_HEAP_SIZE - 1) /\ d = g[d].blockSize * g[d].history
    OBVIOUS
  <2>1. CASE d = b
    BY <1>1, <1>2, <1>3, <2>1
  <2>2. CASE d = c
    BY <1>1, <1>2, <1>3, <2>2
  <2>3. CASE d # b /\ d # c
    BY <1>2, <2>3, SoundFacts
  <2> QED BY <2>1, <2>2, <2>3
<1> DEFINE z == BuddyManager!Sizes(g)
<1>5. DOMAIN z = DOMAIN g /\ \A d \in DOMAIN g : z[d] = g[d].blockSize
  BY DEF BuddyManager!Sizes
<1>6. \A d \in DOMAIN g : d # b /\ d # c => z[d] = h[d].blockSize
  BY <1>2, <1>5
<1>7. z[b] = s /\ z[c] = s
  BY <1>2, <1>5
<1> HIDE DEF z
<1>8. 0 \in DOMAIN z
  BY <1>2, <1>5, SoundFacts
<1>9. ASSUME NEW d \in DOMAIN z
      PROVE  d + z[d] = TOTAL_HEAP_SIZE \/ d + z[d] \in DOMAIN z
  <2>1. CASE d = b
    BY <1>1, <1>2, <1>5, <1>7, <2>1
  <2>2. CASE d = c
    <3>1. b + h[b].blockSize = TOTAL_HEAP_SIZE \/ b + h[b].blockSize \in DOMAIN h
      BY SoundFacts
    <3>2. d + z[d] = b + h[b].blockSize
      BY <1>1, <1>2, <1>7, <2>2
    <3> QED BY <1>2, <1>5, <3>1, <3>2
  <2>3. CASE d # b /\ d # c
    <3>1. d \in DOMAIN h
          /\ (d + h[d].blockSize = TOTAL_HEAP_SIZE \/ d + h[d].blockSize \in DOMAIN h)
      BY <1>2, <1>5, <2>3, SoundFacts
    <3> QED BY <1>2, <1>5, <1>6, <2>3, <3>1
  <2> QED BY <2>1, <2>2, <2>3
<1>10. ASSUME NEW d \in DOMAIN z, NEW e \in DOMAIN z PROVE e <= d \/ e >= d + z[d]
  <2>1. \A x, y \in DOMAIN h : /\ x \in Nat /\ h[x].blockSize \in Nat \ {0}
                               /\ y <= x \/ y >= x + h[x].blockSize
    BY SoundFacts
  <2>2. d \in Nat /\ e \in Nat
    BY <1>1, <1>2, <1>5, <2>1
  <2>3. CASE e = c
    <3>1. CASE d = b \/ d = c
      BY <1>1, <1>7, <2>2, <2>3, <3>1
    <3>2. CASE d # b /\ d # c
      <4>1. d \in DOMAIN h /\ z[d] = h[d].blockSize
        BY <1>2, <1>5, <1>6, <3>2
      <4>2. (b <= d \/ b >= d + h[d].blockSize) /\ (d <= b \/ d >= b + h[b].blockSize)
            /\ h[d].blockSize \in Nat \ {0}
        BY <2>1, <4>1
      <4> QED BY <1>1, <1>2, <2>2, <2>3, <3>2, <4>1, <4>2
    <3> QED BY <3>1, <3>2
  <2>4. CASE e # c
    <3>0. e \in DOMAIN h
      BY <1>2, <1>5, <2>4
    <3>1. CASE d = b \/ d = c
      <4>1. e <= b \/ e >= b + h[b].blockSize
        BY <2>1, <3>0
      <4> QED BY <1>1, <1>2, <1>7, <2>2, <3>1, <4>1
    <3>2. CASE d # b /\ d # c
      <4>1. d \in DOMAIN h /\ z[d] = h[d].blockSize
        BY <1>2, <1>5, <1>6, <3>2
      <4> QED BY <2>1, <3>0, <4>1
    <3> QED BY <3>1, <3>2
  <2> QED BY <2>3, <2>4
<1>11. Tile(z)
  BY <1>8, <1>9, <1>10 DEF Tile
<1>12. g \in [DOMAIN g -> Headers]
  BY DEF Halved
<1> QED BY <1>4, <1>11, <1>12 DEF Sound, z

\* The right half goes into the list; its buddy is the one in hand.
LEMMA HalveKeeps ==
  ASSUME NEW h, NEW l, NEW b, NEW K, InHand(h, l, b, K), NEW g, NEW c, Halved(g, h, b, c),
         NEW m, m = Insert(l, BuddyManager!Sizes(g), c)
  PROVE  InHand(g, m, b, K) /\ \A d \in K : g[d] = h[d]
<1>1. /\ Sound(h) /\ K \subseteq DOMAIN h /\ b \in DOMAIN h /\ b \notin K
      /\ l \in Seq(DOMAIN h) /\ ToSet(l) = (DOMAIN h \ K) \ {b}
      /\ IsInjective(l) /\ Ordered(l, BuddyManager!Sizes(h))
      /\ \A d \in DOMAIN h : d # b => h[d].free = (d \notin K)
      /\ \A d \in ToSet(l) : BuddyManager!CanMerge(h, d) => BuddyManager!Buddy(h, d) = b
  BY DEF InHand
<1>2. /\ c \notin DOMAIN h /\ b # c /\ c \notin K /\ b \in Nat
      /\ g[b].blockSize \in Nat \ {0}
  BY <1>1, HalvePlace
<1>3. /\ DOMAIN g = DOMAIN h \union {c} /\ g[c].free
      /\ g[c].history = 2 * h[b].history + 1 /\ g[c].blockSize = g[b].blockSize
      /\ c = b + g[b].blockSize
      /\ \A d \in DOMAIN g : d # b /\ d # c => g[d] = h[d]
  BY DEF Halved
<1>4. Sound(g)
  BY <1>1, HalveSound
<1>5. \A d \in DOMAIN g : BuddyManager!Sizes(g)[d] \in Nat
  BY <1>4, SoundFacts, SizesAre
<1>6. l \in Seq(DOMAIN g)
  <2>1. ToSet(l) \subseteq DOMAIN g
    BY <1>1, <1>3
  <2> QED BY <1>1, <2>1, SubSequence
<1>7. c \notin ToSet(l) /\ b \notin ToSet(l)
  BY <1>1, <1>2
<1>8. Ordered(l, BuddyManager!Sizes(g))
  <2> SUFFICES ASSUME NEW i \in 1..Len(l), NEW j \in 1..Len(l), i < j
               PROVE  BuddyManager!Sizes(g)[l[i]] <= BuddyManager!Sizes(g)[l[j]]
    BY DEF Ordered
  <2>1. \A k \in 1..Len(l) : l[k] \in DOMAIN h /\ l[k] # b /\ l[k] # c
    <3>1. DOMAIN l = 1..Len(l)
      BY <1>6
    <3> QED BY <1>1, <1>7, <3>1 DEF ToSet
  <2>2. \A k \in 1..Len(l) : BuddyManager!Sizes(g)[l[k]] = BuddyManager!Sizes(h)[l[k]]
    <3> SUFFICES ASSUME NEW k \in 1..Len(l)
                 PROVE  BuddyManager!Sizes(g)[l[k]] = BuddyManager!Sizes(h)[l[k]]
      OBVIOUS
    <3>1. l[k] \in DOMAIN g /\ l[k] \in DOMAIN h /\ g[l[k]] = h[l[k]]
      BY <1>3, <2>1
    <3> QED BY <3>1, SizesAre
  <2>3. BuddyManager!Sizes(h)[l[i]] <= BuddyManager!Sizes(h)[l[j]]
    BY <1>1 DEF Ordered
  <2> QED BY <2>2, <2>3
<1>9. /\ m \in Seq(DOMAIN g) /\ ToSet(m) = ToSet(l) \union {c}
      /\ IsInjective(m) /\ Ordered(m, BuddyManager!Sizes(g))
  <2> DEFINE z == BuddyManager!Sizes(g)
  <2>1. c \in DOMAIN g
    BY <1>3
  <2> HIDE DEF z
  <2>2. \A d \in DOMAIN g : z[d] \in Nat
    BY <1>5 DEF z
  <2>3. Ordered(l, z)
    BY <1>8 DEF z
  <2>4. /\ Insert(l, z, c) \in Seq(DOMAIN g)
        /\ ToSet(Insert(l, z, c)) = ToSet(l) \union {c}
        /\ IsInjective(Insert(l, z, c)) /\ Ordered(Insert(l, z, c), z)
    BY <1>1, <1>6, <1>7, <2>1, <2>2, <2>3, InsertProperties
  <2> QED BY <2>4 DEF z
<1>10. ToSet(m) = (DOMAIN g \ K) \ {b}
  BY <1>1, <1>2, <1>3, <1>9
<1>11. \A d \in DOMAIN g : d # b => g[d].free = (d \notin K)
  <2> SUFFICES ASSUME NEW d \in DOMAIN g, d # b PROVE g[d].free = (d \notin K)
    OBVIOUS
  <2>1. CASE d = c
    <3>1. g[c].free \in BOOLEAN
      BY <1>3, <1>4, SoundFacts
    <3> QED BY <1>2, <1>3, <2>1, <3>1
  <2>2. CASE d # c
    <3>1. d \in DOMAIN h /\ g[d] = h[d]
      BY <1>3, <2>2
    <3> QED BY <1>1, <3>1
  <2> QED BY <2>1, <2>2
<1>12. ASSUME NEW d \in ToSet(m), BuddyManager!CanMerge(g, d), BuddyManager!Buddy(g, d) # b
       PROVE  FALSE
  <2>1. d \in DOMAIN g /\ d # b
    BY <1>10
  <2>2. CASE d = c
    <3>1. h[b].history \in Nat
      BY <1>1, SoundFacts
    <3>2. g[c].history % 2 = 1
      <4> DEFINE q == h[b].history
      <4>1. q \in Nat /\ g[c].history = 2 * q + 1
        BY <1>3, <3>1
      <4> HIDE DEF q
      <4>2. (2 * q + 1) % 2 = 1
        BY <4>1
      <4> QED BY <4>1, <4>2
    <3>3. BuddyManager!Buddy(g, c) = c - g[c].blockSize
      BY <3>2 DEF BuddyManager!Buddy
    <3> QED BY <1>2, <1>3, <1>12, <2>2, <3>3
  <2>3. CASE d # c
    <3> DEFINE v == BuddyManager!Buddy(g, d)
    <3>1. d \in DOMAIN h /\ g[d] = h[d] /\ d \in ToSet(l)
      BY <1>3, <1>9, <2>1, <2>3
    <3>2. g[d].blockSize < TOTAL_HEAP_SIZE
      BY <1>12, CanMergeIs
    <3>3. v = BuddyManager!Buddy(h, d)
      BY <3>1 DEF BuddyManager!Buddy
    <3>4. v \in DOMAIN h
      <4>1. h[d].blockSize < TOTAL_HEAP_SIZE
        BY <3>1, <3>2
      <4> QED BY <1>1, <3>1, <3>3, <4>1, BuddyBegins
    <3>5. g[v] = h[v]
      BY <1>2, <1>3, <1>12, <3>4
    <3> HIDE DEF v
    <3>6. BuddyManager!CanMerge(h, d)
      BY <1>12, <3>1, <3>3, <3>5, CanMergeSame
    <3>7. v = b
      BY <1>1, <3>1, <3>3, <3>6
    <3> QED BY <1>12, <3>7 DEF v
  <2> QED BY <2>2, <2>3
<1>13. \A d \in K : g[d] = h[d]
  <2> SUFFICES ASSUME NEW d \in K PROVE g[d] = h[d]
    OBVIOUS
  <2>1. d \in DOMAIN g /\ d # b /\ d # c
    BY <1>1, <1>2, <1>3
  <2> QED BY <1>3, <2>1
<1>14. K \subseteq DOMAIN g /\ b \in DOMAIN g /\ b \notin K
  BY <1>1, <1>3
<1>15. InHand(g, m, b, K)
  BY <1>4, <1>9, <1>10, <1>11, <1>12, <1>14 DEF InHand
<1> QED BY <1>13, <1>15


\* b in hand is still large enough, and nothing else has happened to what callers own.
Smaller(t, s, b, K, need) ==
  /\ InHand(t.h, t.l, b, K)
  /\ \A c \in K : t.h[c] = s.h[c]
  /\ t.h[b].blockSize >= need

\* A turn of the loop that halves a block.
LEMMA SplitStepKeeps ==
  ASSUME NEW s, NEW b, NEW K, NEW need, InHand(s.h, s.l, b, K), s.h[b].blockSize >= need
  PROVE  Smaller(BuddyManager!SplitStep(s, b, need), s, b, K, need)
<1> DEFINE h == s.h
           half == h[b].blockSize \div 2
           q == h[b].history
           c == b + half
           left == [h EXCEPT ![b].blockSize = half, ![b].history = 2 * @]
           right == [blockSize |-> half, history |-> q * 2 + 1, free |-> TRUE]
           g == [d \in DOMAIN left \union {c} |-> IF d = c THEN right ELSE left[d]]
           t == BuddyManager!SplitStep(s, b, need)
<1>1. Sound(h) /\ b \in DOMAIN h
  BY DEF InHand
<1>2. t = IF half >= BUDDY_BLOCK_SIZE /\ half >= need
          THEN [h |-> g, l |-> Insert(s.l, BuddyManager!Sizes(g), c)] ELSE s
  BY DEF BuddyManager!SplitStep, BuddyManager!With, BuddyManager!Header,
         BuddyManager!RightHistory, BuddyManager!Insert, Insert, BuddyManager!InsertAt, InsertAt,
         BuddyManager!Min, Min
<1>3. CASE ~(half >= BUDDY_BLOCK_SIZE /\ half >= need)
  <2>1. t = s
    BY <1>2, <1>3
  <2> HIDE DEF t
  <2>2. Smaller(t, s, b, K, need)
    BY <2>1 DEF Smaller
  <2> QED BY <2>2 DEF t
<1>4. CASE half >= BUDDY_BLOCK_SIZE /\ half >= need
  <2>1. h[b].blockSize \in BlockSizes /\ h[b].history \in Nat /\ h[b] \in Headers /\ b \in Nat
        /\ h[b].blockSize \in Nat
    BY <1>1, SoundFacts DEF Sound
  <2>2. half \in BlockSizes /\ h[b].blockSize = 2 * half /\ half \in Nat \ {0}
    BY <1>4, <2>1, SizesNext, BlockSizesFacts
  <2>3. t = [h |-> g, l |-> Insert(s.l, BuddyManager!Sizes(g), c)]
    BY <1>2, <1>4
  <2>4. Halved(g, h, b, c)
    <3>1. right \in Headers /\ right.blockSize = half /\ right.history = 2 * q + 1 /\ right.free
      BY <2>1, <2>2 DEF Headers
    <3>2. b # c
      BY <2>1, <2>2
    <3> DEFINE e == [[h[b] EXCEPT !.blockSize = half] EXCEPT !.history = 2 * @]
    <3>3. e \in Headers /\ e.blockSize = half /\ e.history = 2 * q
      <4>1. 2 * q \in Nat
        BY <2>1
      <4> HIDE DEF half, h
      <4> QED BY <2>1, <2>2, <4>1 DEF Headers
    <3>4. left = [d \in DOMAIN h |-> IF d = b THEN e ELSE h[d]]
      <4>1. h = [d \in DOMAIN h |-> h[d]]
        BY <1>1 DEF Sound
      <4> HIDE DEF h, half
      <4> QED BY <1>1, <4>1
    <3> HIDE DEF left, right, e, h, half, q
    <3>5. g = [d \in DOMAIN h \union {c} |->
                 IF d = c THEN right ELSE IF d = b THEN e ELSE h[d]]
      BY <3>4
    <3> HIDE DEF g
    <3>6. c = b + half
      OBVIOUS
    <3> HIDE DEF c
    <3>7. /\ DOMAIN g = DOMAIN h \union {c} /\ g[c] = right /\ g[b] = e
          /\ \A d \in DOMAIN g : d # b /\ d # c => g[d] = h[d]
      BY <1>1, <3>2, <3>5
    <3>8. g \in [DOMAIN g -> Headers]
      <4>1. \A d \in DOMAIN h : h[d] \in Headers
        BY <1>1 DEF Sound
      <4> QED BY <3>1, <3>3, <3>5, <4>1
    <3>9. c = b + g[b].blockSize /\ g[b].blockSize = half /\ g[b].history = 2 * q
          /\ h[b].blockSize = 2 * half
      BY <2>2, <3>3, <3>6, <3>7
    <3> QED BY <3>1, <3>7, <3>8, <3>9 DEF Halved, q
  <2>5. g[b].blockSize = half
    <3> HIDE DEF g, c, h
    <3>1. g[b].blockSize \in Nat
      BY <1>1, <2>4, HalvePlace
    <3>2. h[b].blockSize = 2 * g[b].blockSize
      BY <2>4 DEF Halved
    <3> HIDE DEF half
    <3> QED BY <2>2, <3>1, <3>2
  <2>6. half >= need
    BY <1>4
  <2> DEFINE m == Insert(s.l, BuddyManager!Sizes(g), c)
  <2>7. t.h = g /\ t.l = m
    BY <2>3
  <2> HIDE DEF g, c, half, t
  <2>8. InHand(h, s.l, b, K) /\ m = Insert(s.l, BuddyManager!Sizes(g), c)
    OBVIOUS
  <2> HIDE DEF m, h
  <2>9. InHand(g, m, b, K) /\ \A d \in K : g[d] = h[d]
    BY <2>4, <2>8, HalveKeeps
  <2>10. Smaller(t, s, b, K, need)
    BY <2>5, <2>6, <2>7, <2>9 DEF Smaller, h
  <2> QED BY <2>10 DEF t
<1> QED BY <1>3, <1>4

\* The loop as the sequence of its turns.
LEMMA SplitIs ==
  ASSUME NEW h, NEW l, NEW b, NEW need
  PROVE  \E after :
           /\ after[0] = [h |-> h, l |-> l]
           /\ \A k \in 1..BuddyManager!Turns :
                after[k] = BuddyManager!SplitStep(after[k-1], b, need)
           /\ BuddyManager!Split(h, l, b, need) = after[BuddyManager!Turns]
<1> DEFINE base == [h |-> h, l |-> l]
           Up(n, g) == [k \in 0..n |-> IF k = 0 THEN base
                                       ELSE BuddyManager!SplitStep(g[k-1], b, need)]
           Bad == {n \in Nat : ~ \E g : g = Up(n, g)}
<1> HIDE DEF base
<1>1. Bad = {}
  <2> SUFFICES ASSUME Bad # {} PROVE FALSE
    OBVIOUS
  <2>1. PICK n \in Bad : \A k \in Bad : n <= k
    BY LeastNatural, Zenon
  <2>2. n \in Nat /\ ~ \E g : g = Up(n, g)
    OBVIOUS
  <2>3. CASE n = 0
    <3>1. [k \in 0..0 |-> base] = Up(0, [k \in 0..0 |-> base])
      OBVIOUS
    <3> QED BY <2>2, <2>3, <3>1
  <2>4. CASE n # 0
    <3>1. n - 1 \in Nat /\ n - 1 \notin Bad
      <4>1. n - 1 \in Nat /\ ~ (n <= n - 1)
        BY <2>2, <2>4
      <4> QED BY <2>1, <4>1, Zenon
    <3>2. PICK g : g = Up(n - 1, g)
      BY <3>1
    <3> DEFINE f == Up(n, g)
    <3>3. f = [k \in 0..n |-> f[k]]
      OBVIOUS
    <3>4. ASSUME NEW k \in 0..n
          PROVE  f[k] = IF k = 0 THEN base ELSE BuddyManager!SplitStep(f[k-1], b, need)
      <4>1. CASE k = 0
        BY <4>1
      <4>2. CASE k # 0
        <5>1. k - 1 \in 0..(n-1) /\ k - 1 \in 0..n
          BY <2>2, <4>2
        <5>2. g[k-1] = IF k-1 = 0 THEN base
                       ELSE BuddyManager!SplitStep(g[(k-1)-1], b, need)
          BY <3>2, <5>1
        <5>3. f[k-1] = g[k-1]
          BY <5>1, <5>2
        <5>4. f[k] = BuddyManager!SplitStep(g[k-1], b, need)
          BY <4>2
        <5> HIDE DEF f
        <5> QED BY <4>2, <5>3, <5>4
      <4> QED BY <4>1, <4>2
    <3> HIDE DEF f
    <3>5. f = Up(n, f)
      BY <3>3, <3>4
    <3> QED BY <2>2, <3>5
  <2> QED BY <2>3, <2>4
<1> DEFINE N == BuddyManager!Turns
           after == CHOOSE g : g = Up(N, g)
<1>2. N \in Nat
  BY TurnsAre
<1>3. \E g : g = Up(N, g)
  BY <1>1, <1>2
<1> HIDE DEF Bad
<1>4. after = Up(N, after)
  BY <1>3, Zenon
<1>5. BuddyManager!Split(h, l, b, need) = after[N]
  BY DEF BuddyManager!Split, base
<1> HIDE DEF after, N
<1>6. /\ after[0] = base
      /\ \A k \in 1..N : after[k] = BuddyManager!SplitStep(after[k-1], b, need)
  BY <1>2, <1>4
<1> QED BY <1>5, <1>6 DEF base, N

\* The loop of allocMem leaves a block that is large enough in hand.
LEMMA SplitKeeps ==
  ASSUME NEW h, NEW l, NEW b, NEW K, NEW need, InHand(h, l, b, K), h[b].blockSize >= need,
         NEW t, t = BuddyManager!Split(h, l, b, need)
  PROVE  /\ InHand(t.h, t.l, b, K)
         /\ \A c \in K : t.h[c] = h[c]
         /\ t.h[b].blockSize >= need
<1> DEFINE N == BuddyManager!Turns
           base == [h |-> h, l |-> l]
<1>1. PICK after :
        /\ after[0] = base
        /\ \A k \in 1..N : after[k] = BuddyManager!SplitStep(after[k-1], b, need)
        /\ t = after[N]
  BY SplitIs
<1>2. N \in Nat
  BY TurnsAre
<1>3. base.h = h /\ base.l = l
  OBVIOUS
<1> HIDE DEF base
<1>4. Smaller(after[0], base, b, K, need)
  BY <1>1, <1>3 DEF Smaller
<1>5. ASSUME NEW k \in 1..N, Smaller(after[k-1], base, b, K, need)
      PROVE  Smaller(after[k], base, b, K, need)
  <2> DEFINE s == after[k-1]
             r == after[k]
  <2>1. r = BuddyManager!SplitStep(s, b, need)
    BY <1>1
  <2>2. Smaller(s, base, b, K, need)
    BY <1>5
  <2> HIDE DEF s, r
  <2>3. InHand(s.h, s.l, b, K) /\ s.h[b].blockSize >= need
    BY <2>2 DEF Smaller
  <2>4. Smaller(BuddyManager!SplitStep(s, b, need), s, b, K, need)
    BY <2>3, SplitStepKeeps
  <2>5. Smaller(r, base, b, K, need)
    BY <2>1, <2>2, <2>4 DEF Smaller
  <2> QED BY <2>5 DEF r
<1> DEFINE Wrong == {k \in 0..N : ~Smaller(after[k], base, b, K, need)}
<1>6. Wrong = {}
  <2> SUFFICES ASSUME Wrong # {} PROVE FALSE
    OBVIOUS
  <2>1. Wrong \in SUBSET Nat
    BY <1>2
  <2>2. PICK k \in Wrong : \A j \in Wrong : k <= j
    BY <2>1, LeastNatural, Zenon
  <2>3. k # 0
    BY <1>4
  <2>4. k \in 1..N /\ k - 1 \in 0..N /\ ~(k <= k-1)
    BY <1>2, <2>3
  <2>5. k - 1 \notin Wrong
    BY <2>2, <2>4, Zenon
  <2>6. Smaller(after[k-1], base, b, K, need)
    BY <2>4, <2>5
  <2>7. Smaller(after[k], base, b, K, need)
    BY <1>5, <2>4, <2>6, Zenon
  <2> QED BY <2>7
<1>7. Smaller(t, base, b, K, need)
  <2>1. N \in 0..N
    BY <1>2
  <2> QED BY <1>1, <1>6, <2>1
<1> QED BY <1>3, <1>7 DEF Smaller

-----------------------------------------------------------------------------
(* BUDDY: the state between calls                                          *)

\* No block is in hand: callers own the blocks of K, all others are in the free list,
\* and no two of these are buddies.
Rested(h, l, K) ==
  /\ Sound(h) /\ K \subseteq DOMAIN h
  /\ l \in Seq(DOMAIN h) /\ ToSet(l) = DOMAIN h \ K
  /\ IsInjective(l) /\ Ordered(l, BuddyManager!Sizes(h))
  /\ \A c \in DOMAIN h : h[c].free = (c \notin K)
  /\ \A c \in ToSet(l) : ~BuddyManager!CanMerge(h, c)

\* allocMem unlinks the block that it found.
LEMMA PickUp ==
  ASSUME NEW h, NEW l, NEW K, Rested(h, l, K), NEW k \in 1..Len(l), NEW b, b = l[k]
  PROVE  InHand(h, RemoveAt(l, k), b, K)
<1>1. /\ Sound(h) /\ K \subseteq DOMAIN h
      /\ l \in Seq(DOMAIN h) /\ ToSet(l) = DOMAIN h \ K
      /\ IsInjective(l) /\ Ordered(l, BuddyManager!Sizes(h))
      /\ \A c \in DOMAIN h : h[c].free = (c \notin K)
      /\ \A c \in ToSet(l) : ~BuddyManager!CanMerge(h, c)
  BY DEF Rested
<1>2. b \in ToSet(l)
  BY <1>1 DEF ToSet
<1>3. /\ RemoveAt(l, k) \in Seq(DOMAIN h)
      /\ ToSet(RemoveAt(l, k)) = ToSet(l) \ {b}
      /\ IsInjective(RemoveAt(l, k))
      /\ Ordered(RemoveAt(l, k), BuddyManager!Sizes(h))
  BY <1>1, UnlinkProperties
<1>4. b \in DOMAIN h /\ b \notin K
  BY <1>1, <1>2
<1>5. \A c \in ToSet(RemoveAt(l, k)) : ~BuddyManager!CanMerge(h, c)
  BY <1>1, <1>3
<1> HIDE DEF Sound
<1> QED BY <1>1, <1>3, <1>4, <1>5 DEF InHand

\* freeMem gets a block of a caller.
LEMMA PickUpGranted ==
  ASSUME NEW h, NEW l, NEW K, Rested(h, l, K), NEW b \in K
  PROVE  InHand(h, l, b, K \ {b})
<1>1. /\ Sound(h) /\ K \subseteq DOMAIN h
      /\ l \in Seq(DOMAIN h) /\ ToSet(l) = DOMAIN h \ K
      /\ IsInjective(l) /\ Ordered(l, BuddyManager!Sizes(h))
      /\ \A c \in DOMAIN h : h[c].free = (c \notin K)
      /\ \A c \in ToSet(l) : ~BuddyManager!CanMerge(h, c)
  BY DEF Rested
<1>2. ToSet(l) = (DOMAIN h \ (K \ {b})) \ {b}
  BY <1>1
<1>3. K \ {b} \subseteq DOMAIN h /\ b \in DOMAIN h
  BY <1>1
<1>4. \A c \in DOMAIN h : c # b => h[c].free = (c \notin K \ {b})
  BY <1>1
<1> QED BY <1>1, <1>2, <1>3, <1>4 DEF InHand

\* g is h but for the flag of block b.
Flagged(g, h, b) ==
  /\ DOMAIN g = DOMAIN h /\ g \in [DOMAIN g -> Headers]
  /\ g[b].blockSize = h[b].blockSize /\ g[b].history = h[b].history
  /\ \A c \in DOMAIN g : c # b => g[c] = h[c]

\* Setting the flag of a header.
LEMMA FlaggedIs ==
  ASSUME NEW h, Sound(h), NEW b \in DOMAIN h, NEW f \in BOOLEAN,
         NEW g, g = [h EXCEPT ![b].free = f]
  PROVE  Flagged(g, h, b) /\ g[b].free = f
<1> DEFINE e == [h[b] EXCEPT !.free = f]
<1>1. \A c \in DOMAIN h : h[c] \in Headers
  BY DEF Sound
<1>2. e \in Headers /\ e.blockSize = h[b].blockSize /\ e.history = h[b].history /\ e.free = f
  BY <1>1 DEF Headers
<1>3. h = [c \in DOMAIN h |-> h[c]]
  BY DEF Sound
<1>4. g = [c \in DOMAIN h |-> IF c = b THEN e ELSE h[c]]
  BY <1>3
<1> HIDE DEF e
<1>5. /\ DOMAIN g = DOMAIN h /\ g[b] = e
      /\ \A c \in DOMAIN g : c # b => g[c] = h[c]
  BY <1>4
<1>6. g \in [DOMAIN g -> Headers]
  BY <1>1, <1>2, <1>4
<1> QED BY <1>2, <1>5, <1>6 DEF Flagged

\* The flag is no part of where the blocks lie.
LEMMA FlaggedSound ==
  ASSUME NEW h, Sound(h), NEW b \in DOMAIN h, NEW g, Flagged(g, h, b)
  PROVE  /\ Sound(g) /\ BuddyManager!Sizes(g) = BuddyManager!Sizes(h)
         /\ \A c \in DOMAIN h : /\ g[c].blockSize = h[c].blockSize
                                /\ g[c].history = h[c].history
                                /\ BuddyManager!Buddy(g, c) = BuddyManager!Buddy(h, c)
<1>1. /\ DOMAIN g = DOMAIN h /\ g \in [DOMAIN g -> Headers]
      /\ \A c \in DOMAIN h : /\ g[c].blockSize = h[c].blockSize
                             /\ g[c].history = h[c].history
  BY DEF Flagged
<1>2. BuddyManager!Sizes(g) = BuddyManager!Sizes(h)
  BY <1>1 DEF BuddyManager!Sizes
<1>3. \A c \in DOMAIN g :
        c \in 0..(TOTAL_HEAP_SIZE - 1) /\ c = g[c].blockSize * g[c].history
  BY <1>1 DEF Sound
<1>4. Tile(BuddyManager!Sizes(g))
  BY <1>2 DEF Sound
<1>5. \A c \in DOMAIN h : BuddyManager!Buddy(g, c) = BuddyManager!Buddy(h, c)
  BY <1>1 DEF BuddyManager!Buddy
<1> QED BY <1>1, <1>2, <1>3, <1>4, <1>5 DEF Sound

\* allocMem hands the block out.
LEMMA PutGranted ==
  ASSUME NEW h, NEW l, NEW b, NEW K, InHand(h, l, b, K), NEW g, Flagged(g, h, b),
         g[b].free = FALSE
  PROVE  Rested(g, l, K \union {b})
<1>1. /\ Sound(h) /\ K \subseteq DOMAIN h /\ b \in DOMAIN h /\ b \notin K
      /\ l \in Seq(DOMAIN h) /\ ToSet(l) = (DOMAIN h \ K) \ {b}
      /\ IsInjective(l) /\ Ordered(l, BuddyManager!Sizes(h))
      /\ \A c \in DOMAIN h : c # b => h[c].free = (c \notin K)
      /\ \A c \in ToSet(l) : BuddyManager!CanMerge(h, c) => BuddyManager!Buddy(h, c) = b
  BY DEF InHand
<1>2. /\ Sound(g) /\ BuddyManager!Sizes(g) = BuddyManager!Sizes(h)
      /\ \A c \in DOMAIN h : /\ g[c].blockSize = h[c].blockSize
                             /\ g[c].history = h[c].history
                             /\ BuddyManager!Buddy(g, c) = BuddyManager!Buddy(h, c)
  BY <1>1, FlaggedSound
<1>3. /\ DOMAIN g = DOMAIN h /\ g[b].free = FALSE
      /\ \A c \in DOMAIN g : c # b => g[c] = h[c]
  BY DEF Flagged
<1>4. \A c \in DOMAIN g : g[c].free = (c \notin K \union {b})
  <2> SUFFICES ASSUME NEW c \in DOMAIN g PROVE g[c].free = (c \notin K \union {b})
    OBVIOUS
  <2>1. CASE c = b
    BY <1>3, <2>1
  <2>2. CASE c # b
    <3>1. g[c] = h[c] /\ c \in DOMAIN h
      BY <1>3, <2>2
    <3>2. h[c].free = (c \notin K)
      BY <1>1, <2>2, <3>1
    <3> QED BY <2>2, <3>1, <3>2
  <2> QED BY <2>1, <2>2
<1>5. ASSUME NEW c \in ToSet(l), BuddyManager!CanMerge(g, c) PROVE FALSE
  <2> DEFINE u == BuddyManager!Buddy(g, c)
  <2>1. g[c].blockSize < TOTAL_HEAP_SIZE /\ g[u].free /\ g[u].blockSize = g[c].blockSize
    BY <1>5, CanMergeIs
  <2>2. c \in DOMAIN h /\ c # b /\ u = BuddyManager!Buddy(h, c)
    BY <1>1, <1>2
  <2>3. u \in DOMAIN g
    BY <1>2, <1>3, <2>1, <2>2, BuddyBegins
  <2> HIDE DEF u
  <2>4. u # b
    BY <1>3, <2>1
  <2>5. g[u] = h[u] /\ g[c] = h[c]
    BY <1>3, <2>2, <2>3, <2>4
  <2>6. BuddyManager!CanMerge(h, c)
    BY <2>1, <2>2, <2>5, CanMergeIs
  <2> QED BY <1>1, <2>2, <2>4, <2>6
<1>6. ToSet(l) = DOMAIN g \ (K \union {b}) /\ K \union {b} \subseteq DOMAIN g
  BY <1>1, <1>3
<1>7. l \in Seq(DOMAIN g) /\ Ordered(l, BuddyManager!Sizes(g))
  BY <1>1, <1>2, <1>3
<1> QED BY <1>1, <1>2, <1>4, <1>5, <1>6, <1>7 DEF Rested

\* The list that holds b besides: when b is the heap, there was nothing in it.
LEMMA LinkKeeps ==
  ASSUME NEW h, NEW l, NEW b, NEW K, InHand(h, l, b, K),
         NEW m, m = BuddyManager!Linked(h, l, b)
  PROVE  /\ m \in Seq(DOMAIN h) /\ ToSet(m) = ToSet(l) \union {b}
         /\ IsInjective(m) /\ Ordered(m, BuddyManager!Sizes(h))
<1> DEFINE z == BuddyManager!Sizes(h)
<1>1. /\ Sound(h) /\ b \in DOMAIN h
      /\ l \in Seq(DOMAIN h) /\ ToSet(l) = (DOMAIN h \ K) \ {b}
      /\ IsInjective(l) /\ Ordered(l, z)
  BY DEF InHand
<1>2. m = IF h[b].blockSize = TOTAL_HEAP_SIZE THEN <<b>> ELSE Insert(l, z, b)
  BY DEF BuddyManager!Linked, BuddyManager!Insert, Insert, BuddyManager!InsertAt, InsertAt,
         BuddyManager!Min, Min
<1>3. \A c \in DOMAIN h : z[c] \in Nat
  BY <1>1, SoundFacts, SizesAre
<1>4. b \notin ToSet(l)
  BY <1>1
<1> HIDE DEF z
<1>5. CASE h[b].blockSize = TOTAL_HEAP_SIZE
  <2>1. \A c \in DOMAIN h : c = b
    <3> SUFFICES ASSUME NEW c \in DOMAIN h, c # b PROVE FALSE
      OBVIOUS
    <3>1. /\ TOTAL_HEAP_SIZE \in Nat /\ b \in 0..(TOTAL_HEAP_SIZE - 1)
          /\ c \in 0..(TOTAL_HEAP_SIZE - 1)
          /\ b + h[b].blockSize <= TOTAL_HEAP_SIZE
          /\ (c <= b \/ c >= b + h[b].blockSize)
      BY <1>1, SoundFacts
    <3> QED BY <1>5, <3>1
  <2>2. ToSet(l) = {} /\ DOMAIN h = {b}
    BY <1>1, <2>1
  <2>3. m = <<b>>
    BY <1>2, <1>5
  <2>4. m \in Seq({b}) /\ Len(m) = 1 /\ DOMAIN m = 1..1 /\ m[1] = b
    BY <2>3
  <2>5. ToSet(m) = {b}
    BY <2>4 DEF ToSet
  <2>6. IsInjective(m)
    BY <2>4 DEF IsInjective
  <2>7. Ordered(m, z)
    BY <2>4 DEF Ordered
  <2> QED BY <2>2, <2>4, <2>5, <2>6, <2>7 DEF z
<1>6. CASE h[b].blockSize # TOTAL_HEAP_SIZE
  <2>1. /\ Insert(l, z, b) \in Seq(DOMAIN h)
        /\ ToSet(Insert(l, z, b)) = ToSet(l) \union {b}
        /\ IsInjective(Insert(l, z, b)) /\ Ordered(Insert(l, z, b), z)
    BY <1>1, <1>3, <1>4, InsertProperties
  <2>2. m = Insert(l, z, b)
    BY <1>2, <1>6
  <2> QED BY <2>1, <2>2 DEF z
<1> QED BY <1>5, <1>6

\* freeMem puts what it merged back into the list.
LEMMA PutFree ==
  ASSUME NEW h, NEW l, NEW b, NEW K, InHand(h, l, b, K), ~BuddyManager!CanMerge(h, b),
         NEW g, Flagged(g, h, b), g[b].free, NEW m, m = BuddyManager!Linked(h, l, b)
  PROVE  Rested(g, m, K)
<1>1. /\ Sound(h) /\ K \subseteq DOMAIN h /\ b \in DOMAIN h /\ b \notin K
      /\ l \in Seq(DOMAIN h) /\ ToSet(l) = (DOMAIN h \ K) \ {b}
      /\ IsInjective(l) /\ Ordered(l, BuddyManager!Sizes(h))
      /\ \A c \in DOMAIN h : c # b => h[c].free = (c \notin K)
      /\ \A c \in ToSet(l) : BuddyManager!CanMerge(h, c) => BuddyManager!Buddy(h, c) = b
  BY DEF InHand
<1>2. /\ Sound(g) /\ BuddyManager!Sizes(g) = BuddyManager!Sizes(h)
      /\ \A c \in DOMAIN h : /\ g[c].blockSize = h[c].blockSize
                             /\ g[c].history = h[c].history
                             /\ BuddyManager!Buddy(g, c) = BuddyManager!Buddy(h, c)
  BY <1>1, FlaggedSound
<1>3. /\ DOMAIN g = DOMAIN h /\ g[b].free
      /\ \A c \in DOMAIN g : c # b => g[c] = h[c]
  BY DEF Flagged
<1>4. \A c \in DOMAIN g : g[c].free = (c \notin K)
  <2> SUFFICES ASSUME NEW c \in DOMAIN g PROVE g[c].free = (c \notin K)
    OBVIOUS
  <2>1. CASE c = b
    BY <1>1, <1>3, <2>1
  <2>2. CASE c # b
    <3>1. g[c] = h[c] /\ c \in DOMAIN h
      BY <1>3, <2>2
    <3> QED BY <1>1, <2>2, <3>1
  <2> QED BY <2>1, <2>2
<1>5. /\ m \in Seq(DOMAIN h) /\ ToSet(m) = ToSet(l) \union {b}
      /\ IsInjective(m) /\ Ordered(m, BuddyManager!Sizes(h))
  BY LinkKeeps
<1>6. ToSet(m) = DOMAIN g \ K
  BY <1>1, <1>3, <1>5
<1>7. ASSUME NEW c \in ToSet(m), BuddyManager!CanMerge(g, c) PROVE FALSE
  <2> DEFINE u == BuddyManager!Buddy(h, c)
  <2>1. c \in DOMAIN h /\ u = BuddyManager!Buddy(g, c)
    BY <1>2, <1>3, <1>6
  <2>2. g[c].blockSize < TOTAL_HEAP_SIZE /\ g[u].free /\ g[u].blockSize = g[c].blockSize
    BY <1>7, <2>1, CanMergeIs
  <2>3. h[c].blockSize < TOTAL_HEAP_SIZE
    BY <1>2, <2>1, <2>2
  <2>4. u \in DOMAIN h /\ u # c
    BY <1>1, <2>1, <2>3, BuddyBegins
  <2>5. h[u].blockSize = h[c].blockSize
    BY <1>2, <2>1, <2>2, <2>4
  <2> HIDE DEF u
  <2>6. CASE c = b
    <3>1. h[u].free
      BY <1>3, <2>2, <2>4, <2>6
    <3>2. BuddyManager!CanMerge(h, b)
      BY <2>3, <2>5, <2>6, <3>1, CanMergeIs DEF u
    <3> QED BY <3>2
  <2>7. CASE c # b /\ u # b
    <3>1. h[u].free /\ c \in ToSet(l)
      BY <1>3, <1>5, <2>2, <2>4, <2>7
    <3>2. BuddyManager!CanMerge(h, c)
      BY <2>3, <2>5, <3>1, CanMergeIs DEF u
    <3> QED BY <1>1, <2>7, <3>1, <3>2 DEF u
  <2>8. CASE c # b /\ u = b
    <3>1. BuddyManager!Buddy(h, b) = c
      BY <1>1, <2>1, <2>3, <2>4, <2>5, <2>8, BuddySymmetric DEF u
    <3>2. h[c].free
      BY <1>1, <1>5, <2>1, <2>8
    <3>3. BuddyManager!CanMerge(h, b)
      BY <2>3, <2>5, <2>8, <3>1, <3>2, CanMergeIs
    <3> QED BY <3>3
  <2> QED BY <2>6, <2>7, <2>8
<1>8. m \in Seq(DOMAIN g) /\ Ordered(m, BuddyManager!Sizes(g))
  BY <1>2, <1>3, <1>5
<1> QED BY <1>1, <1>2, <1>3, <1>4, <1>5, <1>6, <1>7, <1>8 DEF Rested


\* The inductive invariant of BUDDY.
BuddyInv ==
  /\ Rested(blocks, freeList, DOMAIN granted)
  /\ granted = [b \in DOMAIN granted |-> granted[b]]
  /\ \A b \in DOMAIN granted :
       granted[b] \in Nat \ {0} /\ blocks[b].blockSize >= granted[b] + STRUCT_SIZE
  /\ freeBytesRemaining \in 0..(WORD - 1)

\* createMemoryManager: one free block.
LEMMA BuddyInit ==
  ASSUME BuddyManager!Init
  PROVE  BuddyInv
<1>1. /\ blocks = [x \in {0} |-> [blockSize |-> TOTAL_HEAP_SIZE, history |-> 0, free |-> TRUE]]
      /\ freeList = <<0>> /\ freeBytesRemaining = TOTAL_HEAP_SIZE
      /\ granted = <<>>
  BY DEF BuddyManager!Init, BuddyManager!Header
<1>2. /\ DOMAIN blocks = {0} /\ blocks[0].blockSize = TOTAL_HEAP_SIZE
      /\ blocks[0].history = 0 /\ blocks[0].free = TRUE /\ DOMAIN granted = {}
  BY <1>1
<1>3. TOTAL_HEAP_SIZE \in Nat \ {0} /\ TOTAL_HEAP_SIZE \in BlockSizes
  BY BlockSizesFacts
<1>4. blocks \in [DOMAIN blocks -> Headers]
  <2>1. [blockSize |-> TOTAL_HEAP_SIZE, history |-> 0, free |-> TRUE] \in Headers
    BY <1>3 DEF Headers
  <2> QED BY <1>1, <2>1
<1>5. Tile(BuddyManager!Sizes(blocks))
  <2> DEFINE z == BuddyManager!Sizes(blocks)
  <2>1. DOMAIN z = {0} /\ z[0] = TOTAL_HEAP_SIZE
    BY <1>2, SizesAre
  <2> HIDE DEF z
  <2>2. Tile(z)
    BY <1>3, <2>1 DEF Tile
  <2> QED BY <2>2 DEF z
<1>6. Sound(blocks)
  <2>1. 0 \in 0..(TOTAL_HEAP_SIZE - 1) /\ 0 = TOTAL_HEAP_SIZE * 0
    BY <1>3
  <2> QED BY <1>2, <1>4, <1>5, <2>1 DEF Sound
<1>7. freeList \in Seq({0}) /\ Len(freeList) = 1 /\ DOMAIN freeList = 1..1
      /\ freeList[1] = 0
  BY <1>1
<1>8. ToSet(freeList) = {0} /\ IsInjective(freeList)
      /\ Ordered(freeList, BuddyManager!Sizes(blocks))
  <2>1. ToSet(freeList) = {0}
    BY <1>7 DEF ToSet
  <2>2. IsInjective(freeList)
    BY <1>7 DEF IsInjective
  <2>3. Ordered(freeList, BuddyManager!Sizes(blocks))
    BY <1>7 DEF Ordered
  <2> QED BY <2>1, <2>2, <2>3
<1>9. ~BuddyManager!CanMerge(blocks, 0)
  BY <1>2, <1>3, CanMergeIs
<1>10. Rested(blocks, freeList, DOMAIN granted)
  <2>1. ToSet(freeList) = DOMAIN blocks \ DOMAIN granted
        /\ freeList \in Seq(DOMAIN blocks) /\ DOMAIN granted \subseteq DOMAIN blocks
    BY <1>2, <1>7, <1>8
  <2>2. \A c \in DOMAIN blocks : blocks[c].free = (c \notin DOMAIN granted)
    BY <1>2
  <2>3. \A c \in ToSet(freeList) : ~BuddyManager!CanMerge(blocks, c)
    BY <1>8, <1>9
  <2> QED BY <1>6, <1>8, <2>1, <2>2, <2>3 DEF Rested
<1>11. freeBytesRemaining \in 0..(WORD - 1)
  BY <1>1, <1>3, WordAssumption
<1> QED BY <1>1, <1>2, <1>10, <1>11 DEF BuddyInv

\* The count of free bytes stays in its word.
LEMMA ModWord ==
  ASSUME NEW x \in Int
  PROVE  x % WORD \in 0..(WORD - 1)
<1>1. WORD \in Nat \ {0}
  BY WordAssumption, TotalAssumption
<1> QED BY <1>1

\* allocMem.
LEMMA BuddyAllocKeeps ==
  ASSUME BuddyInv, NEW n \in Requests, BuddyManager!AllocMem(n)
  PROVE  /\ BuddyInv'
         /\ \E b \in DOMAIN blocks :
              /\ b \notin DOMAIN granted /\ b \in DOMAIN blocks'
              /\ n \in Nat \ {0} /\ blocks'[b].blockSize >= n + STRUCT_SIZE
              /\ granted' = [y \in DOMAIN granted \union {b} |->
                               IF y = b THEN n ELSE granted[y]]
<1> DEFINE need == Needed(n)
           z == BuddyManager!Sizes(blocks)
           i == FirstFit(z, need)
           b == freeList[i]
           rest == RemoveAt(freeList, i)
           split == BuddyManager!Split(blocks, rest, b, need)
           K == DOMAIN granted
<1>1. n \in Nat
  BY RequestsAssumption, WordAssumption, StructAssumption, AlignmentAssumption
<1>2. need \in Nat /\ need >= n + STRUCT_SIZE /\ STRUCT_SIZE \in Nat
  BY <1>1, NeededProperties, StructAssumption
<1>3. /\ BuddyManager!Needed(n) = need
      /\ BuddyManager!FirstFit(z, need) = i
      /\ BuddyManager!RemoveAt(freeList, i) = rest
  BY DEF Needed, BuddyManager!Needed, FirstFit, BuddyManager!FirstFit,
         SelectInSeq, BuddyManager!SelectInSeq, Min, BuddyManager!Min,
         RemoveAt, BuddyManager!RemoveAt
<1>4. /\ n # 0 /\ i # 0
      /\ blocks' = [split.h EXCEPT ![b].free = FALSE]
      /\ freeList' = split.l
      /\ freeBytesRemaining' = (freeBytesRemaining - split.h[b].blockSize) % WORD
      /\ granted' = [y \in K \union {b} |-> IF y = b THEN n ELSE granted[y]]
  BY <1>3 DEF BuddyManager!AllocMem, BuddyManager!With
<1>5. Rested(blocks, freeList, K)
  BY DEF BuddyInv
<1>6. freeList \in Seq(DOMAIN blocks) /\ Sound(blocks) /\ ToSet(freeList) = DOMAIN blocks \ K
  BY <1>5 DEF Rested
<1>7. i \in 1..Len(freeList) /\ z[b] >= need
  BY <1>4, <1>6, FirstFitProperties
<1>8. b \in DOMAIN blocks /\ b \notin K
  <2>1. b \in ToSet(freeList)
    BY <1>6, <1>7 DEF ToSet
  <2> QED BY <1>6, <2>1
<1>9. blocks[b].blockSize >= need
  BY <1>7, <1>8, SizesAre
<1> DEFINE h == split.h
           l == split.l
<1> HIDE DEF i, need, z
<1>10. InHand(blocks, rest, b, K)
  BY <1>5, <1>7, PickUp
<1>11. split = BuddyManager!Split(blocks, rest, b, need)
  OBVIOUS
<1> HIDE DEF split, b, rest
<1>12. /\ InHand(h, l, b, K)
       /\ \A c \in K : h[c] = blocks[c]
       /\ h[b].blockSize >= need
  BY <1>9, <1>10, <1>11, SplitKeeps
<1>13. Sound(h) /\ b \in DOMAIN h /\ K \subseteq DOMAIN h
  BY <1>12 DEF InHand
<1>14. /\ blocks' = [h EXCEPT ![b].free = FALSE]
       /\ freeList' = l
       /\ freeBytesRemaining' = (freeBytesRemaining - h[b].blockSize) % WORD
  BY <1>4
<1> HIDE DEF h, l
<1>15. Flagged(blocks', h, b) /\ blocks'[b].free = FALSE
  <2>1. FALSE \in BOOLEAN
    OBVIOUS
  <2> QED BY <1>13, <1>14, <2>1, FlaggedIs
<1>16. Rested(blocks', l, K \union {b})
  BY <1>12, <1>15, PutGranted
<1>17. DOMAIN granted' = K \union {b}
  BY <1>4
<1> HIDE DEF K
<1>18. Rested(blocks', freeList', DOMAIN granted')
  BY <1>14, <1>16, <1>17
<1>19. freeBytesRemaining' \in 0..(WORD - 1)
  <2>1. h[b].blockSize \in Int
    BY <1>13, SoundFacts
  <2>2. freeBytesRemaining \in Int
    BY WordAssumption DEF BuddyInv
  <2>3. freeBytesRemaining - h[b].blockSize \in Int
    BY <2>1, <2>2
  <2> QED BY <1>14, <2>3, ModWord
<1>20. blocks'[b].blockSize >= n + STRUCT_SIZE
  <2>1. blocks'[b].blockSize = h[b].blockSize /\ h[b].blockSize \in Nat
    BY <1>13, <1>15, SoundFacts DEF Flagged
  <2> QED BY <1>1, <1>2, <1>12, <2>1
<1>21. \A c \in DOMAIN granted' :
         granted'[c] \in Nat \ {0} /\ blocks'[c].blockSize >= granted'[c] + STRUCT_SIZE
  <2> SUFFICES ASSUME NEW c \in DOMAIN granted'
               PROVE  /\ granted'[c] \in Nat \ {0}
                      /\ blocks'[c].blockSize >= granted'[c] + STRUCT_SIZE
    OBVIOUS
  <2>1. CASE c = b
    BY <1>1, <1>4, <1>17, <1>20, <2>1
  <2>2. CASE c # b
    <3>1. c \in K /\ granted'[c] = granted[c]
      BY <1>4, <1>17, <2>2
    <3>2. blocks'[c] = blocks[c]
      BY <1>12, <1>13, <1>15, <2>2, <3>1 DEF Flagged
    <3> QED BY <3>1, <3>2 DEF BuddyInv, K
  <2> QED BY <2>1, <2>2
<1>22. granted' = [c \in DOMAIN granted' |-> granted'[c]]
  BY <1>4
<1>23. BuddyInv'
  BY <1>18, <1>19, <1>21, <1>22 DEF BuddyInv, Rested, Ordered
<1>24. b \in DOMAIN blocks' /\ n \in Nat \ {0}
  BY <1>1, <1>4, <1>13, <1>15 DEF Flagged
<1> QED BY <1>4, <1>8, <1>20, <1>23, <1>24 DEF K

\* freeMem.
LEMMA BuddyFreeKeeps ==
  ASSUME BuddyInv, NEW b \in DOMAIN granted, BuddyManager!FreeMem(b)
  PROVE  BuddyInv' /\ granted' = [y \in DOMAIN granted \ {b} |-> granted[y]]
<1> DEFINE merged == BuddyManager!Merged(blocks, freeList, b)
           K == DOMAIN granted \ {b}
           h == merged.h
           c == merged.block
           m == BuddyManager!Linked(h, merged.l, c)
<1>2. /\ blocks' = [h EXCEPT ![c].free = TRUE]
      /\ freeList' = m
      /\ freeBytesRemaining' = (freeBytesRemaining + h[c].blockSize) % WORD
      /\ granted' = [y \in K |-> granted[y]]
  BY DEF BuddyManager!FreeMem, BuddyManager!Restrict
<1>3. InHand(blocks, freeList, b, K)
  <2>1. Rested(blocks, freeList, DOMAIN granted)
    BY DEF BuddyInv
  <2> QED BY <2>1, PickUpGranted
<1>4. merged = BuddyManager!Merged(blocks, freeList, b)
  OBVIOUS
<1> HIDE DEF merged, K
<1>5. /\ InHand(h, merged.l, c, K)
      /\ \A d \in K : h[d] = blocks[d]
      /\ ~BuddyManager!CanMerge(h, c)
  BY <1>3, <1>4, MergedKeeps
<1>6. Sound(h) /\ c \in DOMAIN h /\ K \subseteq DOMAIN h /\ c \notin K
  BY <1>5 DEF InHand
<1>7. m = BuddyManager!Linked(h, merged.l, c)
  OBVIOUS
<1> HIDE DEF h, c, m
<1>8. Flagged(blocks', h, c) /\ blocks'[c].free
  <2>1. TRUE \in BOOLEAN
    OBVIOUS
  <2>2. Flagged(blocks', h, c) /\ blocks'[c].free = TRUE
    BY <1>2, <1>6, <2>1, FlaggedIs
  <2> QED BY <2>2
<1>9. Rested(blocks', m, K)
  BY <1>5, <1>7, <1>8, PutFree
<1>10. DOMAIN granted' = K
  BY <1>2
<1>11. Rested(blocks', freeList', DOMAIN granted')
  BY <1>2, <1>9, <1>10
<1>12. freeBytesRemaining' \in 0..(WORD - 1)
  <2>1. h[c].blockSize \in Int
    BY <1>6, SoundFacts
  <2>2. freeBytesRemaining \in Int
    BY WordAssumption DEF BuddyInv
  <2>3. freeBytesRemaining + h[c].blockSize \in Int
    BY <2>1, <2>2
  <2> QED BY <1>2, <2>3, ModWord
<1>13. \A d \in DOMAIN granted' :
         granted'[d] \in Nat \ {0} /\ blocks'[d].blockSize >= granted'[d] + STRUCT_SIZE
  <2> SUFFICES ASSUME NEW d \in DOMAIN granted'
               PROVE  /\ granted'[d] \in Nat \ {0}
                      /\ blocks'[d].blockSize >= granted'[d] + STRUCT_SIZE
    OBVIOUS
  <2>1. d \in K /\ granted'[d] = granted[d] /\ d # c /\ d \in DOMAIN granted
    BY <1>2, <1>6, <1>10 DEF K
  <2>2. blocks'[d] = blocks[d]
    BY <1>5, <1>6, <1>8, <2>1 DEF Flagged
  <2> QED BY <2>1, <2>2 DEF BuddyInv
<1>14. granted' = [d \in DOMAIN granted' |-> granted'[d]]
  BY <1>2
<1>15. BuddyInv'
  BY <1>11, <1>12, <1>13, <1>14 DEF BuddyInv, Rested, Ordered
<1> QED BY <1>2, <1>15 DEF K


\* The quotient of a multiple.
LEMMA MultipleDiv ==
  ASSUME NEW s \in Nat \ {0}, NEW q \in Nat
  PROVE  (s * q) \div s = q
<1> DEFINE d == (s * q) \div s
<1>1. s * q \in Nat /\ (s * q) % s = 0
  BY MultipleMod
<1>2. d \in Nat /\ s * q = (s * d) + ((s * q) % s)
  BY <1>1
<1> HIDE DEF d
<1>3. s * q = s * d /\ s * d \in Int /\ s * q \in Int
  BY <1>1, <1>2
<1>4. CASE q < d
  <2>1. s * (d - q) >= s
    <3>1. d - q - 1 \in Nat
      BY <1>2, <1>4
    <3>2. s * (d - q) = s * (d - q - 1) + s /\ s * (d - q - 1) \in Nat
      BY <1>2, <3>1
    <3> QED BY <3>2
  <2>2. s * (d - q) = s * d - s * q
    BY <1>2
  <2> QED BY <1>3, <2>1, <2>2
<1>5. CASE d < q
  <2>1. s * (q - d) >= s
    <3>1. q - d - 1 \in Nat
      BY <1>2, <1>5
    <3>2. s * (q - d) = s * (q - d - 1) + s /\ s * (q - d - 1) \in Nat
      BY <1>2, <3>1
    <3> QED BY <3>2
  <2>2. s * (q - d) = s * q - s * d
    BY <1>2
  <2> QED BY <1>3, <2>1, <2>2
<1> QED BY <1>2, <1>4, <1>5 DEF d

\* The inductive invariant is at least the invariant of BUDDY that TLC checks.
LEMMA BuddyInvImpliesInv ==
  ASSUME BuddyInv
  PROVE  BuddyManager!Inv
<1> DEFINE z == BuddyManager!Sizes(blocks)
<1>1. /\ Sound(blocks) /\ DOMAIN granted \subseteq DOMAIN blocks
      /\ ToSet(freeList) = DOMAIN blocks \ DOMAIN granted
      /\ freeList \in Seq(DOMAIN blocks)
      /\ IsInjective(freeList) /\ Ordered(freeList, z)
      /\ \A b \in DOMAIN blocks : blocks[b].free = (b \notin DOMAIN granted)
  BY DEF BuddyInv, Rested
<1>2. DOMAIN z = DOMAIN blocks /\ \A b \in DOMAIN blocks : z[b] = blocks[b].blockSize
  BY SizesAre
<1>3. Tile(z)
  BY <1>1 DEF Sound
<1> HIDE DEF z
<1>4. ASSUME NEW b \in DOMAIN blocks
      PROVE  /\ TOTAL_HEAP_SIZE % blocks[b].blockSize = 0
             /\ b % blocks[b].blockSize = 0
             /\ blocks[b].history = b \div blocks[b].blockSize
  <2> DEFINE s == blocks[b].blockSize
             q == blocks[b].history
  <2>1. s \in BlockSizes /\ s \in Nat \ {0} /\ q \in Nat /\ b = s * q
    BY <1>1, SoundFacts
  <2>2. TOTAL_HEAP_SIZE \in BlockSizes /\ TOTAL_HEAP_SIZE \in Nat /\ s <= TOTAL_HEAP_SIZE
    BY <2>1, BlockSizesFacts
  <2> HIDE DEF s, q
  <2>3. \E k \in Nat : TOTAL_HEAP_SIZE = s * k
    <3>1. CASE s = TOTAL_HEAP_SIZE
      <4>1. TOTAL_HEAP_SIZE = s * 1
        BY <2>1, <3>1
      <4> QED BY <4>1
    <3>2. CASE s < TOTAL_HEAP_SIZE
      <4>1. PICK k \in Nat \ {0} : TOTAL_HEAP_SIZE = (2 * s) * k
        BY <2>1, <2>2, <3>2, SizesDivide
      <4>2. TOTAL_HEAP_SIZE = s * (2 * k) /\ 2 * k \in Nat
        BY <2>1, <4>1
      <4> QED BY <4>2
    <3> QED BY <2>1, <2>2, <3>1, <3>2
  <2>4. TOTAL_HEAP_SIZE % s = 0
    BY <2>1, <2>3, MultipleMod
  <2>5. b % s = 0 /\ b \div s = q
    BY <2>1, MultipleMod, MultipleDiv
  <2> QED BY <2>4, <2>5 DEF s, q
<1>5. BuddyManager!TypeOK
  BY <1>1, <1>4 DEF BuddyInv, BuddyManager!TypeOK
<1>6. BuddyManager!Tile(z)
  BY <1>3 DEF Tile, BuddyManager!Tile
<1>7. BuddyManager!FreeListSorted(z)
  BY <1>1, <1>2 DEF Ordered, ToSet, IsInjective, BuddyManager!FreeListSorted,
         BuddyManager!ToSet, BuddyManager!IsInjective, BuddyManager!IsSorted
<1>8. BuddyManager!GrantsFit(z)
  BY <1>1, <1>2 DEF BuddyInv, BuddyManager!GrantsFit
<1>9. BuddyManager!BuddyIsBlock
  <2> SUFFICES ASSUME NEW b \in DOMAIN blocks, blocks[b].blockSize < TOTAL_HEAP_SIZE
               PROVE  /\ blocks[b].history = b \div blocks[b].blockSize
                      /\ BuddyManager!Buddy(blocks, b) \in DOMAIN blocks
    BY DEF BuddyManager!BuddyIsBlock
  <2>1. BuddyManager!Buddy(blocks, b) \in DOMAIN blocks
    BY <1>1, BuddyBegins
  <2> QED BY <1>4, <2>1
<1> QED BY <1>4, <1>5, <1>6, <1>7, <1>8, <1>9 DEF BuddyManager!Inv, z

\* When nobody owns anything, the smallest block has a free buddy of its size unless
\* it is the heap.
LEMMA BuddyInvImpliesFullyMerged ==
  ASSUME BuddyInv
  PROVE  BuddyManager!FullyMerged
<1>1. /\ Sound(blocks) /\ ToSet(freeList) = DOMAIN blocks \ DOMAIN granted
      /\ \A b \in DOMAIN blocks : blocks[b].free = (b \notin DOMAIN granted)
      /\ \A b \in ToSet(freeList) : ~BuddyManager!CanMerge(blocks, b)
  BY DEF BuddyInv, Rested
<1>2. \A b \in BuddyManager!ToSet(freeList) : ~BuddyManager!CanMerge(blocks, b)
  BY <1>1 DEF ToSet, BuddyManager!ToSet
<1>3. ASSUME DOMAIN granted = {} PROVE blocks[0].blockSize = TOTAL_HEAP_SIZE
  <2> DEFINE S == {blocks[b].blockSize : b \in DOMAIN blocks}
  <2>1. /\ 0 \in DOMAIN blocks /\ TOTAL_HEAP_SIZE \in Nat
        /\ \A b \in DOMAIN blocks : /\ blocks[b].blockSize \in Nat
                                    /\ blocks[b].blockSize \in BlockSizes
    BY <1>1, SoundFacts
  <2>2. S \in SUBSET Nat /\ S # {}
    BY <2>1
  <2>3. PICK s \in S : \A t \in S : s <= t
    BY <2>2, LeastNatural, Zenon
  <2>4. PICK b \in DOMAIN blocks : s = blocks[b].blockSize
    OBVIOUS
  <2>5. \A c \in DOMAIN blocks : s <= blocks[c].blockSize
    BY <2>3
  <2> HIDE DEF S
  <2>6. \A c \in DOMAIN blocks : blocks[c].blockSize <= TOTAL_HEAP_SIZE
    BY <2>1, BlockSizesFacts
  <2>7. ASSUME s < TOTAL_HEAP_SIZE PROVE FALSE
    <3> DEFINE u == BuddyManager!Buddy(blocks, b)
    <3>1. u \in DOMAIN blocks /\ blocks[u].blockSize <= blocks[b].blockSize
      BY <1>1, <2>4, <2>7, BuddyBegins
    <3> HIDE DEF u
    <3>2. blocks[u].blockSize = blocks[b].blockSize
      BY <2>1, <2>4, <2>5, <3>1
    <3>3. blocks[u].free /\ b \in ToSet(freeList)
      BY <1>1, <1>3, <3>1
    <3>4. BuddyManager!CanMerge(blocks, b)
      BY <2>4, <2>7, <3>2, <3>3, CanMergeIs DEF u
    <3> QED BY <1>1, <3>3, <3>4
  <2> QED BY <2>1, <2>4, <2>5, <2>6, <2>7
<1>4. granted = <<>> => DOMAIN granted = {}
  OBVIOUS
<1> QED BY <1>2, <1>3, <1>4 DEF BuddyManager!FullyMerged

-----------------------------------------------------------------------------
(* Both implement Heap                                                     *)

\* The bytes that the callers own, by the addresses they were handed.
Handed == [a \in {b + STRUCT_SIZE : b \in DOMAIN granted} |-> granted[a - STRUCT_SIZE]]

\* Blocks of these sizes have room for what the callers own.
Keeps(sizes) ==
  /\ \A b \in DOMAIN sizes : b \in Nat /\ sizes[b] \in Nat /\ b + sizes[b] <= TOTAL_HEAP_SIZE
  /\ \A b, c \in DOMAIN sizes : c <= b \/ c >= b + sizes[b]
  /\ DOMAIN granted \subseteq DOMAIN sizes
  /\ \A b \in DOMAIN granted : granted[b] \in Nat /\ sizes[b] >= granted[b] + STRUCT_SIZE

\* Nothing is owned at the start.
LEMMA PromiseInit ==
  ASSUME DOMAIN granted = {}
  PROVE  Promise!Init
BY DEF Promise!Init

\* An address that is handed out heads bytes that nobody else owns.
LEMMA PromiseAlloc ==
  ASSUME NEW sizes, Keeps(sizes), NEW n \in Nat \ {0}, NEW b \in DOMAIN sizes,
         b \notin DOMAIN granted, sizes[b] >= n + STRUCT_SIZE,
         granted' = [y \in DOMAIN granted \union {b} |-> IF y = b THEN n ELSE granted[y]]
  PROVE  Promise!Alloc(n)
<1> DEFINE a == b + STRUCT_SIZE
<1>1. /\ STRUCT_SIZE \in Nat /\ TOTAL_HEAP_SIZE \in Nat
      /\ b \in Nat /\ sizes[b] \in Nat /\ b + sizes[b] <= TOTAL_HEAP_SIZE
      /\ \A y \in DOMAIN granted : /\ y \in DOMAIN sizes /\ y \in Nat /\ granted[y] \in Nat
                                   /\ sizes[y] \in Nat /\ sizes[y] >= granted[y] + STRUCT_SIZE
                                   /\ (y <= b \/ y >= b + sizes[b])
                                   /\ (b <= y \/ b >= y + sizes[y])
  BY StructAssumption, TotalAssumption DEF Keeps
<1>2. a \in 0..(TOTAL_HEAP_SIZE - n)
  BY <1>1
<1>3. ASSUME NEW y \in DOMAIN granted, NEW x \in a..(a + n - 1),
             x \in (y + STRUCT_SIZE)..(y + STRUCT_SIZE + granted[y] - 1)
      PROVE  FALSE
  <2>1. y # b
    OBVIOUS
  <2> QED BY <1>1, <1>3, <2>1
<1>4. ASSUME NEW z \in DOMAIN Handed
      PROVE  Promise!Bytes(a, n) \intersect Promise!Bytes(z, Handed[z]) = {}
  <2>1. PICK y \in DOMAIN granted : z = y + STRUCT_SIZE
    BY DEF Handed
  <2>2. z - STRUCT_SIZE = y
    <3>1. y \in Nat /\ STRUCT_SIZE \in Nat
      BY <1>1, Zenon
    <3> QED BY <2>1, <3>1
  <2>3. Handed[z] = granted[y]
    BY <2>2 DEF Handed
  <2> QED BY <1>3, <2>1, <2>3 DEF Promise!Bytes
<1>5. Handed' = [z \in DOMAIN Handed \union {a} |-> IF z = a THEN n ELSE Handed[z]]
  <2>1. \A y \in DOMAIN granted \union {b} : y \in Nat /\ (y + STRUCT_SIZE) - STRUCT_SIZE = y
    BY <1>1
  <2>2. DOMAIN granted' = DOMAIN granted \union {b}
    OBVIOUS
  <2>3. DOMAIN Handed = {y + STRUCT_SIZE : y \in DOMAIN granted}
        /\ DOMAIN Handed' = {y + STRUCT_SIZE : y \in DOMAIN granted \union {b}}
    BY <2>2 DEF Handed
  <2>4. DOMAIN Handed' = DOMAIN Handed \union {a}
    BY <2>3
  <2>5. ASSUME NEW z \in DOMAIN Handed'
        PROVE  Handed'[z] = IF z = a THEN n ELSE Handed[z]
    <3>1. PICK y \in DOMAIN granted \union {b} : z = y + STRUCT_SIZE
      BY <2>3
    <3>2. z - STRUCT_SIZE = y /\ Handed'[z] = granted'[y]
      BY <2>1, <2>2, <3>1 DEF Handed
    <3>3. CASE y = b
      BY <3>1, <3>2, <3>3
    <3>4. CASE y # b
      <4>1. y \in DOMAIN granted /\ z # a
        BY <1>1, <3>1, <3>4
      <4>2. Handed[z] = granted[y]
        BY <3>1, <3>2, <4>1 DEF Handed
      <4> QED BY <3>2, <3>4, <4>1, <4>2
    <3> QED BY <3>3, <3>4
  <2> QED BY <2>4, <2>5 DEF Handed
<1>6. n > 0
  OBVIOUS
<1> HIDE DEF a
<1> QED BY <1>2, <1>4, <1>5, <1>6, Zenon DEF Promise!Alloc, Handed

\* What is freed was handed out.
LEMMA PromiseFree ==
  ASSUME \A y \in DOMAIN granted : y \in Nat, NEW b \in DOMAIN granted,
         granted' = [y \in DOMAIN granted \ {b} |-> granted[y]]
  PROVE  Promise!Next
<1> DEFINE a == b + STRUCT_SIZE
<1>2. STRUCT_SIZE \in Nat /\ \A y \in DOMAIN granted : y \in Nat
  BY StructAssumption
<1>3. DOMAIN Handed = {y + STRUCT_SIZE : y \in DOMAIN granted}
      /\ DOMAIN Handed' = {y + STRUCT_SIZE : y \in DOMAIN granted \ {b}}
  BY DEF Handed
<1>4. DOMAIN Handed' = DOMAIN Handed \ {a}
  <2>1. \A y, z \in DOMAIN granted : y + STRUCT_SIZE = z + STRUCT_SIZE => y = z
    BY <1>2
  <2> QED BY <1>3, <2>1
<1>5. ASSUME NEW z \in DOMAIN Handed' PROVE Handed'[z] = Handed[z]
  <2>1. PICK y \in DOMAIN granted \ {b} : z = y + STRUCT_SIZE
    BY <1>3
  <2>2. z - STRUCT_SIZE = y
    BY <1>2, <2>1
  <2> QED BY <1>3, <2>1, <2>2 DEF Handed
<1>6. Handed' = [z \in DOMAIN Handed \ {a} |-> Handed[z]]
  BY <1>4, <1>5 DEF Handed
<1>7. a \in DOMAIN Handed
  BY <1>3
<1>8. Promise!Free(a)
  BY <1>6, <1>7 DEF Promise!Free, Promise!Restrict, Handed
<1> QED BY <1>7, <1>8 DEF Promise!Next, Handed

\* Every step of HEAP2 is one of the allocator.
LEMMA Heap2Promises ==
  ASSUME HeapInv, Heap2Manager!Next
  PROVE  Promise!Next
<1>1. ASSUME NEW n \in Requests, Heap2Manager!AllocMem(n) PROVE Promise!Alloc(n)
  <2>1. PICK i, b : Takes(n, i, b)
    BY <1>1, AllocTakes, Zenon
  <2>2. /\ n \in Nat \ {0} /\ b \in DOMAIN blocks /\ b \notin DOMAIN granted
        /\ blocks[b] >= n + STRUCT_SIZE
    <3>1. /\ blocks[b] >= Needed(n) /\ Needed(n) >= n + STRUCT_SIZE /\ Needed(n) \in Nat
          /\ n \in Nat /\ blocks[b] \in Nat
      BY <2>1, TakesFacts
    <3>2. STRUCT_SIZE \in Nat
      BY HeapFacts
    <3> QED BY <2>1, <3>1, <3>2, TakesFacts
  <2>3. granted' = [y \in DOMAIN granted \union {b} |-> IF y = b THEN n ELSE granted[y]]
    BY <2>1 DEF Takes
  <2>4. Keeps(blocks)
    <3>1. /\ TOTAL_HEAP_SIZE \in Nat
          /\ \A y \in DOMAIN blocks : y \in Nat /\ blocks[y] \in Nat /\ y < TOTAL_HEAP_SIZE
          /\ \A y \in DOMAIN granted : granted[y] \in Nat
      BY HeapFacts DEF HeapInv, Aligned
    <3>2. \A y \in DOMAIN blocks :
            y + blocks[y] = TOTAL_HEAP_SIZE \/ y + blocks[y] \in DOMAIN blocks
      BY DEF HeapInv, Tile
    <3>3. \A y \in DOMAIN blocks : y + blocks[y] <= TOTAL_HEAP_SIZE
      BY <3>1, <3>2
    <3>4. \A y, z \in DOMAIN blocks : z <= y \/ z >= y + blocks[y]
      BY DEF HeapInv, Tile
    <3> QED BY <3>1, <3>3, <3>4 DEF Keeps, HeapInv, GrantsFit
  <2> QED BY <2>2, <2>3, <2>4, PromiseAlloc
<1>2. ASSUME NEW b \in DOMAIN granted, Heap2Manager!FreeMem(b) PROVE Promise!Next
  <2>1. granted' = [y \in DOMAIN granted \ {b} |-> granted[y]]
    BY <1>2 DEF Heap2Manager!FreeMem, Heap2Manager!Restrict
  <2>2. \A y \in DOMAIN granted : y \in Nat
    BY HeapFacts DEF HeapInv
  <2> QED BY <2>1, <2>2, PromiseFree
<1> QED BY <1>1, <1>2 DEF Heap2Manager!Next, Promise!Next

\* The block that is granted is one of those that splitting leaves, among which the
\* bytes of everybody else lie as before.
LEMMA BuddyPromises ==
  ASSUME BuddyInv, BuddyManager!Next
  PROVE  Promise!Next
<1>1. ASSUME NEW n \in Requests, BuddyManager!AllocMem(n) PROVE Promise!Alloc(n)
  <2>1. BuddyInv'
    BY <1>1, BuddyAllocKeeps
  <2>2. PICK b \in DOMAIN blocks :
          /\ b \notin DOMAIN granted /\ b \in DOMAIN blocks'
          /\ n \in Nat \ {0} /\ blocks'[b].blockSize >= n + STRUCT_SIZE
          /\ granted' = [y \in DOMAIN granted \union {b} |->
                           IF y = b THEN n ELSE granted[y]]
    BY <1>1, BuddyAllocKeeps
  <2> DEFINE h == blocks'
             z == BuddyManager!Sizes(h)
  <2>3. Sound(h) /\ DOMAIN granted' \subseteq DOMAIN h
    BY <2>1 DEF BuddyInv, Rested, Sound
  <2>4. DOMAIN z = DOMAIN h /\ \A c \in DOMAIN h : z[c] = h[c].blockSize
    BY SizesAre
  <2>5. \A c \in DOMAIN granted' :
          granted'[c] \in Nat /\ h[c].blockSize >= granted'[c] + STRUCT_SIZE
    BY <2>1 DEF BuddyInv
  <2> HIDE DEF z, h
  <2>6. /\ \A c \in DOMAIN z : c \in Nat /\ z[c] \in Nat /\ c + z[c] <= TOTAL_HEAP_SIZE
        /\ \A c, d \in DOMAIN z : d <= c \/ d >= c + z[c]
    <3>1. /\ \A c \in DOMAIN h : /\ c \in Nat /\ h[c].blockSize \in Nat
                                 /\ c + h[c].blockSize <= TOTAL_HEAP_SIZE
          /\ \A c, d \in DOMAIN h : d <= c \/ d >= c + h[c].blockSize
      BY <2>3, SoundFacts
    <3> QED BY <2>4, <3>1
  <2>7. \A c \in DOMAIN granted :
          /\ c \in DOMAIN granted' /\ granted'[c] = granted[c]
    BY <2>2
  <2>8. Keeps(z)
    <3>1. \A c \in DOMAIN granted :
            /\ c \in DOMAIN z /\ granted[c] \in Nat /\ z[c] >= granted[c] + STRUCT_SIZE
      BY <2>3, <2>4, <2>5, <2>7
    <3> QED BY <2>6, <3>1 DEF Keeps
  <2>9. b \in DOMAIN z /\ z[b] >= n + STRUCT_SIZE
    BY <2>2, <2>4 DEF h
  <2> QED BY <2>2, <2>8, <2>9, PromiseAlloc
<1>2. ASSUME NEW b \in DOMAIN granted, BuddyManager!FreeMem(b) PROVE Promise!Next
  <2>1. granted' = [y \in DOMAIN granted \ {b} |-> granted[y]]
    BY <1>2, BuddyFreeKeeps
  <2>2. \A y \in DOMAIN granted : y \in Nat
    <3>1. Sound(blocks) /\ DOMAIN granted \subseteq DOMAIN blocks
      BY DEF BuddyInv, Rested
    <3> QED BY <3>1, SoundFacts
  <2> QED BY <2>1, <2>2, PromiseFree
<1> QED BY <1>1, <1>2 DEF BuddyManager!Next, Promise!Next
-----------------------------------------------------------------------------
(* The theorems                                                            *)

\* The inductive invariant of the heap that was built.
HeapOk == (MM = "HEAP2" /\ HeapInv) \/ (MM = "BUDDY" /\ BuddyInv)

\* The inductive invariant of the heap that was built holds in every reachable state:
\* createMemoryManager establishes it and allocMem and freeMem keep it.
THEOREM Invariance == Spec => []HeapOk
<1>1. Init => HeapOk
  BY HeapInit, BuddyInit DEF Init, HeapOk
<1>2. HeapOk /\ [Next]_vars => HeapOk'
  <2> SUFFICES ASSUME HeapOk, [Next]_vars PROVE HeapOk'
    OBVIOUS
  <2>1. CASE MM = "HEAP2" /\ Heap2Manager!Next /\ UNCHANGED MM
    <3>1. HeapInv
      BY <2>1 DEF HeapOk
    <3>2. HeapInv'
      BY <2>1, <3>1, AllocKeeps, FreeKeeps DEF Heap2Manager!Next
    <3> QED BY <2>1, <3>2 DEF HeapOk
  <2>2. CASE MM = "BUDDY" /\ BuddyManager!Next /\ UNCHANGED MM
    <3>1. BuddyInv
      BY <2>2 DEF HeapOk
    <3>2. BuddyInv'
      BY <2>2, <3>1, BuddyAllocKeeps, BuddyFreeKeeps DEF BuddyManager!Next
    <3> QED BY <2>2, <3>2 DEF HeapOk
  <2>3. CASE UNCHANGED vars
    <3>1. HeapInv => HeapInv'
      BY <2>3 DEF vars, HeapInv, Aligned, Tile, Ordered, GrantsFit
    <3>2. BuddyInv => BuddyInv'
      BY <2>3 DEF vars, BuddyInv
    <3> QED BY <2>3, <3>1, <3>2 DEF vars, HeapOk
  <2> QED BY <2>1, <2>2, <2>3 DEF Next
<1> QED BY <1>1, <1>2, PTL DEF Spec

\* The heap is right after every sequence of allocMem and freeMem, whichever manager
\* was built (MemoryManagerADT.c:56-114, MemManBuddy.c:99-177): its blocks tile the
\* memory, the free list has what nobody owns, once and sorted, whoever asked for
\* bytes has room for them; HEAP2's heapLeft is the sum of the free blocks; and where
\* BUDDY reads the buddy of a block, there is a header.
THEOREM HeapCorrect == Spec => []Inv
<1>1. HeapOk => Inv
  BY HeapInvImpliesInv, BuddyInvImpliesInv DEF HeapOk, Inv
<1> QED BY <1>1, Invariance, PTL

\* BUDDY leaves no free block beside its free buddy, and is one block again when
\* everything was freed (insertBlockIntoFreeList, MemManBuddy.c:53-97).
THEOREM MergedCorrect == Spec => []FullyMerged
<1>1. HeapOk => FullyMerged
  BY BuddyInvImpliesFullyMerged DEF HeapOk, FullyMerged
<1> QED BY <1>1, Invariance, PTL

\* Both managers implement the allocator that their callers rely on (mm.c:12-18):
\* what allocMem returns heads bytes inside the heap that nobody else owns, until
\* they are freed.
THEOREM HeapImplemented == Spec => ImplementsHeap
<1>1. Init => Promise!Init
  <2>1. Init => DOMAIN granted = {}
    BY DEF Init, Heap2Manager!Init, BuddyManager!Init
  <2> QED BY <2>1, PromiseInit
<1>2. HeapOk /\ [Next]_vars => [Promise!Next]_Handed
  <2> SUFFICES ASSUME HeapOk, [Next]_vars
               PROVE  Promise!Next \/ Handed' = Handed
    OBVIOUS
  <2>1. CASE MM = "HEAP2" /\ Heap2Manager!Next
    <3>1. HeapInv
      BY <2>1 DEF HeapOk
    <3> QED BY <2>1, <3>1, Heap2Promises
  <2>2. CASE MM = "BUDDY" /\ BuddyManager!Next
    <3>1. BuddyInv
      BY <2>2 DEF HeapOk
    <3> QED BY <2>2, <3>1, BuddyPromises
  <2>3. CASE UNCHANGED vars
    BY <2>3 DEF vars, Handed
  <2> QED BY <2>1, <2>2, <2>3 DEF Next
<1> QED BY <1>1, <1>2, Invariance, PTL DEF Spec, ImplementsHeap, Promise!Spec, Handed
=============================================================================
