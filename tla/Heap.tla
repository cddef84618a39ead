-------------------------------- MODULE Heap --------------------------------
(***************************************************************************)
(* What the kernel's allocator promises its callers, whichever of the two  *)
(* memory managers is linked in (Kernel/utils/mm.c hides the choice): a    *)
(* granted request has its bytes for itself until it is freed.  Heap2 and  *)
(* BuddyHeap implement this specification.                                 *)
(***************************************************************************)
EXTENDS Integers, Functions

CONSTANTS
  TOTAL_HEAP_SIZE,  \* bytes managed
  Requests          \* bound: the sizes asked for

VARIABLE granted  \* by address handed out: the bytes its owner asked for

Bytes(a, n) == a..(a + n - 1)

Init == granted = <<>>

Alloc(n) ==
  /\ n > 0
  /\ \E a \in 0..(TOTAL_HEAP_SIZE - n) :
       /\ \A b \in DOMAIN granted : Bytes(a, n) \intersect Bytes(b, granted[b]) = {}
       /\ granted' = [b \in DOMAIN granted \union {a} |-> IF b = a THEN n ELSE granted[b]]

Free(a) ==
  /\ a \in DOMAIN granted
  /\ granted' = Restrict(granted, DOMAIN granted \ {a})

\* A refused request is a stuttering step.
Next ==
  \/ \E n \in Requests : Alloc(n)
  \/ \E a \in DOMAIN granted : Free(a)

Spec == Init /\ [][Next]_granted
=============================================================================
