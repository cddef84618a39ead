---------------------------- MODULE KernelLemmas ----------------------------
(***************************************************************************)
(* Facts about numbers and sequences that the proofs about the kernel's    *)
(* lists share.  The library states induction with operator parameters,    *)
(* which the installed provers cannot instantiate; LeastNatural gives the  *)
(* same arguments by least counterexample.                                 *)
(***************************************************************************)
EXTENDS Integers, Sequences, SequencesExt, FiniteSetsExt, TLAPS, SequenceTheorems,
        FiniteSetTheorems, WellFoundedInduction

Below == {ss \in Nat \X Nat : ss[1] < ss[2]}

\* Every nonempty set of natural numbers has a least element.
LEMMA LeastNatural ==
  ASSUME NEW S \in SUBSET Nat, S # {}
  PROVE  \E m \in S : \A k \in S : m <= k
<1>1. IsWellFoundedOn(Below, Nat)
  BY NatLessThanWellFounded, Zenon DEF OpToRel, Below
<1>2. PICK m \in S : \A y \in S : ~(<<y, m>> \in Below)
  BY <1>1, WFMin, Zenon
<1>3. ASSUME NEW k \in S PROVE m <= k
  <2>1. k \in Nat /\ m \in Nat
    OBVIOUS
  <2>2. <<k, m>> \notin Below
    BY <1>2
  <2> QED BY <2>1, <2>2 DEF Below
<1> QED BY <1>3

\* The least element of a set of numbers.
LEMMA MinIs ==
  ASSUME NEW S \in SUBSET Nat, S # {}
  PROVE  Min(S) \in S /\ \A y \in S : Min(S) <= y
<1>1. \E x \in S : \A y \in S : x <= y
  BY LeastNatural, Zenon
<1> QED BY <1>1, Zenon DEF Min

\* Unlinking the k-th node of a list: the nodes behind it move up by one.
LEMMA RemoveAtProperties ==
  ASSUME NEW S, NEW s \in Seq(S), NEW k \in 1..Len(s)
  PROVE  /\ RemoveAt(s, k) \in Seq(S)
         /\ Len(RemoveAt(s, k)) = Len(s) - 1
         /\ \A i \in 1..(Len(s) - 1) :
              RemoveAt(s, k)[i] = IF i < k THEN s[i] ELSE s[i+1]
<1> DEFINE a == SubSeq(s, 1, k-1)
           b == SubSeq(s, k+1, Len(s))
<1>0. Len(s) \in Nat /\ k \in Nat /\ \A i \in 1..Len(s) : s[i] \in S
  OBVIOUS
<1>1. /\ a \in Seq(S) /\ Len(a) = k-1
      /\ \A i \in 1..(k-1) : a[i] = s[i]
  <2>1. \A i \in 1..(k-1) : s[i] \in S
    BY <1>0
  <2> QED BY <1>0, <2>1, SubSeqProperties
<1>2. /\ b \in Seq(S) /\ Len(b) = Len(s) - k
      /\ \A i \in 1..(Len(s) - k) : b[i] = s[k+i]
  <2>1. \A i \in (k+1)..Len(s) : s[i] \in S
    BY <1>0
  <2>2. /\ b \in Seq(S)
        /\ Len(b) = IF k+1 <= Len(s) THEN Len(s) - (k+1) + 1 ELSE 0
        /\ \A i \in 1..(Len(s) - (k+1) + 1) : b[i] = s[(k+1)+i-1]
    BY <1>0, <2>1, SubSeqProperties
  <2> QED BY <1>0, <2>2
<1> HIDE DEF a, b
<1>3. /\ a \o b \in Seq(S)
      /\ Len(a \o b) = Len(a) + Len(b)
      /\ \A i \in 1..(Len(a) + Len(b)) :
           (a \o b)[i] = IF i <= Len(a) THEN a[i] ELSE b[i - Len(a)]
  BY <1>1, <1>2, ConcatProperties
<1>4. RemoveAt(s, k) = a \o b
  BY DEF RemoveAt, a, b
<1>5. ASSUME NEW i \in 1..(Len(s) - 1)
      PROVE  (a \o b)[i] = IF i < k THEN s[i] ELSE s[i+1]
  <2>1. CASE i < k
    BY <2>1, <1>0, <1>1, <1>2, <1>3
  <2>2. CASE ~(i < k)
    <3>1. i - (k-1) \in 1..(Len(s) - k) /\ k + (i - (k-1)) = i + 1
      BY <2>2, <1>0
    <3>2. (a \o b)[i] = b[i - (k-1)]
      BY <2>2, <1>0, <1>1, <1>2, <1>3
    <3>3. b[i - (k-1)] = s[k + (i - (k-1))]
      BY <3>1, <1>2
    <3> QED BY <2>2, <3>1, <3>2, <3>3, <1>0
  <2> QED BY <2>1, <2>2
<1>6. Len(a \o b) = Len(s) - 1
  BY <1>0, <1>1, <1>2, <1>3
<1> QED BY <1>3, <1>4, <1>5, <1>6

\* Linking e as the k-th node of a list: the nodes behind it move back by one.
LEMMA InsertAtProperties ==
  ASSUME NEW S, NEW s \in Seq(S), NEW k \in 1..(Len(s) + 1), NEW e \in S
  PROVE  /\ InsertAt(s, k, e) \in Seq(S)
         /\ Len(InsertAt(s, k, e)) = Len(s) + 1
         /\ \A i \in 1..(Len(s) + 1) :
              InsertAt(s, k, e)[i] = IF i < k THEN s[i]
                                     ELSE IF i = k THEN e ELSE s[i-1]
<1> DEFINE a == SubSeq(s, 1, k-1)
           b == SubSeq(s, k, Len(s))
           c == a \o <<e>>
<1>0. Len(s) \in Nat /\ k \in Nat /\ \A i \in 1..Len(s) : s[i] \in S
  OBVIOUS
<1>1. /\ a \in Seq(S) /\ Len(a) = k-1
      /\ \A i \in 1..(k-1) : a[i] = s[i]
  <2>1. \A i \in 1..(k-1) : s[i] \in S
    BY <1>0
  <2> QED BY <1>0, <2>1, SubSeqProperties
<1>2. /\ b \in Seq(S) /\ Len(b) = Len(s) - k + 1
      /\ \A i \in 1..(Len(s) - k + 1) : b[i] = s[k+i-1]
  <2>1. \A i \in k..Len(s) : s[i] \in S
    BY <1>0
  <2> QED BY <1>0, <2>1, SubSeqProperties
<1> HIDE DEF a, b
<1>3. <<e>> \in Seq(S) /\ Len(<<e>>) = 1 /\ <<e>>[1] = e
  OBVIOUS
<1>4. /\ c \in Seq(S) /\ Len(c) = k
      /\ \A i \in 1..k : c[i] = IF i < k THEN s[i] ELSE e
  <2>1. /\ c \in Seq(S) /\ Len(c) = Len(a) + Len(<<e>>)
        /\ \A i \in 1..(Len(a) + Len(<<e>>)) :
             c[i] = IF i <= Len(a) THEN a[i] ELSE <<e>>[i - Len(a)]
    BY <1>1, <1>3, ConcatProperties
  <2> HIDE DEF c
  <2>2. ASSUME NEW i \in 1..k PROVE c[i] = IF i < k THEN s[i] ELSE e
    <3>1. CASE i < k
      BY <3>1, <2>1, <1>0, <1>1, <1>3
    <3>2. CASE i = k
      BY <3>2, <2>1, <1>0, <1>1, <1>3
    <3> QED BY <3>1, <3>2, <1>0
  <2> QED BY <2>1, <2>2, <1>0, <1>1, <1>3
<1> HIDE DEF c
<1>5. /\ c \o b \in Seq(S)
      /\ Len(c \o b) = Len(c) + Len(b)
      /\ \A i \in 1..(Len(c) + Len(b)) :
           (c \o b)[i] = IF i <= Len(c) THEN c[i] ELSE b[i - Len(c)]
  BY <1>2, <1>4, ConcatProperties
<1>6. InsertAt(s, k, e) = c \o b
  BY DEF InsertAt, a, b, c
<1>7. ASSUME NEW i \in 1..(Len(s) + 1)
      PROVE  (c \o b)[i] = IF i < k THEN s[i] ELSE IF i = k THEN e ELSE s[i-1]
  <2>1. CASE i <= k
    BY <2>1, <1>0, <1>2, <1>4, <1>5
  <2>2. CASE ~(i <= k)
    <3>1. i - k \in 1..(Len(s) - k + 1) /\ k + (i - k) - 1 = i - 1
      BY <2>2, <1>0
    <3>2. (c \o b)[i] = b[i - k]
      BY <2>2, <1>0, <1>2, <1>4, <1>5
    <3> QED BY <2>2, <3>1, <3>2, <1>0, <1>2
  <2> QED BY <2>1, <2>2
<1> QED BY <1>0, <1>2, <1>4, <1>5, <1>6, <1>7

\* A position that is less than one turn past the end of a ring of P places.
LEMMA ModOnce ==
  ASSUME NEW P \in Nat \ {0}, NEW x \in 0..(2*P - 1)
  PROVE  x % P = IF x < P THEN x ELSE x - P
<1> DEFINE q == x \div P
           r == x % P
<1>1. x = (P * q) + r /\ q \in Nat /\ r \in 0..(P-1)
  <2>1. x \in Nat
    OBVIOUS
  <2> QED BY <2>1
<1> HIDE DEF q, r
<1>2. CASE q = 0
  BY <1>1, <1>2 DEF r
<1>3. CASE q = 1
  BY <1>1, <1>3 DEF r
<1>4. CASE q >= 2
  <2>1. P * (q - 2) \in Nat
    BY <1>1, <1>4
  <2>2. P * q = P * (q - 2) + P + P
    BY <1>1
  <2> QED BY <1>1, <2>1, <2>2
<1> QED BY <1>1, <1>2, <1>3, <1>4

\* A multiple leaves no rest.
LEMMA MultipleMod ==
  ASSUME NEW A \in Nat \ {0}, NEW k \in Nat
  PROVE  (A * k) % A = 0
<1> DEFINE q == (A * k) \div A
           r == (A * k) % A
<1>1. A * k \in Nat
  OBVIOUS
<1>2. A * k = (A * q) + r /\ q \in Nat /\ r \in 0..(A-1)
  BY <1>1
<1> HIDE DEF q, r
<1>3. r = A * (k - q)
  BY <1>2
<1>4. CASE k = q
  BY <1>2, <1>3, <1>4 DEF r
<1>5. CASE k > q
  <2>1. A * (k - q - 1) \in Nat
    BY <1>2, <1>5
  <2>2. A * (k - q) = A * (k - q - 1) + A
    BY <1>2
  <2> QED BY <1>2, <1>3, <2>1, <2>2
<1>6. CASE k < q
  <2>1. A * (q - k - 1) \in Nat
    BY <1>2, <1>6
  <2>2. A * (k - q) = - (A * (q - k - 1)) - A
    BY <1>2
  <2> QED BY <1>2, <1>3, <2>1, <2>2
<1> QED BY <1>2, <1>4, <1>5, <1>6

LEMMA DivisibleIsMultiple ==
  ASSUME NEW A \in Nat \ {0}, NEW x \in Nat, x % A = 0
  PROVE  \E k \in Nat : x = A * k
<1>1. x = A * (x \div A) + (x % A) /\ x \div A \in Nat
  OBVIOUS
<1> QED BY <1>1

\* Sums and differences of aligned numbers are aligned.
LEMMA AlignedSum ==
  ASSUME NEW A \in Nat \ {0}, NEW x \in Nat, NEW y \in Nat, x % A = 0, y % A = 0
  PROVE  /\ (x + y) % A = 0
         /\ x >= y => (x - y) % A = 0
<1>1. PICK j \in Nat : x = A * j
  BY DivisibleIsMultiple
<1>2. PICK k \in Nat : y = A * k
  BY DivisibleIsMultiple
<1>3. x + y = A * (j + k) /\ j + k \in Nat
  BY <1>1, <1>2
<1>4. (x + y) % A = 0
  BY <1>3, MultipleMod
<1>5. ASSUME x >= y PROVE (x - y) % A = 0
  <2>1. j >= k
    <3> SUFFICES ASSUME k > j PROVE FALSE
      OBVIOUS
    <3>1. A * (k - j - 1) \in Nat
      OBVIOUS
    <3>2. A * k = A * j + A * (k - j - 1) + A
      OBVIOUS
    <3> QED BY <1>1, <1>2, <1>5, <3>1, <3>2
  <2>2. x - y = A * (j - k) /\ j - k \in Nat
    BY <1>1, <1>2, <2>1
  <2> QED BY <2>2, MultipleMod
<1> QED BY <1>4, <1>5
-----------------------------------------------------------------------------
(* Sums over finite sets.  The community module adds the elements in some   *)
(* order of its own; these lemmas say that no order matters.               *)

\* The sum of f over a set.
SumOn(f, S) == MapThenSumSet(LAMBDA b : f[b], S)

\* g holds the sums over the subsets of S, each from that without a chosen element.
Sums(f, S, g) ==
  g = [s \in SUBSET S |-> IF s = {} THEN 0
                          ELSE f[CHOOSE x \in s : TRUE] + g[s \ {CHOOSE x \in s : TRUE}]]

LEMMA SumOnDef ==
  ASSUME NEW f, NEW S
  PROVE  SumOn(f, S) = (CHOOSE g : Sums(f, S, g))[S]
BY DEF SumOn, Sums, MapThenSumSet, MapThenFoldSet

LEMMA SumsExist ==
  ASSUME NEW f, NEW S, IsFiniteSet(S)
  PROVE  \E g : Sums(f, S, g)
<1> DEFINE c(s) == CHOOSE x \in s : TRUE
           Small(n) == {s \in SUBSET S : Cardinality(s) <= n}
           Up(n, g) == [s \in Small(n) |-> IF s = {} THEN 0 ELSE f[c(s)] + g[s \ {c(s)}]]
           Bad == {n \in Nat : ~ \E g : g = Up(n, g)}
<1>0. \A s \in SUBSET S : IsFiniteSet(s) /\ Cardinality(s) \in Nat
  BY FS_Subset, FS_CardinalityType
<1>1. ASSUME NEW s \in SUBSET S, s # {}
      PROVE  c(s) \in s /\ s \ {c(s)} \in SUBSET S
             /\ Cardinality(s \ {c(s)}) = Cardinality(s) - 1
  <2>1. c(s) \in s
    BY <1>1
  <2> QED BY <2>1, <1>0, FS_RemoveElement
<1> HIDE DEF c
<1>2. Bad = {}
  <2> SUFFICES ASSUME Bad # {} PROVE FALSE
    OBVIOUS
  <2>1. PICK n \in Bad : \A k \in Bad : n <= k
    BY LeastNatural, Zenon
  <2>2. n \in Nat /\ ~ \E g : g = Up(n, g)
    OBVIOUS
  <2>3. CASE n = 0
    <3>1. \A s \in Small(0) : s = {}
      BY <1>0, FS_EmptySet
    <3>2. [s \in Small(0) |-> 0] = Up(0, [s \in Small(0) |-> 0])
      BY <3>1
    <3> QED BY <2>2, <2>3, <3>2
  <2>4. CASE n # 0
    <3>0. n - 1 \in Nat /\ ~ (n <= n - 1)
      BY <2>2, <2>4
    <3>1. n - 1 \notin Bad
      BY <2>1, <3>0, Zenon
    <3>2. PICK g : g = Up(n - 1, g)
      BY <3>0, <3>1
    <3> DEFINE h == Up(n, g)
    <3>3. ASSUME NEW s \in Small(n), s # {}
          PROVE  h[s \ {c(s)}] = g[s \ {c(s)}]
      <4> DEFINE t == s \ {c(s)}
      <4>1. t \in Small(n - 1) /\ t \in Small(n)
        BY <1>0, <1>1, <2>2, <3>3
      <4>2. h[t] = IF t = {} THEN 0 ELSE f[c(t)] + g[t \ {c(t)}]
        BY <4>1
      <4>3. g[t] = IF t = {} THEN 0 ELSE f[c(t)] + g[t \ {c(t)}]
        BY <3>2, <4>1
      <4> QED BY <4>2, <4>3
    <3>4. h = Up(n, h)
      BY <3>3
    <3> QED BY <2>2, <3>4
  <2> QED BY <2>3, <2>4
<1>3. Cardinality(S) \in Nat /\ Small(Cardinality(S)) = SUBSET S
  BY <1>0, FS_Subset
<1>4. PICK g : g = Up(Cardinality(S), g)
  BY <1>2, <1>3
<1>5. Sums(f, S, g)
  BY <1>3, <1>4 DEF Sums, c
<1> QED BY <1>5

\* A sum is made of the values at its set, whatever set it was formed for.
LEMMA SumsAgree ==
  ASSUME NEW f, NEW S, NEW g, Sums(f, S, g), NEW h, NEW T, NEW k, Sums(h, T, k),
         NEW U, IsFiniteSet(U), U \subseteq S, U \subseteq T, \A x \in U : f[x] = h[x]
  PROVE  g[U] = k[U]
<1> DEFINE c(s) == CHOOSE x \in s : TRUE
           Bad == {n \in Nat : \E s \in SUBSET U : Cardinality(s) = n /\ g[s] # k[s]}
<1>0. \A s \in SUBSET U : IsFiniteSet(s) /\ Cardinality(s) \in Nat
  BY FS_Subset, FS_CardinalityType
<1>1. ASSUME NEW s \in SUBSET U
      PROVE  /\ g[s] = IF s = {} THEN 0 ELSE f[c(s)] + g[s \ {c(s)}]
             /\ k[s] = IF s = {} THEN 0 ELSE h[c(s)] + k[s \ {c(s)}]
  <2>1. s \in SUBSET S /\ s \in SUBSET T
    OBVIOUS
  <2> QED BY <2>1 DEF Sums
<1>2. ASSUME Bad # {} PROVE FALSE
  <2>1. PICK n \in Bad : \A m \in Bad : n <= m
    BY <1>2, LeastNatural, Zenon
  <2>2. PICK s \in SUBSET U : Cardinality(s) = n /\ g[s] # k[s]
    OBVIOUS
  <2>3. s # {}
    BY <1>1, <2>2
  <2>4. c(s) \in s
    BY <2>3
  <2> HIDE DEF c
  <2>5. s \ {c(s)} \in SUBSET U /\ Cardinality(s \ {c(s)}) = n - 1
    BY <1>0, <2>2, <2>4, FS_RemoveElement
  <2>6. g[s \ {c(s)}] = k[s \ {c(s)}]
    BY <1>0, <2>1, <2>5
  <2> QED BY <1>1, <2>2, <2>3, <2>4, <2>6
<1>3. Cardinality(U) \in Nat /\ Cardinality(U) \notin Bad
  BY <1>0, <1>2
<1> QED BY <1>3

LEMMA SumOnIs ==
  ASSUME NEW f, NEW S, IsFiniteSet(S), NEW T, IsFiniteSet(T), S \subseteq T, NEW g, Sums(f, T, g)
  PROVE  SumOn(f, S) = g[S]
<1> DEFINE k == CHOOSE k : Sums(f, S, k)
<1>1. Sums(f, S, k)
  BY SumsExist, Zenon
<1> HIDE DEF k
<1>2. k[S] = g[S]
  BY <1>1, SumsAgree
<1> QED BY <1>2, SumOnDef DEF k

LEMMA SumEmpty == \A f : SumOn(f, {}) = 0
<1> SUFFICES ASSUME NEW f PROVE SumOn(f, {}) = 0
  OBVIOUS
<1>1. IsFiniteSet({})
  BY FS_EmptySet
<1>2. PICK g : Sums(f, {}, g)
  BY <1>1, SumsExist
<1>3. g[{}] = 0
  BY <1>2 DEF Sums
<1> QED BY <1>1, <1>2, <1>3, SumOnIs

LEMMA SumAgree ==
  ASSUME NEW f, NEW h, NEW S, IsFiniteSet(S), \A x \in S : f[x] = h[x]
  PROVE  SumOn(f, S) = SumOn(h, S)
<1>1. PICK g : Sums(f, S, g)
  BY SumsExist
<1>2. PICK k : Sums(h, S, k)
  BY SumsExist
<1>3. g[S] = k[S]
  BY <1>1, <1>2, SumsAgree
<1> QED BY <1>1, <1>2, <1>3, SumOnIs

\* Any element can be the one that is added last.
LEMMA SumsSplit ==
  ASSUME NEW S, IsFiniteSet(S), NEW f, \A x \in S : f[x] \in Int, NEW g, Sums(f, S, g)
  PROVE  /\ g[S] \in Int
         /\ \A x \in S : g[S] = g[S \ {x}] + f[x]
<1> DEFINE c(s) == CHOOSE x \in s : TRUE
           Good(s) == g[s] \in Int /\ \A x \in s : g[s] = g[s \ {x}] + f[x]
           Bad == {n \in Nat : \E s \in SUBSET S : Cardinality(s) = n /\ ~Good(s)}
<1>0. \A s \in SUBSET S : IsFiniteSet(s) /\ Cardinality(s) \in Nat
  BY FS_Subset, FS_CardinalityType
<1>1. ASSUME NEW s \in SUBSET S
      PROVE  g[s] = IF s = {} THEN 0 ELSE f[c(s)] + g[s \ {c(s)}]
  BY DEF Sums
<1>2. ASSUME NEW s \in SUBSET S, NEW x \in s
      PROVE  s \ {x} \in SUBSET S /\ Cardinality(s \ {x}) = Cardinality(s) - 1
  BY <1>0, FS_RemoveElement
<1>3. ASSUME Bad # {} PROVE FALSE
  <2>1. PICK n \in Bad : \A m \in Bad : n <= m
    BY <1>3, LeastNatural, Zenon
  <2>2. PICK s \in SUBSET S : Cardinality(s) = n /\ ~Good(s)
    OBVIOUS
  <2>3. ASSUME NEW t \in SUBSET S, Cardinality(t) < Cardinality(s) PROVE Good(t)
    <3>1. Cardinality(t) \in Nat /\ ~ (Cardinality(s) <= Cardinality(t))
      BY <1>0, <2>3
    <3>2. Cardinality(t) \notin Bad
      BY <2>1, <2>2, <3>1
    <3> QED BY <3>1, <3>2
  <2>4. s # {}
    BY <1>1, <2>2
  <2>5. c(s) \in s
    BY <2>4
  <2> DEFINE cs == c(s)
  <2>5a. cs \in s /\ g[s] = f[cs] + g[s \ {cs}]
    BY <1>1, <2>4, <2>5
  <2> HIDE DEF c, cs
  <2>6. Good(s \ {cs}) /\ f[cs] \in Int
    <3>1. s \ {cs} \in SUBSET S /\ Cardinality(s \ {cs}) = Cardinality(s) - 1
      BY <1>2, <2>5a
    <3>2. Cardinality(s \ {cs}) < Cardinality(s)
      BY <1>0, <3>1
    <3>3. Good(s \ {cs})
      BY <2>3, <3>1, <3>2, Zenon
    <3>4. f[cs] \in Int
      BY <2>5a
    <3> QED BY <3>3, <3>4
  <2>7. ASSUME NEW x \in s PROVE g[s] = g[s \ {x}] + f[x]
    <3>1. CASE x = cs
      BY <2>5a, <2>6, <3>1
    <3>2. CASE x # cs
      <4>1. Good(s \ {x}) /\ f[x] \in Int
        BY <1>0, <1>2, <2>3, <2>7
      <4>2. (s \ {x}) \ {cs} = (s \ {cs}) \ {x}
        OBVIOUS
      <4> DEFINE r == g[(s \ {cs}) \ {x}]
      <4>3. g[s \ {cs}] = r + f[x] /\ g[s \ {x}] = r + f[cs]
        BY <2>5a, <2>6, <2>7, <3>2, <4>1, <4>2
      <4>4. g[(s \ {cs}) \ {x}] \in Int
        <5>1. (s \ {cs}) \ {x} \in SUBSET S
              /\ Cardinality((s \ {cs}) \ {x}) < Cardinality(s)
          <6>1. x \in s \ {cs} /\ s \ {cs} \in SUBSET S
            BY <2>7, <3>2
          <6>2. Cardinality((s \ {cs}) \ {x}) = Cardinality(s \ {cs}) - 1
            BY <1>2, <6>1
          <6>3. Cardinality(s \ {cs}) = Cardinality(s) - 1
            BY <1>2, <2>5a
          <6> QED BY <1>0, <6>1, <6>2, <6>3
        <5> QED BY <2>3, <5>1
      <4> HIDE DEF r
      <4>5. r \in Int
        BY <4>4 DEF r
      <4> QED BY <2>5a, <2>6, <4>1, <4>3, <4>5
    <3> QED BY <3>1, <3>2
  <2>8. g[s] \in Int
    BY <2>5a, <2>6
  <2> QED BY <2>2, <2>7, <2>8
<1>4. Cardinality(S) \in Nat /\ Cardinality(S) \notin Bad
  BY <1>0, <1>3
<1> QED BY <1>4

LEMMA SumAdd ==
  ASSUME NEW S, IsFiniteSet(S), NEW x, x \notin S, NEW f, \A y \in S \union {x} : f[y] \in Int
  PROVE  /\ SumOn(f, S) \in Int
         /\ SumOn(f, S \union {x}) = SumOn(f, S) + f[x]
<1> DEFINE T == S \union {x}
<1>1. IsFiniteSet(T)
  BY FS_AddElement
<1>2. PICK g : Sums(f, T, g)
  BY <1>1, SumsExist
<1>3. PICK k : Sums(f, S, k)
  BY SumsExist
<1>4. SumOn(f, T) = g[T] /\ SumOn(f, S) = g[S]
  BY <1>1, <1>2, SumOnIs
<1>5. SumOn(f, S) = k[S] /\ k[S] \in Int
  BY <1>3, SumOnIs, SumsSplit
<1>6. g[T] = g[T \ {x}] + f[x]
  BY <1>1, <1>2, SumsSplit
<1>7. T \ {x} = S
  OBVIOUS
<1> QED BY <1>4, <1>5, <1>6, <1>7

LEMMA SumRemove ==
  ASSUME NEW T, IsFiniteSet(T), NEW x \in T, NEW f, \A y \in T : f[y] \in Int
  PROVE  /\ SumOn(f, T \ {x}) \in Int
         /\ SumOn(f, T) = SumOn(f, T \ {x}) + f[x]
<1>1. /\ IsFiniteSet(T \ {x}) /\ x \notin T \ {x}
      /\ (T \ {x}) \union {x} = T
      /\ \A y \in (T \ {x}) \union {x} : f[y] \in Int
  BY FS_RemoveElement
<1> DEFINE S == T \ {x}
<1> HIDE DEF S
<1>2. /\ IsFiniteSet(S) /\ x \notin S /\ S \union {x} = T
      /\ \A y \in S \union {x} : f[y] \in Int
  BY <1>1 DEF S
<1>3. SumOn(f, S) \in Int /\ SumOn(f, S \union {x}) = SumOn(f, S) + f[x]
  BY <1>2, SumAdd
<1> QED BY <1>2, <1>3 DEF S

\* Of numbers that are not negative, more make no less.
LEMMA SumMonotone ==
  ASSUME NEW T, IsFiniteSet(T), NEW f, \A y \in T : f[y] \in Nat, NEW S \in SUBSET T
  PROVE  SumOn(f, S) \in Nat /\ SumOn(f, T) \in Nat /\ SumOn(f, S) <= SumOn(f, T)
<1> DEFINE Good(s, t) == SumOn(f, s) \in Nat => SumOn(f, t) \in Nat /\ SumOn(f, s) <= SumOn(f, t)
           Bad == {n \in Nat : \E s, t \in SUBSET T :
                     s \subseteq t /\ Cardinality(t) = n /\ ~Good(s, t)}
<1>0. \A s \in SUBSET T : IsFiniteSet(s) /\ Cardinality(s) \in Nat
  BY FS_Subset, FS_CardinalityType
<1>1. ASSUME Bad # {} PROVE FALSE
  <2>1. PICK n \in Bad : \A m \in Bad : n <= m
    BY <1>1, LeastNatural, Zenon
  <2>2. PICK s \in SUBSET T, t \in SUBSET T : s \subseteq t /\ Cardinality(t) = n /\ ~Good(s, t)
    OBVIOUS
  <2>3. PICK x \in t : x \notin s
    BY <2>2
  <2> DEFINE u == t \ {x}
  <2>4. u \in SUBSET T /\ s \subseteq u /\ Cardinality(u) = n - 1 /\ n - 1 \in Nat
        /\ IsFiniteSet(u) /\ t = u \union {x} /\ x \notin u
    BY <1>0, <2>2, <2>3, FS_RemoveElement
  <2> HIDE DEF u
  <2>5. n - 1 \notin Bad
    <3>1. n \in Nat /\ ~ (n <= n - 1)
      OBVIOUS
    <3> QED BY <2>1, <3>1, Zenon
  <2>6. Good(s, u)
    BY <2>4, <2>5
  <2>7. SumOn(f, t) = SumOn(f, u) + f[x] /\ f[x] \in Nat
    <3>1. \A y \in u \union {x} : f[y] \in Int
      BY <2>3, <2>4
    <3> QED BY <2>4, <3>1, <2>3, SumAdd
  <2> QED BY <2>2, <2>6, <2>7
<1>2. ASSUME NEW s \in SUBSET T, NEW t \in SUBSET T, s \subseteq t PROVE Good(s, t)
  <2>1. Cardinality(t) \notin Bad /\ Cardinality(t) \in Nat
    BY <1>0, <1>1
  <2> QED BY <1>2, <2>1
<1>3. SumOn(f, {}) \in Nat
  BY SumEmpty
<1>4. Good({}, S) /\ Good({}, T) /\ Good(S, T)
  BY <1>2
<1> QED BY <1>3, <1>4

\* f holds what n turns of a loop over values of S come to.
Iteration(f, n, S, b, step) ==
  /\ f \in [0..n -> S] /\ f[0] = b
  /\ \A i \in 1..n : f[i] = step[<<i, f[i-1]>>]

\* There is such an f when each turn stays in the set.
LEMMA Iterates ==
  ASSUME NEW n \in Nat, NEW S, NEW b \in S, NEW step, step \in [(1..n) \X S -> S]
  PROVE  \E f : Iteration(f, n, S, b, step)
<1> DEFINE Is(f, k) == /\ f \in [0..k -> S] /\ f[0] = b
                       /\ \A i \in 1..k : f[i] = step[<<i, f[i-1]>>]
           Bad == {k \in Nat : k <= n /\ ~ \E f : Is(f, k)}
<1>1. Is([i \in 0..0 |-> b], 0)
  OBVIOUS
<1>2. ASSUME NEW k \in 1..n, NEW f, Is(f, k-1)
      PROVE  \E g : Is(g, k)
  <2> DEFINE g == [i \in 0..k |-> IF i = k THEN step[<<k, f[k-1]>>] ELSE f[i]]
  <2>1. f[k-1] \in S /\ k-1 \in 0..(k-1)
    BY <1>2
  <2>2. step[<<k, f[k-1]>>] \in S
    BY <2>1
  <2>3. g \in [0..k -> S]
    <3>1. \A i \in 0..k : i # k => i \in 0..(k-1)
      OBVIOUS
    <3> QED BY <1>2, <2>2, <3>1
  <2>4. g[0] = b
    BY <1>2
  <2>5. ASSUME NEW i \in 1..k PROVE g[i] = step[<<i, g[i-1]>>]
    <3>1. i-1 \in 0..k /\ i-1 # k /\ i \in 0..k
      OBVIOUS
    <3>2. g[i-1] = f[i-1]
      BY <3>1
    <3>3. CASE i = k
      BY <3>1, <3>2, <3>3
    <3>4. CASE i # k
      <4>1. i \in 1..(k-1)
        BY <3>4
      <4>2. g[i] = f[i]
        BY <3>1, <3>4
      <4> QED BY <1>2, <3>2, <4>1, <4>2
    <3> QED BY <3>3, <3>4
  <2> HIDE DEF g
  <2> QED BY <2>3, <2>4, <2>5
<1> HIDE DEF Is
<1>3. Bad = {}
  <2> SUFFICES ASSUME Bad # {} PROVE FALSE
    OBVIOUS
  <2>1. PICK k \in Bad : \A m \in Bad : k <= m
    BY LeastNatural, Zenon
  <2>2. k # 0
    BY <1>1
  <2>3. k \in 1..n /\ k-1 \in Nat /\ k-1 <= n /\ ~(k <= k-1)
    BY <2>2
  <2>4. PICK f : Is(f, k-1)
    BY <2>1, <2>3
  <2> QED BY <1>2, <2>3, <2>4
<1>4. PICK f : Is(f, n)
  BY <1>3
<1> QED BY <1>4 DEF Is, Iteration

\* A finite set of numbers has its maximum in it.
LEMMA MaxIs ==
  ASSUME NEW S \in SUBSET Int, S # {}, IsFiniteSet(S)
  PROVE  Max(S) \in S /\ \A y \in S : Max(S) >= y
<1> DEFINE HasMax(T) == T = {} \/ \E x \in T : \A y \in T : x >= y
           Sizes == {Cardinality(T) : T \in {U \in SUBSET S : ~HasMax(U)}}
<1>1. HasMax(S)
  <2> SUFFICES ASSUME ~HasMax(S) PROVE FALSE
    OBVIOUS
  <2>1. \A T \in SUBSET S : IsFiniteSet(T) /\ Cardinality(T) \in Nat
    BY FS_Subset, FS_CardinalityType
  <2>2. Sizes \in SUBSET Nat /\ Sizes # {}
    BY <2>1
  <2>3. PICK c \in Sizes : \A d \in Sizes : c <= d
    BY <2>2, LeastNatural
  <2>4. PICK T \in SUBSET S : Cardinality(T) = c /\ ~HasMax(T)
    OBVIOUS
  <2>5. PICK x \in T : TRUE
    BY <2>4
  <2>6. Cardinality(T \ {x}) = c - 1 /\ T \ {x} \in SUBSET S
    BY <2>1, <2>4, FS_RemoveElement
  <2>7. HasMax(T \ {x})
    <3>1. c \in Nat /\ ~(c <= c - 1)
      BY <2>2, <2>3
    <3>2. c - 1 \notin Sizes
      BY <2>3, <3>1
    <3> HIDE DEF HasMax
    <3> QED BY <2>6, <3>2
  <2>8. CASE T \ {x} = {}
    <3>1. \A y \in T : y = x
      BY <2>8
    <3> QED BY <2>4, <3>1
  <2>9. CASE T \ {x} # {}
    <3>1. PICK m \in T \ {x} : \A y \in T \ {x} : m >= y
      BY <2>7, <2>9
    <3>2. m \in Int /\ x \in Int /\ \A y \in T : y \in Int
      OBVIOUS
    <3>3. CASE m >= x
      <4>1. \A y \in T : m >= y
        BY <3>1, <3>3
      <4> QED BY <2>4, <4>1
    <3>4. CASE x >= m
      <4>1. \A y \in T : x >= y
        BY <3>1, <3>2, <3>4
      <4> QED BY <2>4, <4>1
    <3> QED BY <3>2, <3>3, <3>4
  <2> QED BY <2>8, <2>9
<1> QED BY <1>1 DEF Max

\* Induction up to n, for a set.
LEMMA UpTo ==
  ASSUME NEW n \in Nat, NEW P, 0 \in P, \A i \in 1..n : i-1 \in P => i \in P
  PROVE  \A i \in 0..n : i \in P
<1> DEFINE Bad == {i \in Nat : i <= n /\ i \notin P}
<1>1. Bad = {}
  <2> SUFFICES ASSUME Bad # {} PROVE FALSE
    OBVIOUS
  <2>1. PICK m \in Bad : \A k \in Bad : m <= k
    BY LeastNatural, Zenon
  <2>2. m # 0
    OBVIOUS
  <2>3. m \in 1..n /\ m-1 \in Nat /\ m-1 <= n /\ ~(m <= m-1)
    BY <2>2
  <2>4. m-1 \in P
    BY <2>1, <2>3
  <2> QED BY <2>3, <2>4
<1> QED BY <1>1

\* The smaller one of two numbers.
LEMMA MinOfTwo ==
  ASSUME NEW a \in Nat, NEW b \in Nat
  PROVE  Min({a, b}) \in Nat /\ Min({a, b}) <= a /\ Min({a, b}) <= b
<1>1. \E x \in {a, b} : \A y \in {a, b} : x <= y
  BY a <= b \/ b <= a
<1>2. Min({a, b}) \in {a, b} /\ \A y \in {a, b} : Min({a, b}) <= y
  BY <1>1, Zenon DEF Min
<1> QED BY <1>2

\* All but the last element of a sequence.
LEMMA FrontIs ==
  ASSUME NEW T, NEW s \in Seq(T), s # <<>>
  PROVE  /\ Len(s) \in Nat \ {0} /\ Front(s) \in Seq(T) /\ Len(Front(s)) = Len(s) - 1
         /\ \A i \in 1..(Len(s) - 1) : Front(s)[i] = s[i]
<1> DEFINE n == Len(s) - 1
           f == SubSeq(s, 1, n)
<1>1. Len(s) \in Nat \ {0} /\ n \in Nat /\ Len(s) = n + 1 /\ \A i \in 1..n : s[i] \in T
  OBVIOUS
<1>2. Front(s) = f
  BY DEF Front
<1> HIDE DEF n
<1>3. /\ f \in Seq(T) /\ Len(f) = IF 1 <= n THEN n - 1 + 1 ELSE 0
      /\ \A i \in 1..(n - 1 + 1) : f[i] = s[1 + i - 1]
  BY <1>1, SubSeqProperties
<1> HIDE DEF f
<1>4. Len(f) = n /\ n = Len(s) - 1
  BY <1>1, <1>3
<1>5. \A i \in 1..n : f[i] = s[i]
  BY <1>1, <1>3
<1> QED BY <1>1, <1>2, <1>3, <1>4, <1>5
=============================================================================
