-------------------------- MODULE SchedulerProofs --------------------------
(***************************************************************************)
(* Proofs about module Scheduler, for every number of processes, ageing    *)
(* period and set of priorities: the inductive invariant Inv, the scans of *)
(* switchProcess, and what a switch dispatches.                            *)
(*                                                                         *)
(* The scans are recursive functions.  What they return is proved by the   *)
(* least index at which the scan would go wrong (LeastNatural).  Inv needs *)
(* the shell at the head of the list (ShellIsHead): loadProcess and nice   *)
(* do not compare the head, and only the first node may be the shell that  *)
(* the second scan steps over.                                             *)
(***************************************************************************)
EXTENDS Scheduler, KernelLemmas

-----------------------------------------------------------------------------
IsNextScan(f, n, s, ps, ap) ==
  f = [i \in 0..n |-> IF i = 0 THEN s[1] ELSE NextStep(f[i-1], s[i], ps, ap)]

LEMMA NextScanExists ==
  ASSUME NEW s, NEW ps, NEW ap, NEW n \in Nat
  PROVE  \E f : IsNextScan(f, n, s, ps, ap)
<1> DEFINE Bad == {k \in Nat : ~ \E f : IsNextScan(f, k, s, ps, ap)}
<1> SUFFICES ASSUME Bad # {} PROVE FALSE
  OBVIOUS
<1>1. PICK m \in Bad : \A k \in Bad : m <= k
  BY LeastNatural
<1>2. CASE m = 0
  <2>1. IsNextScan([i \in 0..0 |-> s[1]], 0, s, ps, ap)
    BY DEF IsNextScan
  <2> QED BY <1>2, <2>1
<1>3. CASE m # 0
  <2>1. m \in Nat /\ m - 1 \in Nat /\ m - 1 \notin Bad
    BY <1>1, <1>3
  <2>2. PICK g : IsNextScan(g, m-1, s, ps, ap)
    BY <2>1
  <2> DEFINE h == [i \in 0..m |-> IF i < m THEN g[i]
                                  ELSE NextStep(g[m-1], s[m], ps, ap)]
  <2>3. IsNextScan(h, m, s, ps, ap)
    <3>1. ASSUME NEW i \in 0..m
          PROVE  h[i] = IF i = 0 THEN s[1] ELSE NextStep(h[i-1], s[i], ps, ap)
      <4>1. CASE i = m
        BY <4>1, <2>1, <1>3
      <4>2. CASE i < m
        <5>1. i \in 0..(m-1) /\ h[i] = g[i]
          BY <4>2, <2>1
        <5>2. g[i] = IF i = 0 THEN s[1] ELSE NextStep(g[i-1], s[i], ps, ap)
          BY <5>1, <2>2 DEF IsNextScan
        <5>3. i # 0 => h[i-1] = g[i-1]
          BY <4>2, <2>1
        <5> QED BY <5>1, <5>2, <5>3
      <4> QED BY <4>1, <4>2, <2>1
    <3> QED BY <3>1 DEF IsNextScan
  <2> QED BY <2>1, <2>3
<1> QED BY <1>2, <1>3

LEMMA NextScanUnfolds ==
  ASSUME NEW S, NEW s \in Seq(S), NEW ps, NEW ap
  PROVE  IsNextScan(NextScan(s, ps, ap), Len(s), s, ps, ap)
<1>1. Len(s) \in Nat
  OBVIOUS
<1>2. \E f : IsNextScan(f, Len(s), s, ps, ap)
  BY <1>1, NextScanExists
<1>3. IsNextScan(CHOOSE f : IsNextScan(f, Len(s), s, ps, ap), Len(s), s, ps, ap)
  BY <1>2
<1>4. NextScan(s, ps, ap) = CHOOSE f : IsNextScan(f, Len(s), s, ps, ap)
  BY DEF NextScan, IsNextScan
<1> QED BY <1>3, <1>4

-----------------------------------------------------------------------------
\* x is what a correct scan of the first k elements of s returns.
IsFirstMin(x, k, s, ps, ap) ==
  \/ /\ \A j \in 1..k : ps[s[j]] # Ready
     /\ ps[x] # Ready
     /\ \E i \in 1..k : x = s[i]
  \/ \E i \in 1..k :
       /\ x = s[i] /\ ps[x] = Ready
       /\ \A j \in 1..k : ps[s[j]] = Ready =>
            ap[x] <= ap[s[j]] /\ (j < i => ap[x] < ap[s[j]])

\* One turn of the loop of lines 210-216 preserves its invariant.
LEMMA NextStepInvariant ==
  ASSUME NEW s \in Seq(Pids), NEW ps, NEW ap \in [Pids -> Int],
         NEW k \in 2..Len(s), NEW x, IsFirstMin(x, k-1, s, ps, ap)
  PROVE  IsFirstMin(NextStep(x, s[k], ps, ap), k, s, ps, ap)
<1>1. k \in 1..Len(s) /\ k-1 \in 1..Len(s) /\ Len(s) \in Nat
  OBVIOUS
<1>2. \A j \in 1..Len(s) : s[j] \in Pids /\ ap[s[j]] \in Int
  OBVIOUS
<1>3. CASE /\ \A j \in 1..(k-1) : ps[s[j]] # Ready
           /\ ps[x] # Ready
  <2>1. NextStep(x, s[k], ps, ap) = s[k]
    BY <1>3 DEF NextStep
  <2>2. k \in 1..k /\ ap[s[k]] \in Int /\ \A j \in 1..k : j \in 1..(k-1) \/ j = k
    BY <1>1, <1>2
  <2>3. CASE ps[s[k]] # Ready
    BY <1>3, <2>1, <2>2, <2>3 DEF IsFirstMin
  <2>4. CASE ps[s[k]] = Ready
    <3>1. \A j \in 1..k : ps[s[j]] = Ready => j = k
      BY <1>3, <2>2
    <3>2. \A j \in 1..k : ps[s[j]] = Ready =>
            ap[s[k]] <= ap[s[j]] /\ (j < k => ap[s[k]] < ap[s[j]])
      BY <3>1, <2>2, <1>1
    <3> QED BY <2>1, <2>2, <2>4, <3>2 DEF IsFirstMin
  <2> QED BY <2>3, <2>4
<1>4. ASSUME NEW i \in 1..(k-1), x = s[i], ps[x] = Ready,
             \A j \in 1..(k-1) : ps[s[j]] = Ready =>
               ap[x] <= ap[s[j]] /\ (j < i => ap[x] < ap[s[j]])
      PROVE  IsFirstMin(NextStep(x, s[k], ps, ap), k, s, ps, ap)
  <2>0. i \in 1..k /\ ap[x] \in Int /\ ap[s[k]] \in Int
    BY <1>1, <1>2, <1>4
  <2>1. CASE ap[s[k]] < ap[x] /\ ps[s[k]] = Ready
    <3>1. NextStep(x, s[k], ps, ap) = s[k]
      BY <1>4, <2>1 DEF NextStep
    <3>2. \A j \in 1..(k-1) : ps[s[j]] = Ready => ap[s[k]] < ap[s[j]]
      <4> TAKE j \in 1..(k-1)
      <4> HAVE ps[s[j]] = Ready
      <4>1. ap[x] <= ap[s[j]]
        BY <1>4
      <4>2. ap[s[j]] \in Int
        BY <1>1, <1>2
      <4> QED BY <4>1, <4>2, <2>0, <2>1
    <3>3. \A j \in 1..k : j \in 1..(k-1) \/ j = k
      BY <1>1
    <3>4. k \in 1..k /\ ps[s[k]] = Ready
      BY <1>1, <2>1
    <3>5. \A j \in 1..k : ps[s[j]] = Ready =>
            ap[s[k]] <= ap[s[j]] /\ (j < k => ap[s[k]] < ap[s[j]])
      <4> TAKE j \in 1..k
      <4> HAVE ps[s[j]] = Ready
      <4>1. CASE j = k
        BY <4>1, <2>0
      <4>2. CASE j \in 1..(k-1)
        <5>1. ap[s[j]] \in Int /\ ap[s[k]] \in Int
          BY <1>1, <1>2
        <5> QED BY <4>2, <3>2, <2>0, <5>1, SMTT(30)
      <4> QED BY <3>3, <4>1, <4>2
    <3> QED BY <3>1, <3>4, <3>5 DEF IsFirstMin
  <2>2. CASE ~(ap[s[k]] < ap[x] /\ ps[s[k]] = Ready)
    <3>1. NextStep(x, s[k], ps, ap) = x
      BY <1>4, <2>2 DEF NextStep
    <3>2. \A j \in 1..k : ps[s[j]] = Ready =>
            ap[x] <= ap[s[j]] /\ (j < i => ap[x] < ap[s[j]])
      <4> TAKE j \in 1..k
      <4> HAVE ps[s[j]] = Ready
      <4>1. CASE j = k
        BY <4>1, <2>0, <2>2
      <4>2. CASE j \in 1..(k-1)
        BY <4>2, <1>4
      <4> QED BY <4>1, <4>2, <1>1
    <3> QED BY <3>1, <3>2, <2>0, <1>4 DEF IsFirstMin
  <2> QED BY <2>1, <2>2
<1> QED BY <1>3, <1>4 DEF IsFirstMin

\* The first loop of switchProcess is a correct selection, for every list.
THEOREM NextProcessCorrect ==
  ASSUME NEW s \in Seq(Pids), s # <<>>, NEW ps, NEW ap \in [Pids -> Int]
  PROVE  IsFirstMin(NextProcess(s, ps, ap), Len(s), s, ps, ap)
<1> DEFINE scan == NextScan(s, ps, ap)
           Bad == {k \in Nat : k \in 1..Len(s) /\ ~IsFirstMin(scan[k], k, s, ps, ap)}
<1>0. Len(s) \in Nat /\ Len(s) >= 1 /\ s[1] \in Pids /\ ap[s[1]] \in Int
  OBVIOUS
<1>1. \A i \in 0..Len(s) :
         scan[i] = IF i = 0 THEN s[1] ELSE NextStep(scan[i-1], s[i], ps, ap)
  BY NextScanUnfolds DEF IsNextScan
<1> HIDE DEF scan
<1>2. Bad = {}
  <2> SUFFICES ASSUME Bad # {} PROVE FALSE
    OBVIOUS
  <2>1. PICK m \in Bad : \A k \in Bad : m <= k
    BY LeastNatural
  <2>2. CASE m = 1
    <3>1. scan[0] = s[1] /\ scan[1] = NextStep(scan[0], s[1], ps, ap)
      BY <1>0, <1>1
    <3>2. scan[1] = s[1]
      BY <3>1, <1>0 DEF NextStep
    <3>3. IsFirstMin(scan[1], 1, s, ps, ap)
      BY <3>2, <1>0 DEF IsFirstMin
    <3> QED BY <2>2, <3>3
  <2>3. CASE m # 1
    <3>1. m \in 2..Len(s) /\ m-1 \in Nat /\ m-1 \in 1..Len(s) /\ m-1 \notin Bad
      BY <2>1, <2>3, <1>0
    <3>2. IsFirstMin(scan[m-1], m-1, s, ps, ap)
      BY <3>1
    <3>3. scan[m] = NextStep(scan[m-1], s[m], ps, ap)
      BY <3>1, <1>1
    <3> QED BY <3>1, <3>2, <3>3, NextStepInvariant
  <2> QED BY <2>2, <2>3
<1>3. IsFirstMin(scan[Len(s)], Len(s), s, ps, ap)
  BY <1>0, <1>2
<1> QED BY <1>3 DEF NextProcess, scan

-----------------------------------------------------------------------------
(* The list operations                                                     *)

Distinct(l) == \A i, j \in 1..Len(l) : l[i] = l[j] => i = j

LEMMA ToSetFacts ==
  ASSUME NEW S, NEW l \in Seq(S)
  PROVE  /\ ToSet(l) \subseteq S
         /\ \A x : x \in ToSet(l) <=> \E i \in 1..Len(l) : x = l[i]
         /\ \A i \in 1..Len(l) : l[i] \in ToSet(l)
<1>1. DOMAIN l = 1..Len(l) /\ \A i \in 1..Len(l) : l[i] \in S
  OBVIOUS
<1> QED BY <1>1 DEF ToSet

LEMMA PositionFacts ==
  ASSUME NEW S, NEW l \in Seq(S), NEW p
  PROVE  /\ p \in ToSet(l) => Position(l, p) \in 1..Len(l) /\ l[Position(l, p)] = p
         /\ p \notin ToSet(l) => Position(l, p) = Len(l) + 1
         /\ Position(l, p) \in 1..(Len(l) + 1)
<1>0. Len(l) \in Nat
  OBVIOUS
<1>1. CASE p \in ToSet(l)
  <2>1. \E i \in 1..Len(l) : l[i] = p
    BY <1>1, ToSetFacts
  <2>2. Position(l, p) = CHOOSE i \in 1..Len(l) : l[i] = p
    BY <1>1 DEF Position
  <2>3. Position(l, p) \in 1..Len(l) /\ l[Position(l, p)] = p
    BY <2>1, <2>2
  <2> QED BY <1>0, <1>1, <2>3
<1>2. CASE p \notin ToSet(l)
  BY <1>0, <1>2 DEF Position
<1> QED BY <1>1, <1>2

\* The nodes behind p are nodes of the list, and the head is not among them.
LEMMA AfterFacts ==
  ASSUME NEW S, NEW l \in Seq(S), Distinct(l), NEW p
  PROVE  /\ After(l, p) \in Seq(S)
         /\ ToSet(After(l, p)) \subseteq ToSet(l) \ {p}
         /\ \A x \in ToSet(After(l, p)) : x # l[1]
<1> DEFINE k == Position(l, p)
           b == After(l, p)
<1>0. Len(l) \in Nat /\ k \in 1..(Len(l) + 1) /\ (p \in ToSet(l) => l[k] = p /\ k \in 1..Len(l))
  BY PositionFacts
<1>1. \A i \in (k+1)..Len(l) : l[i] \in S
  BY <1>0
<1>2. /\ b \in Seq(S)
      /\ Len(b) = IF k+1 <= Len(l) THEN Len(l) - (k+1) + 1 ELSE 0
      /\ \A i \in 1..(Len(l) - (k+1) + 1) : b[i] = l[(k+1)+i-1]
  BY <1>0, <1>1, SubSeqProperties DEF After
<1> HIDE DEF b, k
<1>3. ASSUME NEW x \in ToSet(b)
      PROVE  x \in ToSet(l) /\ x # p /\ x # l[1]
  <2>1. PICK i \in 1..Len(b) : x = b[i]
    BY <1>2, ToSetFacts
  <2>2. k+i \in 1..Len(l) /\ k+i # 1 /\ k+i # k /\ i \in 1..(Len(l) - (k+1) + 1)
    BY <1>0, <1>2, <2>1
  <2>3. (k+1)+i-1 = k+i
    BY <1>0, <2>1, <1>2
  <2>4. x = l[k+i]
    BY <1>2, <2>1, <2>2, <2>3
  <2>5. x \in ToSet(l)
    BY <2>2, <2>4, ToSetFacts
  <2>6. x # l[1]
    <3>1. 1 \in 1..Len(l)
      BY <1>0, <2>2
    <3> QED BY <2>2, <2>4, <3>1 DEF Distinct
  <2>7. x # p
    BY <1>0, <2>2, <2>4, ToSetFacts, <2>5 DEF Distinct
  <2> QED BY <2>5, <2>6, <2>7
<1> QED BY <1>2, <1>3 DEF b

LEMMA UnlinkFacts ==
  ASSUME NEW S, NEW l \in Seq(S), Distinct(l), NEW p \in ToSet(l)
  PROVE  /\ Unlink(l, p) \in Seq(S)
         /\ Distinct(Unlink(l, p))
         /\ ToSet(Unlink(l, p)) = ToSet(l) \ {p}
         /\ Len(Unlink(l, p)) = Len(l) - 1
         /\ p # l[1] => Unlink(l, p) # <<>> /\ Unlink(l, p)[1] = l[1]
         /\ \A i \in 1..Len(Unlink(l, p)) :
              Unlink(l, p)[i] = IF i < Position(l, p) THEN l[i] ELSE l[i+1]
<1> DEFINE k == Position(l, p)
           u == Unlink(l, p)
<1>0. Len(l) \in Nat /\ k \in 1..Len(l) /\ l[k] = p
  BY PositionFacts
<1>1. /\ u \in Seq(S) /\ Len(u) = Len(l) - 1
      /\ \A i \in 1..(Len(l) - 1) : u[i] = IF i < k THEN l[i] ELSE l[i+1]
  BY <1>0, RemoveAtProperties DEF Unlink
<1> HIDE DEF k, u
<1>2. Distinct(u)
  BY <1>0, <1>1 DEF Distinct
<1>3. ASSUME NEW x \in ToSet(u) PROVE x \in ToSet(l) /\ x # p
  <2>1. PICK i \in 1..Len(u) : x = u[i]
    BY <1>1, ToSetFacts
  <2>2. PICK j \in 1..Len(l) : x = l[j] /\ j # k
    BY <1>0, <1>1, <2>1
  <2> QED BY <1>0, <2>2, ToSetFacts DEF Distinct
<1>4. ASSUME NEW x \in ToSet(l), x # p PROVE x \in ToSet(u)
  <2>1. PICK j \in 1..Len(l) : x = l[j]
    BY ToSetFacts
  <2>2. CASE j < k
    <3>1. j \in 1..Len(u) /\ u[j] = x
      BY <1>0, <1>1, <2>1, <2>2
    <3> QED BY <3>1, <1>1, ToSetFacts
  <2>3. CASE j > k
    <3>1. j-1 \in 1..Len(u) /\ u[j-1] = l[(j-1)+1] /\ (j-1)+1 = j
      BY <1>0, <1>1, <2>1, <2>3
    <3>2. u[j-1] = x
      BY <3>1, <2>1
    <3> QED BY <3>1, <3>2, <1>1, ToSetFacts
  <2> QED BY <1>0, <1>4, <2>1, <2>2, <2>3
<1>5. p # l[1] => u # <<>> /\ u[1] = l[1]
  BY <1>0, <1>1
<1> QED BY <1>1, <1>2, <1>3, <1>4, <1>5 DEF k, u

LEMMA InsertPositionFacts ==
  ASSUME NEW l \in Seq(Pids), l # <<>>, priority \in [Pids -> 0..10],
         NEW pr \in 0..10
  PROVE  /\ InsertPosition(l, pr) \in 1..Len(l)
         /\ InsertPosition(l, pr) < Len(l) =>
              pr < priority[l[InsertPosition(l, pr) + 1]]
         /\ \A j \in 1..(InsertPosition(l, pr) - 1) : pr >= priority[l[j+1]]
<1> DEFINE Stop == {k \in Nat : k \in 1..Len(l) /\ (k < Len(l) => pr < priority[l[k+1]])}
<1>0. Len(l) \in Nat /\ Len(l) \in 1..Len(l)
  OBVIOUS
<1>1. Len(l) \in Stop
  BY <1>0
<1>2. PICK k \in Stop : \A j \in Stop : k <= j
  BY <1>1, LeastNatural
<1>3. ASSUME NEW j \in 1..(k-1) PROVE pr >= priority[l[j+1]]
  <2>1. j \in Nat /\ j \in 1..Len(l) /\ j < k /\ j < Len(l)
    BY <1>0, <1>2
  <2>2. j \notin Stop
    BY <1>2, <2>1
  <2>3. l[j+1] \in Pids
    BY <2>1, <1>0
  <2>4. priority[l[j+1]] \in Int
    BY <2>3
  <2> QED BY <2>1, <2>2, <2>4
<1>4. \E x \in 1..Len(l) :
         /\ x < Len(l) => pr < priority[l[x+1]]
         /\ \A j \in 1..(x-1) : pr >= priority[l[j+1]]
  BY <1>2, <1>3
<1> QED BY <1>4 DEF InsertPosition

\* t is l with the node p of priority pr linked behind the k-th node, and that
\* is where its priority puts it.
IsLinked(t, l, p, pr, k) ==
  /\ k < Len(l) => pr < priority[l[k+1]]
  /\ \A j \in 1..(k-1) : pr >= priority[l[j+1]]
  /\ t \in Seq(Pids)
  /\ Len(t) = Len(l) + 1
  /\ \A i \in 1..(Len(l) + 1) :
       \/ i = k+1 /\ t[i] = p
       \/ i < k+1 /\ t[i] = l[i] /\ i \in 1..Len(l)
       \/ i > k+1 /\ t[i] = l[i-1] /\ i-1 \in 1..Len(l)

LEMMA LinkShape ==
  ASSUME NEW l \in Seq(Pids), l # <<>>, priority \in [Pids -> 0..10],
         NEW pr \in 0..10, NEW p \in Pids
  PROVE  \E k \in 1..Len(l) : IsLinked(Link(l, p, pr), l, p, pr, k)
<1> DEFINE k == InsertPosition(l, pr)
<1>0. /\ k < Len(l) => pr < priority[l[k+1]]
      /\ \A j \in 1..(k-1) : pr >= priority[l[j+1]]
  BY InsertPositionFacts, Zenon
<1>1. k \in 1..Len(l)
  BY InsertPositionFacts, Zenon
<1>2. PICK n \in 1..(Len(l) + 1) : n = k + 1
  BY <1>1
<1>3. Link(l, p, pr) = InsertAt(l, n, p)
  BY <1>2 DEF Link
<1>4. /\ InsertAt(l, n, p) \in Seq(Pids)
      /\ Len(InsertAt(l, n, p)) = Len(l) + 1
      /\ \A i \in 1..(Len(l) + 1) :
           InsertAt(l, n, p)[i] = IF i < n THEN l[i] ELSE IF i = n THEN p ELSE l[i-1]
  BY InsertAtProperties
<1> HIDE DEF Pids
<1>5. \A i \in 1..(Len(l) + 1) :
        \/ i = n /\ InsertAt(l, n, p)[i] = p
        \/ i < n /\ InsertAt(l, n, p)[i] = l[i] /\ i \in 1..Len(l)
        \/ i > n /\ InsertAt(l, n, p)[i] = l[i-1] /\ i-1 \in 1..Len(l)
  BY <1>1, <1>2, <1>4
<1>6. /\ Link(l, p, pr) \in Seq(Pids)
      /\ Len(Link(l, p, pr)) = Len(l) + 1
      /\ \A i \in 1..(Len(l) + 1) :
           \/ i = k+1 /\ Link(l, p, pr)[i] = p
           \/ i < k+1 /\ Link(l, p, pr)[i] = l[i] /\ i \in 1..Len(l)
           \/ i > k+1 /\ Link(l, p, pr)[i] = l[i-1] /\ i-1 \in 1..Len(l)
  BY <1>2, <1>3, <1>4, <1>5
<1>7. IsLinked(Link(l, p, pr), l, p, pr, k)
  BY <1>0, <1>6 DEF IsLinked
<1> HIDE DEF k
<1> QED BY <1>1, <1>7

LEMMA LinkFacts ==
  ASSUME NEW l \in Seq(Pids), Distinct(l), priority \in [Pids -> 0..10],
         NEW pr \in 0..10, NEW p \in Pids, p \notin ToSet(l)
  PROVE  /\ Link(l, p, pr) \in Seq(Pids)
         /\ Distinct(Link(l, p, pr))
         /\ ToSet(Link(l, p, pr)) = ToSet(l) \union {p}
         /\ l # <<>> => Link(l, p, pr)[1] = l[1]
<1>1. CASE l = <<>>
  <2>1. Link(l, p, pr) = <<p>>
    BY <1>1 DEF Link
  <2>2. /\ <<p>> \in Seq(Pids) /\ Len(<<p>>) = 1 /\ <<p>>[1] = p
    OBVIOUS
  <2>3. Distinct(<<p>>)
    BY <2>2 DEF Distinct
  <2>4. ToSet(<<p>>) = {p} /\ ToSet(l) = {}
    BY <1>1 DEF ToSet
  <2> QED BY <1>1, <2>1, <2>2, <2>3, <2>4
<1>2. CASE l # <<>>
  <2> DEFINE t == Link(l, p, pr)
  <2>0. PICK k \in 1..Len(l) : IsLinked(t, l, p, pr, k)
    BY <1>2, LinkShape
  <2> HIDE DEF t
  <2>1. /\ Len(l) \in Nat /\ k \in 1..Len(l)
        /\ t \in Seq(Pids) /\ Len(t) = Len(l) + 1
        /\ \A i \in 1..Len(t) :
             \/ i = k+1 /\ t[i] = p
             \/ i < k+1 /\ t[i] = l[i] /\ i \in 1..Len(l)
             \/ i > k+1 /\ t[i] = l[i-1] /\ i-1 \in 1..Len(l)
    BY <2>0 DEF IsLinked
  <2>2. \A i \in 1..Len(l) : l[i] # p /\ l[i] \in ToSet(l)
    BY ToSetFacts
  <2>3. Distinct(t)
    <3>1. SUFFICES ASSUME NEW i \in 1..Len(t), NEW j \in 1..Len(t), t[i] = t[j]
                   PROVE  i = j
      BY DEF Distinct
    <3>2. CASE i = k+1
      <4>1. j # k+1 => t[j] # p
        BY <2>1, <2>2
      <4>2. t[i] = p
        BY <2>1, <3>2
      <4> QED BY <3>1, <3>2, <4>1, <4>2
    <3>3. CASE j = k+1
      <4>1. i # k+1 => t[i] # p
        BY <2>1, <2>2
      <4> QED BY <3>1, <3>3, <2>1, <4>1
    <3>4. CASE i # k+1 /\ j # k+1
      <4>1. PICK a \in 1..Len(l) : t[i] = l[a] /\ ((a = i /\ i < k+1) \/ (a = i-1 /\ i > k+1))
        BY <2>1, <3>4
      <4>2. PICK b \in 1..Len(l) : t[j] = l[b] /\ ((b = j /\ j < k+1) \/ (b = j-1 /\ j > k+1))
        BY <2>1, <3>4
      <4>3. a = b
        BY <3>1, <4>1, <4>2 DEF Distinct
      <4> QED BY <2>1, <4>1, <4>2, <4>3
    <3> QED BY <3>2, <3>3, <3>4
  <2>4. ASSUME NEW x \in ToSet(t) PROVE x \in ToSet(l) \union {p}
    <3>1. PICK i \in 1..Len(t) : x = t[i]
      BY <2>1, ToSetFacts
    <3>2. x = p \/ \E j \in 1..Len(l) : x = l[j]
      BY <2>1, <3>1
    <3> QED BY <3>2, <2>2
  <2>5. p \in ToSet(t)
    <3>1. k+1 \in 1..Len(t) /\ t[k+1] = p
      BY <2>1
    <3> QED BY <3>1, <2>1, ToSetFacts
  <2>6. ASSUME NEW x \in ToSet(l) PROVE x \in ToSet(t)
    <3>1. PICK j \in 1..Len(l) : x = l[j]
      BY ToSetFacts
    <3>2. CASE j <= k
      <4>1. j \in 1..Len(t) /\ t[j] = x
        BY <2>1, <3>1, <3>2
      <4> QED BY <4>1, <2>1, ToSetFacts
    <3>3. CASE ~(j <= k)
      <4>1. j+1 \in 1..Len(t) /\ t[j+1] = l[(j+1)-1] /\ (j+1)-1 = j
        BY <2>1, <3>1, <3>3
      <4>2. t[j+1] = x
        BY <4>1, <3>1
      <4> QED BY <4>1, <4>2, <2>1, ToSetFacts
    <3> QED BY <3>2, <3>3
  <2>7. t[1] = l[1]
    BY <2>1
  <2> QED BY <2>1, <2>3, <2>4, <2>5, <2>6, <2>7 DEF t
<1> QED BY <1>1, <1>2

Sorted(l, pri) == \A i, j \in 1..Len(l) : i < j => pri[l[i]] <= pri[l[j]]

\* Linking keeps a sorted list sorted when its head has priority 1: the head is
\* never compared, and cannot have to be.
LEMMA LinkSorted ==
  ASSUME NEW l \in Seq(Pids), l # <<>>, priority \in [Pids -> 0..10],
         NEW pr \in 1..10, NEW p \in Pids, p \notin ToSet(l),
         Sorted(l, priority), priority[l[1]] = 1
  PROVE  Sorted(Link(l, p, pr), [priority EXCEPT ![p] = pr])
<1> DEFINE t == Link(l, p, pr)
           q == [priority EXCEPT ![p] = pr]
<1>a. PICK k \in 1..Len(l) : IsLinked(t, l, p, pr, k)
  <2>1. pr \in 0..10
    OBVIOUS
  <2> QED BY <2>1, LinkShape
<1>0. /\ Len(l) \in Nat /\ k \in 1..Len(l)
      /\ k < Len(l) => pr < priority[l[k+1]]
      /\ \A j \in 1..(k-1) : pr >= priority[l[j+1]]
  BY <1>a DEF IsLinked
<1>1. /\ t \in Seq(Pids) /\ Len(t) = Len(l) + 1
      /\ \A i \in 1..Len(t) :
           \/ i = k+1 /\ t[i] = p
           \/ i < k+1 /\ t[i] = l[i] /\ i \in 1..Len(l)
           \/ i > k+1 /\ t[i] = l[i-1] /\ i-1 \in 1..Len(l)
  BY <1>a DEF IsLinked
<1>2. /\ q[p] = pr
      /\ \A i \in 1..Len(l) : /\ l[i] \in Pids
                              /\ q[l[i]] = priority[l[i]]
                              /\ priority[l[i]] \in Int
  BY ToSetFacts
<1> HIDE DEF t, q
<1>3. \A i \in 1..k : priority[l[i]] <= pr
  <2> TAKE i \in 1..k
  <2>1. CASE i = 1
    BY <2>1
  <2>2. CASE i # 1
    <3>1. i-1 \in 1..(k-1) /\ (i-1)+1 = i
      BY <2>2, <1>0
    <3>2. pr >= priority[l[(i-1)+1]]
      BY <3>1, <1>0
    <3>3. i \in 1..Len(l)
      BY <1>0
    <3> QED BY <3>1, <3>2, <3>3, <1>2
  <2> QED BY <2>1, <2>2
<1>4. \A i \in (k+1)..Len(l) : pr < priority[l[i]]
  <2> TAKE i \in (k+1)..Len(l)
  <2>1. k+1 \in 1..Len(l) /\ i \in 1..Len(l) /\ k < Len(l)
    BY <1>0
  <2>2. priority[l[k+1]] <= priority[l[i]]
    <3>1. CASE i = k+1
      BY <3>1, <2>1, <1>2
    <3>2. CASE i # k+1
      BY <3>2, <2>1, <1>0 DEF Sorted
    <3> QED BY <3>1, <3>2
  <2>3. pr < priority[l[k+1]]
    BY <2>1, <1>0
  <2> QED BY <2>1, <2>2, <2>3, <1>2
<1>5. ASSUME NEW i \in 1..Len(t), NEW j \in 1..Len(t), i < j
      PROVE  q[t[i]] <= q[t[j]]
  <2>1. CASE i < k+1 /\ j < k+1
    <3>1. t[i] = l[i] /\ t[j] = l[j] /\ i \in 1..Len(l) /\ j \in 1..Len(l)
      BY <2>1, <1>0, <1>1
    <3> QED BY <3>1, <1>2, <1>5 DEF Sorted
  <2>2. CASE i < k+1 /\ j = k+1
    <3>1. t[i] = l[i] /\ t[j] = p /\ i \in 1..Len(l) /\ i \in 1..k
      BY <2>2, <1>0, <1>1
    <3> QED BY <3>1, <1>2, <1>3
  <2>3. CASE i < k+1 /\ j > k+1
    <3>1. t[i] = l[i] /\ t[j] = l[j-1] /\ i \in 1..Len(l) /\ j-1 \in 1..Len(l) /\ i < j-1
      BY <2>3, <1>0, <1>1
    <3> QED BY <3>1, <1>2 DEF Sorted
  <2>4. CASE i = k+1 /\ j > k+1
    <3>1. t[i] = p /\ t[j] = l[j-1] /\ j-1 \in (k+1)..Len(l) /\ j-1 \in 1..Len(l)
      BY <2>4, <1>0, <1>1
    <3>2. pr < priority[l[j-1]]
      BY <3>1, <1>4
    <3> QED BY <3>1, <3>2, <1>2
  <2>5. CASE i > k+1 /\ j > k+1
    <3>1. t[i] = l[i-1] /\ t[j] = l[j-1] /\ i-1 \in 1..Len(l) /\ j-1 \in 1..Len(l) /\ i-1 < j-1
      BY <2>5, <1>5, <1>0, <1>1
    <3> QED BY <3>1, <1>2 DEF Sorted
  <2> QED BY <1>0, <1>1, <1>5, <2>1, <2>2, <2>3, <2>4, <2>5
<1>6. Sorted(t, q)
  BY <1>5 DEF Sorted
<1> QED BY <1>6 DEF t, q

LEMMA UnlinkSorted ==
  ASSUME NEW l \in Seq(Pids), Distinct(l), NEW p \in ToSet(l), NEW pri,
         Sorted(l, pri)
  PROVE  Sorted(Unlink(l, p), pri)
<1> DEFINE k == Position(l, p)
           u == Unlink(l, p)
<1>1. /\ Len(l) \in Nat /\ Len(u) = Len(l) - 1 /\ k \in 1..Len(l)
      /\ \A i \in 1..Len(u) : u[i] = IF i < k THEN l[i] ELSE l[i+1]
  BY UnlinkFacts, PositionFacts
<1> HIDE DEF k, u
<1>2. ASSUME NEW i \in 1..Len(u), NEW j \in 1..Len(u), i < j
      PROVE  pri[u[i]] <= pri[u[j]]
  <2> DEFINE a == IF i < k THEN i ELSE i+1
             b == IF j < k THEN j ELSE j+1
  <2>1. a \in 1..Len(l) /\ u[i] = l[a]
    BY <1>1
  <2>2. b \in 1..Len(l) /\ u[j] = l[b]
    BY <1>1
  <2>3. a < b
    BY <1>1, <1>2
  <2> HIDE DEF a, b
  <2> QED BY <2>1, <2>2, <2>3 DEF Sorted
<1> QED BY <1>2 DEF Sorted, u

-----------------------------------------------------------------------------
(* The second scan and the choice                                          *)

IsFirstMinScan(f, n, l, ps, ap, fg) ==
  f = [i \in 0..n |-> IF i = 0 THEN l[1] ELSE FirstMinStep(f[i-1], i, l, ps, ap, fg)]

LEMMA FirstMinScanExists ==
  ASSUME NEW l, NEW ps, NEW ap, NEW fg, NEW n \in Nat
  PROVE  \E f : IsFirstMinScan(f, n, l, ps, ap, fg)
<1> DEFINE Bad == {k \in Nat : ~ \E f : IsFirstMinScan(f, k, l, ps, ap, fg)}
<1> SUFFICES ASSUME Bad # {} PROVE FALSE
  OBVIOUS
<1>1. PICK m \in Bad : \A k \in Bad : m <= k
  BY LeastNatural
<1>2. CASE m = 0
  <2>1. IsFirstMinScan([i \in 0..0 |-> l[1]], 0, l, ps, ap, fg)
    BY DEF IsFirstMinScan
  <2> QED BY <1>2, <2>1
<1>3. CASE m # 0
  <2>1. m \in Nat /\ m - 1 \in Nat /\ m - 1 \notin Bad
    BY <1>1, <1>3
  <2>2. PICK g : IsFirstMinScan(g, m-1, l, ps, ap, fg)
    BY <2>1
  <2> DEFINE h == [i \in 0..m |-> IF i < m THEN g[i]
                                  ELSE FirstMinStep(g[m-1], m, l, ps, ap, fg)]
  <2>3. IsFirstMinScan(h, m, l, ps, ap, fg)
    <3>1. ASSUME NEW i \in 0..m
          PROVE  h[i] = IF i = 0 THEN l[1] ELSE FirstMinStep(h[i-1], i, l, ps, ap, fg)
      <4>1. CASE i = m
        BY <4>1, <2>1, <1>3
      <4>2. CASE i < m
        <5>1. i \in 0..(m-1) /\ h[i] = g[i]
          BY <4>2, <2>1
        <5>2. g[i] = IF i = 0 THEN l[1] ELSE FirstMinStep(g[i-1], i, l, ps, ap, fg)
          BY <5>1, <2>2 DEF IsFirstMinScan
        <5>3. i # 0 => h[i-1] = g[i-1]
          BY <4>2, <2>1
        <5> QED BY <5>1, <5>2, <5>3
      <4> QED BY <4>1, <4>2, <2>1
    <3> QED BY <3>1 DEF IsFirstMinScan
  <2> QED BY <2>1, <2>3
<1> QED BY <1>2, <1>3

LEMMA FirstMinScanUnfolds ==
  ASSUME NEW l, NEW p, NEW ps, NEW ap, NEW fg, Position(l, p) - 1 \in Nat
  PROVE  IsFirstMinScan(FirstMinScan(l, p, ps, ap, fg), Position(l, p) - 1,
                        l, ps, ap, fg)
<1> DEFINE n == Position(l, p) - 1
<1>2. \E f : IsFirstMinScan(f, n, l, ps, ap, fg)
  BY FirstMinScanExists
<1>3. IsFirstMinScan(CHOOSE f : IsFirstMinScan(f, n, l, ps, ap, fg), n, l, ps, ap, fg)
  BY <1>2
<1>4. FirstMinScan(l, p, ps, ap, fg) = CHOOSE f : IsFirstMinScan(f, n, l, ps, ap, fg)
  BY DEF FirstMinScan, IsFirstMinScan
<1> QED BY <1>3, <1>4

\* The second loop of switchProcess never leaves the list: it returns a node of
\* it, or NULL when it has stepped over a shell that is alone.
LEMMA FirstMinInList ==
  ASSUME NEW l \in Seq(Pids), NEW p, NEW ps, NEW ap, NEW fg
  PROVE  LET m == FirstMinReadyProcess(l, p, ps, ap, fg)
         IN  m = NULL \/ m \in ToSet(l)
<1>1. CASE l = <<>>
  BY <1>1 DEF FirstMinReadyProcess
<1>2. CASE l # <<>>
  <2> DEFINE scan == FirstMinScan(l, p, ps, ap, fg)
             n == Position(l, p) - 1
             Ok(k) == scan[k] \in ToSet(l) \/ (k = Len(l) /\ scan[k] = NULL)
             Bad == {k \in Nat : k \in 0..n /\ ~Ok(k)}
  <2>0. Len(l) \in Nat /\ Len(l) >= 1 /\ n \in 0..Len(l)
    BY <1>2, PositionFacts
  <2>1. \A i \in 0..n :
          scan[i] = IF i = 0 THEN l[1] ELSE FirstMinStep(scan[i-1], i, l, ps, ap, fg)
    BY <2>0, FirstMinScanUnfolds DEF IsFirstMinScan
  <2>2. \A i \in 1..Len(l) : l[i] \in ToSet(l)
    BY ToSetFacts
  <2> HIDE DEF scan, n
  <2>3. Bad = {}
    <3> SUFFICES ASSUME Bad # {} PROVE FALSE
      OBVIOUS
    <3>1. PICK m \in Bad : \A k \in Bad : m <= k
      BY LeastNatural
    <3>2. CASE m = 0
      BY <3>1, <3>2, <2>0, <2>1, <2>2
    <3>3. CASE m # 0
      <4>1. m \in 1..n /\ m-1 \in Nat /\ m-1 \in 0..n /\ m-1 \notin Bad
        BY <3>1, <3>3, <2>0
      <4>2. scan[m-1] \in ToSet(l)
        BY <4>1, <2>0
      <4>3. scan[m] = FirstMinStep(scan[m-1], m, l, ps, ap, fg)
        BY <4>1, <2>1
      <4>4. m \in 1..Len(l) /\ (m < Len(l) => m+1 \in 1..Len(l))
        BY <4>1, <2>0
      <4>5. Ok(m)
        BY <4>2, <4>3, <4>4, <2>2 DEF FirstMinStep
      <4> QED BY <3>1, <4>5
    <3> QED BY <3>2, <3>3
  <2>4. n \in 0..n /\ n \in Nat
    BY <2>0
  <2>5. Ok(n)
    BY <2>3, <2>4
  <2>6. FirstMinReadyProcess(l, p, ps, ap, fg) = scan[n]
    BY <1>2 DEF FirstMinReadyProcess, scan, n
  <2> QED BY <2>5, <2>6
<1> QED BY <1>1, <1>2

\* Whatever the two scans return, the choice is the idle process or a ready one
\* among them and the current process, and it is the shell only when the first
\* scan proposes it or no foreground process exists.
LEMMA ChooseFacts ==
  ASSUME NEW next, NEW first, NEW p, NEW ps, NEW ap, NEW fg
  PROVE  LET c == Choose(next, first, p, ps, ap, fg)
         IN  \/ c = Dummy
             \/ /\ ps[c] = Ready
                /\ \/ c = next /\ next # NULL
                   \/ /\ c # NULL
                      /\ c = first \/ (c = p /\ p # Dummy)
                      /\ ~(fg /\ c = Shell)
<1> DEFINE kept == Kept(first, p, ps)
           min == ShellDropped(kept, fg)
<1>1. kept = first \/ (kept = p /\ p # Dummy)
  BY DEF Kept
<1>2. min # NULL => min = kept /\ ~(fg /\ min = Shell)
  BY DEF ShellDropped
<1> QED BY <1>1, <1>2 DEF Choose

\* The candidates of a switch on the list l with tail rest.
LEMMA ChosenFacts ==
  ASSUME NEW l \in Seq(Pids), NEW rest \in Seq(Pids), NEW ps,
         NEW ap \in [Pids -> 0..10], NEW fg \in BOOLEAN,
         NEW p, p \in Pids => ps[p] # Ready \/ p \in ToSet(l),
         p \in Pids \union {Dummy},
         ToSet(rest) \subseteq ToSet(l), Shell \notin ToSet(rest)
  PROVE  LET c == Choose(NextProcess(rest, ps, ap),
                         FirstMinReadyProcess(l, p, ps, ap, fg), p, ps, ap, fg)
         IN  c = Dummy \/ (c \in ToSet(l) /\ ps[c] = Ready /\ ~(fg /\ c = Shell))
<1> DEFINE next == NextProcess(rest, ps, ap)
           first == FirstMinReadyProcess(l, p, ps, ap, fg)
           c == Choose(next, first, p, ps, ap, fg)
<1>1. next = NULL \/ next \in ToSet(rest)
  <2>1. CASE rest = <<>>
    BY <2>1 DEF NextProcess
  <2>2. CASE rest # <<>>
    <3>1. ap \in [Pids -> Int]
      OBVIOUS
    <3>2. IsFirstMin(next, Len(rest), rest, ps, ap)
      BY <2>2, <3>1, NextProcessCorrect
    <3>3. \E i \in 1..Len(rest) : next = rest[i]
      BY <3>2 DEF IsFirstMin
    <3> QED BY <3>3, ToSetFacts
  <2> QED BY <2>1, <2>2
<1>2. first = NULL \/ first \in ToSet(l)
  BY FirstMinInList
<1> HIDE DEF next, first
<1>3. \/ c = Dummy
      \/ /\ ps[c] = Ready
         /\ \/ c = next /\ next # NULL
            \/ /\ c # NULL
               /\ c = first \/ (c = p /\ p # Dummy)
               /\ ~(fg /\ c = Shell)
  BY ChooseFacts
<1> HIDE DEF c
<1>4. c = Dummy \/ (c \in ToSet(l) /\ ps[c] = Ready /\ ~(fg /\ c = Shell))
  BY <1>1, <1>2, <1>3
<1> QED BY <1>4 DEF c, next, first

-----------------------------------------------------------------------------
(* The inductive invariant                                                 *)

\* Before the first switch only the shell exists and nothing is current.
Started ==
  /\ firstProcess => current = NULL /\ list = <<Shell>> /\ pstate[Shell] = Ready
  /\ ~firstProcess => current # NULL

\* Every pcb of the list has a priority, and the shell has the highest.
PrioritiesSet ==
  /\ \A p \in Pids : Listed(p) => priority[p] \in 1..10
  /\ Listed(Shell) => priority[Shell] = Foreground

\* A process in its exit has a node, and is marked from the marking on.
ExitsRight ==
  \A p \in Pids : /\ exitAt[p] # "no" => Listed(p)
                  /\ exitAt[p] \in {"marked", "freed"} => pstate[p] = Exited

Inv ==
  /\ TypeOK
  /\ ListIsAlive
  /\ CurrentIsLive
  /\ ShellIsHead
  /\ ForegroundFlag
  /\ SortedBehindShell
  /\ AgeingBounded
  /\ Started
  /\ PrioritiesSet
  /\ ExitsRight

\* What every call of switchProcess establishes.
LEMMA SwitchFacts ==
  ASSUME NEW l \in Seq(Pids), NEW rest \in Seq(Pids), NEW ps,
         NEW ap \in [Pids -> 0..10], NEW fg \in BOOLEAN,
         priority \in [Pids -> 0..10], priorityQuantum \in 0..PRIORITY_QUANTUM,
         \A p \in ToSet(l) : ap[p] \in 1..priority[p],
         current \in Pids => ps[current] # Ready \/ current \in ToSet(l),
         current \in Pids \union {Dummy},
         ToSet(rest) \subseteq ToSet(l), Shell \notin ToSet(rest),
         SwitchProcess(l, rest, ps, ap, fg)
  PROVE  /\ ~firstProcess /\ ~firstProcess'
         /\ \/ current' = Dummy
            \/ current' \in ToSet(l) /\ ps[current'] = Ready /\ ~(fg /\ current' = Shell)
         /\ auxPriority' \in [Pids -> 0..10]
         /\ \A p \in ToSet(l) : auxPriority'[p] \in 1..priority[p]
         /\ priorityQuantum' \in 0..PRIORITY_QUANTUM
         /\ priorityQuantum' # priorityQuantum
<1> DEFINE aged == IF priorityQuantum = 0 THEN Aged(l, ps, ap) ELSE ap
           c == Choose(NextProcess(rest, ps, aged),
                       FirstMinReadyProcess(l, current, ps, aged, fg),
                       current, ps, aged, fg)
<1>0. ToSet(l) \subseteq Pids
  BY ToSetFacts
<1>1. aged \in [Pids -> 0..10] /\ \A p \in ToSet(l) : aged[p] \in 1..priority[p]
  <2>1. CASE priorityQuantum = 0
    <3>1. aged = Aged(l, ps, ap)
      BY <2>1
    <3>2. Aged(l, ps, ap) \in [Pids -> 0..10]
      BY DEF Aged
    <3>3. \A p \in ToSet(l) : Aged(l, ps, ap)[p] \in 1..priority[p]
      <4> TAKE p \in ToSet(l)
      <4>1. p \in Pids /\ ap[p] \in 1..priority[p] /\ priority[p] \in 0..10
        BY <1>0
      <4>2. Aged(l, ps, ap)[p] = ap[p] \/ (ap[p] > 1 /\ Aged(l, ps, ap)[p] = ap[p] - 1)
        BY <4>1 DEF Aged
      <4> QED BY <4>1, <4>2
    <3> QED BY <3>1, <3>2, <3>3
  <2>2. CASE priorityQuantum # 0
    BY <2>2
  <2> QED BY <2>1, <2>2
<1> HIDE DEF aged
<1>2. c = Dummy \/ (c \in ToSet(l) /\ ps[c] = Ready /\ ~(fg /\ c = Shell))
  BY <1>1, ChosenFacts
<1>3. /\ ~firstProcess /\ firstProcess' = firstProcess
      /\ current' = c
      /\ auxPriority' = IF c = Dummy THEN aged ELSE [aged EXCEPT ![c] = priority[c]]
      /\ priorityQuantum' = IF priorityQuantum = 0 THEN PRIORITY_QUANTUM
                            ELSE priorityQuantum - 1
  BY DEF SwitchProcess, aged, c
<1> HIDE DEF c
<1>4. priorityQuantum' \in 0..PRIORITY_QUANTUM /\ priorityQuantum' # priorityQuantum
  BY <1>3, QuantumAssumption
<1>5. /\ auxPriority' \in [Pids -> 0..10]
      /\ \A p \in ToSet(l) : auxPriority'[p] \in 1..priority[p]
  <2>1. CASE c = Dummy
    BY <2>1, <1>1, <1>3
  <2>2. CASE c \in ToSet(l) /\ c # Dummy
    <3>1. c \in Pids /\ priority[c] \in 0..10
      BY <2>2, <1>0
    <3>2. aged[c] \in 1..priority[c]
      BY <2>2, <1>1
    <3>3. priority[c] \in 1..priority[c]
      BY <3>1, <3>2
    <3>4. auxPriority' = [aged EXCEPT ![c] = priority[c]]
      BY <2>2, <1>3
    <3>5. auxPriority' \in [Pids -> 0..10]
      BY <1>1, <3>1, <3>4
    <3>6. \A p \in ToSet(l) : p \in Pids /\ auxPriority'[p] = IF p = c THEN priority[c] ELSE aged[p]
      BY <1>0, <1>1, <3>4
    <3> QED BY <3>3, <3>5, <3>6, <1>1
  <2> QED BY <1>2, <2>1, <2>2
<1> QED BY <1>2, <1>3, <1>4, <1>5

\* A step that leaves the flag and the foreground process alone.
LEMMA FlagKept ==
  ASSUME Inv, fgTaken' = fgTaken,
         \A x \in Pids : HasForeground(x)' <=> HasForeground(x)
  PROVE  ForegroundFlag'
<1>1. /\ fgTaken <=> \E x \in Pids : HasForeground(x)
      /\ \A x, y \in Pids : HasForeground(x) /\ HasForeground(y) => x = y
  BY DEF Inv, ForegroundFlag
<1>2. /\ fgTaken' <=> \E x \in Pids : HasForeground(x)'
      /\ \A x, y \in Pids : HasForeground(x)' /\ HasForeground(y)' => x = y
  BY <1>1
<1> QED BY <1>2 DEF ForegroundFlag

\* A step that ends what the foreground process p is, or nothing when p is none.
LEMMA FlagAfter ==
  ASSUME Inv, NEW p \in Pids,
         fgTaken' = IF HasForeground(p) THEN FALSE ELSE fgTaken,
         \A x \in Pids : HasForeground(x)' <=> HasForeground(x) /\ x # p
  PROVE  ForegroundFlag'
<1>1. CASE HasForeground(p)
  <2>1. \A x \in Pids : ~HasForeground(x)'
    BY <1>1 DEF Inv, ForegroundFlag
  <2> QED BY <1>1, <2>1 DEF ForegroundFlag
<1>2. CASE ~HasForeground(p)
  BY <1>2, FlagKept
<1> QED BY <1>1, <1>2

\* A step that creates, ends, relinks and re-prioritises nothing.
LEMMA SameProcesses ==
  ASSUME Inv, UNCHANGED <<list, priority, fgTaken, nextPid, exitAt>>,
         \A p \in Pids : (pstate'[p] = Exited) <=> (pstate[p] = Exited)
  PROVE  /\ ListIsAlive' /\ ShellIsHead' /\ ForegroundFlag'
         /\ SortedBehindShell' /\ PrioritiesSet' /\ ExitsRight'
<1>1. \A p : Listed(p)' <=> Listed(p)
  BY DEF Listed
<1>2. ListIsAlive' /\ ExitsRight'
  BY <1>1 DEF Inv, ListIsAlive, ExitsRight
<1>3. ShellIsHead' /\ SortedBehindShell' /\ PrioritiesSet'
  BY <1>1 DEF Inv, ShellIsHead, SortedBehindShell, PrioritiesSet
<1>4. ForegroundFlag'
  <2>1. \A x \in Pids : HasForeground(x)' <=> HasForeground(x)
    BY <1>1 DEF HasForeground
  <2> QED BY <2>1, FlagKept
<1> QED BY <1>2, <1>3, <1>4

LEMMA InitInv == Init => Inv
<1> SUFFICES ASSUME Init PROVE Inv
  OBVIOUS
<1>0. Shell \in Pids /\ list = <<Shell>> /\ Len(list) = 1 /\ list[1] = Shell
  BY MaxPidAssumption DEF Init, Pids, Shell
<1>1. \A p : Listed(p) <=> p = Shell
  BY <1>0 DEF Listed, ToSet
<1>2. TypeOK
  <2>1. list \in Seq(Pids)
    BY <1>0
  <2>2. /\ pstate \in [Pids -> {Blocked, Ready, Exited}]
        /\ priority \in [Pids -> 0..10] /\ auxPriority \in [Pids -> 0..10]
    BY DEF Init, Foreground
  <2>3. nextPid \in 2..(MaxPid + 1) /\ priorityQuantum \in 0..PRIORITY_QUANTUM
    BY MaxPidAssumption, QuantumAssumption DEF Init
  <2> QED BY <2>1, <2>2, <2>3 DEF Init, TypeOK
<1>3. ListIsAlive
  BY <1>0, <1>1 DEF Init, ListIsAlive, Ready, Exited, Pids, Shell
<1>4. ShellIsHead /\ SortedBehindShell /\ AgeingBounded /\ PrioritiesSet /\ ForegroundFlag
  BY <1>0, <1>1 DEF Init, ShellIsHead, SortedBehindShell, AgeingBounded,
     PrioritiesSet, ForegroundFlag, HasForeground, Foreground
<1>5. CurrentIsLive /\ Started /\ ExitsRight
  BY <1>0 DEF Init, CurrentIsLive, Started, ExitsRight
<1> QED BY <1>2, <1>3, <1>4, <1>5 DEF Inv

-----------------------------------------------------------------------------
(* Each action preserves the invariant                                     *)

LEMMA InvFirstSwitch == Inv /\ FirstSwitch => Inv'
<1> SUFFICES ASSUME Inv, FirstSwitch PROVE Inv'
  OBVIOUS
<1>0. current' = Shell /\ Shell \in Pids /\ Listed(Shell)
  <2>1. list = <<Shell>>
    BY DEF Inv, Started, FirstSwitch
  <2>2. Shell \in Pids
    BY MaxPidAssumption DEF Pids, Shell
  <2> QED BY <2>1, <2>2 DEF FirstSwitch, Listed, ToSet
<1>1. /\ ListIsAlive' /\ ShellIsHead' /\ ForegroundFlag' /\ SortedBehindShell' /\ PrioritiesSet'
      /\ ExitsRight'
  BY SameProcesses DEF FirstSwitch
<1>2. TypeOK'
  BY <1>0 DEF Inv, TypeOK, FirstSwitch
<1>3. CurrentIsLive' /\ Started' /\ AgeingBounded'
  BY <1>0 DEF Inv, CurrentIsLive, Started, AgeingBounded, FirstSwitch, Listed,
     Shell, NULL
<1> QED BY <1>1, <1>2, <1>3 DEF Inv

\* The premises of SwitchFacts hold for a switch on the unchanged list, whatever
\* states the handler left.
LEMMA SwitchOnList ==
  ASSUME Inv, NEW ps \in [Pids -> {Blocked, Ready, Exited}],
         SwitchProcess(list, After(list, current), ps, auxPriority, fgTaken)
  PROVE  /\ ~firstProcess /\ ~firstProcess'
         /\ \/ current' = Dummy
            \/ Listed(current') /\ ps[current'] = Ready /\ ~(fgTaken /\ current' = Shell)
         /\ auxPriority' \in [Pids -> 0..10]
         /\ \A p \in Pids : Listed(p) => auxPriority'[p] \in 1..priority[p]
         /\ priorityQuantum' \in 0..PRIORITY_QUANTUM
         /\ priorityQuantum' # priorityQuantum
<1>1. list \in Seq(Pids) /\ Distinct(list) /\ ToSet(list) \subseteq Pids
  BY ToSetFacts DEF Inv, TypeOK, ListIsAlive, Distinct
<1>2. current \in Pids \union {Dummy} /\ (current \in Pids => current \in ToSet(list))
  BY DEF Inv, TypeOK, SwitchProcess, CurrentIsLive, Started, Listed, Pids, Dummy
<1>3. /\ After(list, current) \in Seq(Pids)
      /\ ToSet(After(list, current)) \subseteq ToSet(list)
      /\ \A x \in ToSet(After(list, current)) : x # list[1]
  BY <1>1, AfterFacts
<1>4. Shell \notin ToSet(After(list, current))
  BY <1>3 DEF Inv, ShellIsHead, Listed
<1>5. \A p \in ToSet(list) : auxPriority[p] \in 1..priority[p]
  BY <1>1 DEF Inv, AgeingBounded, Listed
<1>6. /\ priority \in [Pids -> 0..10] /\ auxPriority \in [Pids -> 0..10]
      /\ fgTaken \in BOOLEAN /\ priorityQuantum \in 0..PRIORITY_QUANTUM
  BY DEF Inv, TypeOK
<1>7. /\ ~firstProcess /\ ~firstProcess'
      /\ \/ current' = Dummy
         \/ /\ current' \in ToSet(list) /\ ps[current'] = Ready
            /\ ~(fgTaken /\ current' = Shell)
      /\ auxPriority' \in [Pids -> 0..10]
      /\ \A p \in ToSet(list) : auxPriority'[p] \in 1..priority[p]
      /\ priorityQuantum' \in 0..PRIORITY_QUANTUM
      /\ priorityQuantum' # priorityQuantum
  <2> DEFINE rest == After(list, current)
  <2>1. SwitchProcess(list, rest, ps, auxPriority, fgTaken)
    OBVIOUS
  <2>2. current \in Pids => ps[current] # Ready \/ current \in ToSet(list)
    BY <1>2
  <2> HIDE DEF rest
  <2> QED BY <1>1, <1>2, <1>3, <1>4, <1>5, <1>6, <2>1, <2>2, SwitchFacts, Zenon DEF rest
<1> QED BY <1>7 DEF Listed

\* A switch on the unchanged list preserves the invariant when the handler has
\* ended no process.
LEMMA InvSwitch ==
  ASSUME Inv, NEW ps \in [Pids -> {Blocked, Ready, Exited}],
         SwitchProcess(list, After(list, current), ps, auxPriority, fgTaken),
         pstate' = ps, UNCHANGED <<list, priority, fgTaken, nextPid, exitAt, torn>>,
         \A p \in Pids : (ps[p] = Exited) <=> (pstate[p] = Exited)
  PROVE  Inv'
<1>0. list \in Seq(Pids) /\ ToSet(list) \subseteq Pids
  BY ToSetFacts DEF Inv, TypeOK
<1>1. /\ ListIsAlive' /\ ShellIsHead' /\ ForegroundFlag' /\ SortedBehindShell' /\ PrioritiesSet'
      /\ ExitsRight'
  BY SameProcesses
<1>2. /\ ~firstProcess /\ ~firstProcess'
      /\ current' = Dummy \/ Listed(current')
      /\ auxPriority' \in [Pids -> 0..10]
      /\ \A p \in Pids : Listed(p) => auxPriority'[p] \in 1..priority[p]
      /\ priorityQuantum' \in 0..PRIORITY_QUANTUM
  BY SwitchOnList
<1>3. current' \in Pids \union {Dummy}
  BY <1>0, <1>2 DEF Listed
<1>4. TypeOK'
  <2>1. /\ list' \in Seq(Pids) /\ priority' \in [Pids -> 0..10]
        /\ fgTaken' \in BOOLEAN /\ nextPid' \in 2..(MaxPid + 1)
        /\ pstate' \in [Pids -> {Blocked, Ready, Exited}]
    BY <1>0 DEF Inv, TypeOK
  <2>2. /\ firstProcess' \in BOOLEAN /\ torn' \in BOOLEAN
        /\ exitAt' \in [Pids -> {"no", "lowered", "found", "marked", "freed"}]
    BY DEF Inv, TypeOK, SwitchProcess
  <2> QED BY <1>2, <1>3, <2>1, <2>2 DEF TypeOK
<1>5. CurrentIsLive'
  BY <1>2 DEF CurrentIsLive, Listed
<1>6. AgeingBounded'
  BY <1>2 DEF AgeingBounded, Listed
<1>7. Started'
  BY <1>2, <1>3 DEF Started, Dummy, NULL, Pids
<1> QED BY <1>1, <1>4, <1>5, <1>6, <1>7 DEF Inv

LEMMA InvTick == Inv /\ Tick => Inv'
<1> SUFFICES ASSUME Inv, Tick PROVE Inv'
  OBVIOUS
<1>1. pstate \in [Pids -> {Blocked, Ready, Exited}]
  BY DEF Inv, TypeOK
<1> QED BY <1>1, InvSwitch DEF Tick

LEMMA InvBlockAndSwitch == Inv /\ BlockAndSwitch => Inv'
<1> SUFFICES ASSUME Inv, BlockAndSwitch PROVE Inv'
  OBVIOUS
<1> DEFINE ps == [pstate EXCEPT ![current] = Blocked]
<1>1. /\ ps \in [Pids -> {Blocked, Ready, Exited}]
      /\ \A p \in Pids : (ps[p] = Exited) <=> (pstate[p] = Exited)
  BY DEF Inv, TypeOK, BlockAndSwitch, Running, Blocked, Exited, Ready
<1>2. /\ SwitchProcess(list, After(list, current), ps, auxPriority, fgTaken)
      /\ pstate' = ps /\ UNCHANGED <<list, priority, fgTaken, nextPid, exitAt, torn>>
  BY DEF BlockAndSwitch
<1> HIDE DEF ps
<1> QED BY <1>1, <1>2, InvSwitch

\* Steps that only move one live process between ready and blocked.
LEMMA InvStateChange ==
  ASSUME Inv, pstate' \in [Pids -> {Blocked, Ready, Exited}],
         \A p \in Pids : (pstate'[p] = Exited) <=> (pstate[p] = Exited),
         UNCHANGED <<list, priority, auxPriority, current, fgTaken, priorityQuantum,
                     nextPid, firstProcess, exitAt, torn>>, ~firstProcess
  PROVE  Inv'
<1>1. /\ ListIsAlive' /\ ShellIsHead' /\ ForegroundFlag' /\ SortedBehindShell' /\ PrioritiesSet'
      /\ ExitsRight'
  BY SameProcesses
<1>2. TypeOK'
  BY DEF Inv, TypeOK
<1>3. CurrentIsLive' /\ Started' /\ AgeingBounded'
  BY DEF Inv, CurrentIsLive, Started, AgeingBounded, Listed
<1> QED BY <1>1, <1>2, <1>3 DEF Inv

\* A running process exists only after the first switch.
LEMMA RunningFacts ==
  ASSUME Inv, Running
  PROVE  /\ ~firstProcess /\ current \in Pids /\ Listed(current)
         /\ pstate[current] = Ready
  BY DEF Inv, Started, CurrentIsLive, Running, NULL, Dummy, Pids

LEMMA InvToggle == ASSUME NEW p \in Pids PROVE Inv /\ ToggleState(p) => Inv'
<1> SUFFICES ASSUME Inv, ToggleState(p) PROVE Inv'
  OBVIOUS
<1>1. pstate[p] # Exited
  BY DEF ToggleState
<1>2. /\ pstate' \in [Pids -> {Blocked, Ready, Exited}]
      /\ \A q \in Pids : (pstate'[q] = Exited) <=> (pstate[q] = Exited)
  BY <1>1 DEF Inv, TypeOK, ToggleState, Ready, Blocked, Exited
<1> QED BY <1>2, RunningFacts, InvStateChange DEF ToggleState

LEMMA InvBlockCurrent == Inv /\ BlockCurrentProcess => Inv'
<1> SUFFICES ASSUME Inv, BlockCurrentProcess PROVE Inv'
  OBVIOUS
<1>1. /\ pstate' \in [Pids -> {Blocked, Ready, Exited}]
      /\ \A q \in Pids : (pstate'[q] = Exited) <=> (pstate[q] = Exited)
  BY DEF Inv, TypeOK, BlockCurrentProcess, Running, Ready, Blocked, Exited
<1> QED BY <1>1, RunningFacts, InvStateChange DEF BlockCurrentProcess

LEMMA InvWake == ASSUME NEW p \in Pids PROVE Inv /\ Wake(p) => Inv'
<1> SUFFICES ASSUME Inv, Wake(p) PROVE Inv'
  OBVIOUS
<1>1. /\ pstate' \in [Pids -> {Blocked, Ready, Exited}]
      /\ \A q \in Pids : (pstate'[q] = Exited) <=> (pstate[q] = Exited)
  BY DEF Inv, TypeOK, Wake, Ready, Blocked, Exited
<1> QED BY <1>1, InvStateChange DEF Wake

LEMMA InvCreate ==
  ASSUME NEW pr \in {Foreground, Background}
  PROVE  Inv /\ CreateProcess(pr) => Inv'
<1> SUFFICES ASSUME Inv, CreateProcess(pr) PROVE Inv'
  OBVIOUS
<1> USE DEF Ready, Blocked, Exited
<1>0. /\ list \in Seq(Pids) /\ Distinct(list) /\ ToSet(list) \subseteq Pids
      /\ priority \in [Pids -> 0..10] /\ auxPriority \in [Pids -> 0..10]
      /\ pstate \in [Pids -> {0, 1, 2}]
      /\ pr \in 1..10 /\ pr \in 0..10 /\ MaxPid \in Nat
      /\ ~firstProcess /\ current \in Pids /\ Listed(current)
  BY RunningFacts, ToSetFacts, MaxPidAssumption
  DEF Inv, TypeOK, ListIsAlive, Distinct, CreateProcess, Foreground, Background
<1>1. nextPid \in Pids /\ nextPid # Shell /\ nextPid \notin ToSet(list)
  <2>1. nextPid \in Pids /\ nextPid # Shell
    BY <1>0 DEF Inv, TypeOK, CreateProcess, Pids, Shell
  <2>2. ~(nextPid < nextPid)
    BY <2>1 DEF Pids
  <2> QED BY <2>1, <2>2 DEF Inv, ListIsAlive, Listed
<1>2. /\ list' \in Seq(Pids) /\ Distinct(list')
      /\ ToSet(list') = ToSet(list) \union {nextPid}
      /\ list # <<>> => list'[1] = list[1]
  BY <1>0, <1>1, LinkFacts DEF CreateProcess
<1>3. list # <<>> /\ \A x : Listed(x)' <=> (Listed(x) \/ x = nextPid)
  <2>1. list # <<>>
    BY <1>0 DEF Listed, ToSet
  <2>2. \A x : Listed(x)' <=> x \in ToSet(list')
    BY DEF Listed
  <2> QED BY <1>2, <2>1, <2>2 DEF Listed
<1>a. PICK n \in Pids : n = nextPid
  BY <1>1
<1>4. TypeOK'
  <2>1. nextPid' \in 2..(MaxPid + 1)
    BY <1>0, <1>1 DEF Inv, TypeOK, CreateProcess
  <2>2. /\ pstate' \in [Pids -> {Blocked, Ready, Exited}]
        /\ priority' \in [Pids -> 0..10] /\ auxPriority' \in [Pids -> 0..10]
    BY <1>0, <1>1 DEF CreateProcess
  <2>3. fgTaken' \in BOOLEAN
    BY DEF CreateProcess
  <2> QED BY <1>2, <2>1, <2>2, <2>3 DEF Inv, TypeOK, CreateProcess
<1>5. ListIsAlive'
  <2>1. \A p \in Pids : Listed(p)' <=>
          p < nextPid' /\ (pstate'[p] # Exited \/ exitAt'[p] \in {"marked", "freed"})
    <3> TAKE p \in Pids
    <3>1. CASE p = nextPid
      BY <3>1, <1>0, <1>1, <1>3 DEF CreateProcess, Pids
    <3>2. CASE p # nextPid
      <4>1. /\ pstate'[p] = pstate[p] /\ (p < nextPid' <=> p < nextPid)
            /\ exitAt'[p] = exitAt[p]
        BY <3>2, <1>0, <1>1 DEF CreateProcess, Pids
      <4> QED BY <3>2, <4>1, <1>3 DEF Inv, ListIsAlive
    <3> QED BY <3>1, <3>2
  <2> QED BY <2>1, <1>2 DEF ListIsAlive, Distinct
<1>b. exitAt' = exitAt /\ exitAt[n] = "no" /\ ExitsRight'
  <2>1. exitAt' = exitAt
    BY DEF CreateProcess
  <2>2. exitAt[n] = "no"
    BY <1>1, <1>a DEF Inv, ExitsRight, Listed
  <2>3. \A x \in Pids : x # n => pstate'[x] = pstate[x]
    BY <1>0, <1>a DEF CreateProcess
  <2>4. \A x \in Pids : /\ exitAt'[x] # "no" => Listed(x)'
                        /\ exitAt'[x] \in {"marked", "freed"} => pstate'[x] = Exited
    BY <1>3, <2>1, <2>2, <2>3 DEF Inv, ExitsRight
  <2> QED BY <2>1, <2>2, <2>4 DEF ExitsRight
<1>6. CurrentIsLive' /\ Started'
  BY <1>0, <1>3 DEF CurrentIsLive, Started, CreateProcess, NULL, Pids
<1>7. ShellIsHead'
  BY <1>1, <1>2, <1>3 DEF Inv, ShellIsHead
<1>8. PrioritiesSet' /\ AgeingBounded'
  <2>1. \A p \in Pids : Listed(p)' =>
          priority'[p] \in 1..10 /\ auxPriority'[p] \in 1..priority'[p]
    <3> TAKE p \in Pids
    <3> HAVE Listed(p)'
    <3>1. CASE p = nextPid
      BY <3>1, <1>0, <1>1 DEF CreateProcess
    <3>2. CASE p # nextPid
      <4>1. Listed(p) /\ priority'[p] = priority[p] /\ auxPriority'[p] = auxPriority[p]
        BY <3>2, <1>0, <1>1, <1>3 DEF CreateProcess
      <4> QED BY <4>1 DEF Inv, PrioritiesSet, AgeingBounded
    <3> QED BY <3>1, <3>2
  <2>2. Listed(Shell)' => priority'[Shell] = Foreground
    BY <1>0, <1>1, <1>3 DEF Inv, PrioritiesSet, CreateProcess, Listed
  <2> QED BY <2>1, <2>2 DEF PrioritiesSet, AgeingBounded
<1>9. ForegroundFlag'
  <2>1. \A p \in Pids : p # nextPid => (Listed(p)' <=> Listed(p)) /\ priority'[p] = priority[p]
    BY <1>0, <1>1, <1>3 DEF CreateProcess
  <2>2. Listed(n)' /\ priority'[n] = pr /\ n # Shell /\ ~Listed(n)
    BY <1>0, <1>1, <1>3, <1>a DEF CreateProcess, Listed
  <2>5. \A p \in Pids : p # n => (HasForeground(p)' <=> HasForeground(p))
    BY <1>a, <1>b, <2>1 DEF HasForeground
  <2>6. ~HasForeground(n) /\ (HasForeground(n)' <=> pr = Foreground)
    BY <1>b, <2>2 DEF HasForeground
  <2>3. CASE pr = Foreground
    <3>1. ~fgTaken /\ fgTaken'
      BY <2>3 DEF CreateProcess
    <3>2. \A p \in Pids : ~HasForeground(p)
      BY <3>1 DEF Inv, ForegroundFlag
    <3>3. \A p \in Pids : HasForeground(p)' <=> p = n
      BY <2>3, <2>5, <2>6, <3>2
    <3> QED BY <3>1, <3>3 DEF ForegroundFlag
  <2>4. CASE pr # Foreground
    <3>1. fgTaken' = fgTaken
      BY <2>4 DEF CreateProcess, Inv, TypeOK
    <3>2. \A p \in Pids : HasForeground(p)' <=> HasForeground(p)
      BY <2>4, <2>5, <2>6
    <3> QED BY <3>1, <3>2, FlagKept
  <2> QED BY <2>3, <2>4
<1>10. SortedBehindShell'
  <2> SUFFICES ASSUME Listed(Shell)' PROVE Sorted(list', priority')
    BY DEF SortedBehindShell, Sorted
  <2>1. Listed(Shell)
    BY <1>1, <1>3
  <2>2. Sorted(list, priority) /\ priority[list[1]] = 1
    BY <2>1 DEF Inv, SortedBehindShell, Sorted, ShellIsHead, PrioritiesSet, Foreground,
       Listed
  <2>3. /\ list' = Link(list, nextPid, pr)
        /\ priority' = [priority EXCEPT ![nextPid] = pr]
    BY DEF CreateProcess
  <2> QED BY <1>0, <1>1, <1>3, <2>2, <2>3, LinkSorted
<1> QED BY <1>4, <1>5, <1>6, <1>7, <1>8, <1>9, <1>10, <1>b DEF Inv

\* Ending the process p: what killPid and exitCurrentProcess have in common.
LEMMA EndedFacts ==
  ASSUME Inv, NEW p \in Pids, Listed(p),
         list' = Unlink(list, p),
         pstate' = [pstate EXCEPT ![p] = Exited],
         priority' = [priority EXCEPT ![p] = 0],
         nextPid' = nextPid,
         exitAt' = [exitAt EXCEPT ![p] = "no"],
         fgTaken' = IF HasForeground(p) THEN FALSE ELSE fgTaken
  PROVE  /\ list' \in Seq(Pids) /\ ToSet(list') = ToSet(list) \ {p}
         /\ ListIsAlive' /\ ShellIsHead' /\ SortedBehindShell' /\ PrioritiesSet'
         /\ ForegroundFlag' /\ ExitsRight'
<1>0. /\ list \in Seq(Pids) /\ Distinct(list) /\ p \in ToSet(list)
      /\ priority \in [Pids -> 0..10] /\ pstate \in [Pids -> {Blocked, Ready, Exited}]
      /\ fgTaken \in BOOLEAN
      /\ exitAt \in [Pids -> {"no", "lowered", "found", "marked", "freed"}]
  BY DEF Inv, TypeOK, ListIsAlive, Distinct, Listed
<1>1. /\ list' \in Seq(Pids) /\ Distinct(list') /\ ToSet(list') = ToSet(list) \ {p}
      /\ p # list[1] => list' # <<>> /\ list'[1] = list[1]
  BY <1>0, UnlinkFacts
<1>2. \A x : Listed(x)' <=> (Listed(x) /\ x # p)
  <2>1. \A x : Listed(x)' <=> x \in ToSet(list')
    BY DEF Listed
  <2> QED BY <1>1, <2>1 DEF Listed
<1>3. \A x \in Pids : /\ x # p => /\ pstate'[x] = pstate[x] /\ priority'[x] = priority[x]
                                  /\ exitAt'[x] = exitAt[x]
                      /\ pstate'[p] = Exited /\ priority'[p] = 0 /\ exitAt'[p] = "no"
  BY <1>0
<1>4. ListIsAlive' /\ ExitsRight'
  <2>1. \A x \in Pids : Listed(x)' <=>
          x < nextPid' /\ (pstate'[x] # Exited \/ exitAt'[x] \in {"marked", "freed"})
    BY <1>2, <1>3 DEF Inv, ListIsAlive
  <2>2. ExitsRight'
    BY <1>2, <1>3 DEF Inv, ExitsRight
  <2> QED BY <1>1, <2>1, <2>2 DEF ListIsAlive, Distinct
<1>5. ShellIsHead'
  BY <1>1, <1>2 DEF Inv, ShellIsHead
<1>6. PrioritiesSet'
  <2>1. \A x \in Pids : Listed(x)' => priority'[x] \in 1..10
    BY <1>2, <1>3 DEF Inv, PrioritiesSet
  <2>2. Listed(Shell)' => Shell \in Pids /\ Listed(Shell) /\ Shell # p
    BY <1>0, <1>2, ToSetFacts DEF Listed
  <2>3. Listed(Shell)' => priority'[Shell] = Foreground
    BY <1>3, <2>2 DEF Inv, PrioritiesSet
  <2> QED BY <2>1, <2>3 DEF PrioritiesSet
<1>7. SortedBehindShell'
  <2> SUFFICES ASSUME Listed(Shell)' PROVE Sorted(list', priority')
    BY DEF SortedBehindShell, Sorted
  <2>1. Sorted(list, priority)
    BY <1>2 DEF Inv, SortedBehindShell, Sorted
  <2>2. Sorted(list', priority)
    BY <1>0, <2>1, UnlinkSorted
  <2>3. \A i \in 1..Len(list') : priority'[list'[i]] = priority[list'[i]]
    <3>1. \A i \in 1..Len(list') : list'[i] \in ToSet(list') /\ list'[i] \in Pids
      BY <1>1, ToSetFacts
    <3> QED BY <3>1, <1>1, <1>3
  <2> QED BY <2>2, <2>3 DEF Sorted
<1>8. ForegroundFlag'
  <2>1. \A x \in Pids : HasForeground(x)' <=> HasForeground(x) /\ x # p
    BY <1>2, <1>3 DEF HasForeground
  <2> QED BY <2>1, FlagAfter
<1> QED BY <1>1, <1>4, <1>5, <1>6, <1>7, <1>8

LEMMA InvKill == ASSUME NEW p \in Pids PROVE Inv /\ KillPid(p) => Inv'
<1> SUFFICES ASSUME Inv, KillPid(p) PROVE Inv'
  OBVIOUS
<1>0. ~firstProcess /\ current \in Pids /\ Listed(current) /\ p # current /\ Listed(p)
  BY RunningFacts DEF KillPid
<1>1. /\ list' \in Seq(Pids) /\ ToSet(list') = ToSet(list) \ {p}
      /\ ListIsAlive' /\ ShellIsHead' /\ SortedBehindShell' /\ PrioritiesSet'
      /\ ForegroundFlag' /\ ExitsRight'
  <2>1. fgTaken' = IF HasForeground(p) THEN FALSE ELSE fgTaken
    BY DEF KillPid, HasForeground
  <2> QED BY <1>0, <2>1, EndedFacts DEF KillPid
<1>2. TypeOK'
  BY <1>1 DEF Inv, TypeOK, KillPid
<1>3. \A x : Listed(x)' <=> Listed(x) /\ x # p
  <2>1. \A x : Listed(x)' <=> x \in ToSet(list')
    BY DEF Listed
  <2> QED BY <1>1, <2>1 DEF Listed
<1>4. CurrentIsLive' /\ Started'
  <2>1. current' = current /\ firstProcess' = firstProcess
    BY DEF KillPid
  <2>2. Listed(current)'
    BY <1>0, <1>1, <2>1 DEF Listed
  <2> QED BY <1>0, <2>1, <2>2 DEF CurrentIsLive, Started, NULL, Pids
<1>5. AgeingBounded'
  BY <1>3 DEF Inv, TypeOK, AgeingBounded, KillPid
<1> QED BY <1>1, <1>2, <1>4, <1>5 DEF Inv

\* The process a switch dispatches, if any, may run.
Dispatched == current' = Dummy \/ \E p \in Pids : p = current' /\ Eligible(p)'

\* What the last step of an exit does, with interrupts off or on.
LEMMA InvUnlink ==
  ASSUME Inv, current \in Pids, Listed(current), NEW fg \in BOOLEAN, UnlinkAndSwitch(fg),
         fg = IF HasForeground(current) THEN FALSE ELSE fgTaken
  PROVE  Inv' /\ Dispatched
<1> DEFINE p == current
           l == Unlink(list, p)
           rest == After(list, p)
           ps == [pstate EXCEPT ![p] = Exited]
           ap == [auxPriority EXCEPT ![p] = 0]
<1>0. ~firstProcess /\ p \in Pids /\ Listed(p)
  BY DEF UnlinkAndSwitch, SwitchProcess
<1>1. SwitchProcess(l, rest, ps, ap, fgTaken')
  BY DEF UnlinkAndSwitch
<1>2. /\ list' = l /\ pstate' = ps /\ priority' = [priority EXCEPT ![p] = 0]
      /\ nextPid' = nextPid /\ exitAt' = [exitAt EXCEPT ![p] = "no"] /\ torn' = torn
  BY DEF UnlinkAndSwitch
<1>3. fgTaken' = IF HasForeground(p) THEN FALSE ELSE fgTaken
  BY DEF UnlinkAndSwitch
<1>4. PICK q \in Pids : q = p
  BY <1>0
<1>5. /\ list' \in Seq(Pids) /\ ToSet(list') = ToSet(list) \ {q}
      /\ ListIsAlive' /\ ShellIsHead' /\ SortedBehindShell' /\ PrioritiesSet'
      /\ ForegroundFlag' /\ ExitsRight'
  <2> HIDE DEF p
  <2>1. /\ Listed(q) /\ list' = Unlink(list, q)
        /\ pstate' = [pstate EXCEPT ![q] = Exited]
        /\ priority' = [priority EXCEPT ![q] = 0]
        /\ exitAt' = [exitAt EXCEPT ![q] = "no"]
        /\ fgTaken' = IF HasForeground(q) THEN FALSE ELSE fgTaken
    BY <1>0, <1>2, <1>3, <1>4
  <2> QED BY <1>2, <2>1, EndedFacts
<1>6. /\ list \in Seq(Pids) /\ Distinct(list) /\ ToSet(list) \subseteq Pids
      /\ priority \in [Pids -> 0..10] /\ auxPriority \in [Pids -> 0..10]
      /\ pstate \in [Pids -> {Blocked, Ready, Exited}]
      /\ fgTaken' \in BOOLEAN /\ priorityQuantum \in 0..PRIORITY_QUANTUM
      /\ exitAt \in [Pids -> {"no", "lowered", "found", "marked", "freed"}]
  BY <1>3, ToSetFacts DEF Inv, TypeOK, ListIsAlive, Distinct
<1>7. rest \in Seq(Pids) /\ ToSet(rest) \subseteq ToSet(l) /\ Shell \notin ToSet(rest)
  <2>1. /\ rest \in Seq(Pids) /\ ToSet(rest) \subseteq ToSet(list) \ {p}
        /\ \A x \in ToSet(rest) : x # list[1]
    BY <1>6, AfterFacts
  <2>2. ToSet(l) = ToSet(list) \ {p}
    BY <1>2, <1>4, <1>5
  <2> QED BY <2>1, <2>2 DEF Inv, ShellIsHead, Listed
<1>8. /\ ap \in [Pids -> 0..10]
      /\ ps[p] # Ready
      /\ \A x \in ToSet(l) : ap[x] \in 1..priority[x] /\ x \in Pids /\ priority'[x] = priority[x]
  <2>1. ap \in [Pids -> 0..10] /\ ps[p] # Ready
    BY <1>0, <1>6 DEF Ready, Exited
  <2>2. ASSUME NEW x \in ToSet(l)
        PROVE  ap[x] \in 1..priority[x] /\ x \in Pids /\ priority'[x] = priority[x]
    <3>1. x \in Pids /\ Listed(x) /\ x # p
      BY <1>2, <1>4, <1>5, <1>6 DEF Listed
    <3> QED BY <1>2, <1>6, <3>1 DEF Inv, AgeingBounded
  <2> QED BY <2>1, <2>2
<1>9. l \in Seq(Pids)
  BY <1>2, <1>5
<1> HIDE DEF l, rest, ps, ap
<1>10. /\ ~firstProcess /\ ~firstProcess'
       /\ \/ current' = Dummy
          \/ current' \in ToSet(l) /\ ps[current'] = Ready /\ ~(fgTaken' /\ current' = Shell)
       /\ auxPriority' \in [Pids -> 0..10]
       /\ \A x \in ToSet(l) : auxPriority'[x] \in 1..priority[x]
       /\ priorityQuantum' \in 0..PRIORITY_QUANTUM
       /\ priorityQuantum' # priorityQuantum
  <2>1. PICK f \in BOOLEAN : f = fgTaken'
    BY <1>6
  <2>2. SwitchProcess(l, rest, ps, ap, f)
    BY <1>1, <2>1
  <2>3. current \in Pids => ps[current] # Ready \/ current \in ToSet(l)
    BY <1>8
  <2>4. current \in Pids \union {Dummy} /\ \A x \in ToSet(l) : ap[x] \in 1..priority[x]
    BY <1>0, <1>8
  <2>5. /\ ~firstProcess /\ ~firstProcess'
        /\ \/ current' = Dummy
           \/ current' \in ToSet(l) /\ ps[current'] = Ready /\ ~(f /\ current' = Shell)
        /\ auxPriority' \in [Pids -> 0..10]
        /\ \A x \in ToSet(l) : auxPriority'[x] \in 1..priority[x]
        /\ priorityQuantum' \in 0..PRIORITY_QUANTUM
        /\ priorityQuantum' # priorityQuantum
    <3>1. ap \in [Pids -> 0..10]
      BY <1>8
    <3>2. priority \in [Pids -> 0..10] /\ priorityQuantum \in 0..PRIORITY_QUANTUM
      BY <1>6
    <3>3. \A x \in ToSet(l) : ap[x] \in 1..priority[x]
      BY <2>4
    <3>4. current \in Pids \union {Dummy}
      BY <2>4
    <3> QED BY <1>7, <1>9, <2>2, <2>3, <3>1, <3>2, <3>3, <3>4, SwitchFacts, Zenon
  <2> QED BY <2>1, <2>5
<1>11. \A x : Listed(x)' <=> x \in ToSet(l)
  BY <1>2 DEF Listed
<1>12. current' \in Pids \union {Dummy} /\ (current' = Dummy \/ current' \in ToSet(l))
  BY <1>8, <1>10
<1>13. TypeOK'
  <2>1. /\ priority' \in [Pids -> 0..10] /\ pstate' \in [Pids -> {Blocked, Ready, Exited}]
    <3>1. priority' \in [Pids -> 0..10]
      <4>1. priority' = [priority EXCEPT ![p] = 0]
        BY <1>2
      <4>2. priority \in [Pids -> 0..10] /\ 0 \in 0..10
        BY <1>6
      <4> QED BY <4>1, <4>2
    <3>2. pstate' = [pstate EXCEPT ![p] = Exited]
      BY <1>2 DEF ps
    <3>3. Exited \in {Blocked, Ready, Exited}
      OBVIOUS
    <3>4. [pstate EXCEPT ![p] = Exited] \in [Pids -> {Blocked, Ready, Exited}]
      BY <1>6, <3>3
    <3> QED BY <3>1, <3>2, <3>4
  <2>2. firstProcess' \in BOOLEAN
    BY <1>1 DEF SwitchProcess, Inv, TypeOK
  <2>3. nextPid' \in 2..(MaxPid + 1) /\ torn' \in BOOLEAN
    BY <1>2 DEF Inv, TypeOK
  <2>4. exitAt' \in [Pids -> {"no", "lowered", "found", "marked", "freed"}]
    <3>1. "no" \in {"no", "lowered", "found", "marked", "freed"}
      OBVIOUS
    <3> QED BY <1>2, <1>6, <3>1
  <2> QED BY <1>5, <1>6, <1>10, <1>12, <2>1, <2>2, <2>3, <2>4 DEF TypeOK
<1>14. CurrentIsLive' /\ Started'
  <2> QED BY <1>10, <1>12, <1>2 DEF CurrentIsLive, Started, Listed, Dummy, NULL, Pids
<1>15. AgeingBounded'
  <2>1. \A x \in Pids : Listed(x)' => auxPriority'[x] \in 1..priority'[x]
    BY <1>8, <1>10, <1>11
  <2> QED BY <2>1 DEF AgeingBounded
<1>16. Dispatched
  <2>1. CASE current' = Dummy
    BY <2>1 DEF Dispatched
  <2>2. CASE current' # Dummy
    <3>1. PICK x \in Pids : x = current'
      BY <1>12, <2>2
    <3>2. x \in ToSet(l) /\ ps[x] = Ready /\ ~(fgTaken' /\ x = Shell)
      BY <1>10, <2>2, <3>1
    <3>3. Listed(x)' /\ pstate'[x] = Ready
      BY <1>2, <1>11, <3>2
    <3> QED BY <3>1, <3>2, <3>3 DEF Dispatched, Eligible
  <2> QED BY <2>1, <2>2
<1> QED BY <1>5, <1>13, <1>14, <1>15, <1>16 DEF Inv

\* exitCurrentProcess with interrupts off.
LEMMA ExitUnlinks ==
  ASSUME Inv, Exit
  PROVE  /\ current \in Pids /\ Listed(current) /\ FlagAfterExit \in BOOLEAN
         /\ UnlinkAndSwitch(FlagAfterExit)
         /\ FlagAfterExit = IF HasForeground(current) THEN FALSE ELSE fgTaken
<1>1. /\ current \in Pids /\ Listed(current) /\ exitAt[current] = "no"
      /\ current = Shell => fgTaken = FALSE
  BY RunningFacts DEF Exit, MayExit, Running, Inv, TypeOK
<1>2. HasForeground(current) <=> current # Shell /\ priority[current] = Foreground
  BY <1>1 DEF HasForeground
<1>3. FlagAfterExit = IF HasForeground(current) THEN FALSE ELSE fgTaken
  BY <1>1, <1>2 DEF FlagAfterExit
<1>4. FlagAfterExit \in BOOLEAN
  BY DEF FlagAfterExit, Inv, TypeOK
<1> QED BY <1>1, <1>3, <1>4 DEF Exit

LEMMA InvExit == Inv /\ Exit => Inv' /\ Dispatched
BY ExitUnlinks, InvUnlink

\* The last step of an exit with interrupts on: the flag was lowered before.
LEMMA UnlinkedUnlinks ==
  ASSUME Inv, Unlinked
  PROVE  /\ current \in Pids /\ Listed(current) /\ fgTaken \in BOOLEAN
         /\ UnlinkAndSwitch(fgTaken)
         /\ fgTaken = IF HasForeground(current) THEN FALSE ELSE fgTaken
<1>1. current \in Pids /\ Listed(current) /\ exitAt[current] = "freed"
  BY DEF Unlinked, Exiting, Inv, ExitsRight
<1>2. ~HasForeground(current)
  BY <1>1 DEF HasForeground
<1> QED BY <1>1, <1>2 DEF Unlinked, Inv, TypeOK

LEMMA InvUnlinked == Inv /\ Unlinked => Inv' /\ Dispatched
BY UnlinkedUnlinks, InvUnlink

\* The steps of an exit before that move no node and switch to nobody.
LEMMA InvStill ==
  ASSUME Inv, UNCHANGED <<list, priority, auxPriority, current, nextPid, firstProcess>>,
         ~firstProcess, TypeOK', ListIsAlive', ForegroundFlag', ExitsRight'
  PROVE  Inv'
<1>1. ShellIsHead' /\ SortedBehindShell' /\ PrioritiesSet'
  BY DEF Inv, ShellIsHead, SortedBehindShell, PrioritiesSet, Listed
<1>2. CurrentIsLive' /\ Started' /\ AgeingBounded'
  BY DEF Inv, CurrentIsLive, Started, AgeingBounded, Listed
<1> QED BY <1>1, <1>2 DEF Inv

\* Line 281.  From there on the process is no foreground process.
LEMMA InvLowerFlag == Inv /\ LowerFlag => Inv'
<1> SUFFICES ASSUME Inv, LowerFlag PROVE Inv'
  OBVIOUS
<1>0. PICK p \in Pids : p = current
  BY RunningFacts DEF LowerFlag, MayExit
<1>1. /\ Listed(p) /\ ~firstProcess /\ exitAt[p] = "no" /\ pstate[p] = Ready
      /\ p = Shell => fgTaken = FALSE
  BY <1>0, RunningFacts DEF LowerFlag, MayExit, Running, Inv, TypeOK
<1>2. /\ exitAt' = [exitAt EXCEPT ![p] = "lowered"]
      /\ fgTaken' = IF priority[p] = Foreground THEN FALSE ELSE fgTaken
      /\ UNCHANGED <<list, pstate, priority, auxPriority, current, priorityQuantum,
                     nextPid, firstProcess, torn>>
  BY <1>0 DEF LowerFlag, FlagAfterExit
<1>3. exitAt \in [Pids -> {"no", "lowered", "found", "marked", "freed"}]
  BY DEF Inv, TypeOK
<1>4. exitAt'[p] = "lowered" /\ \A x \in Pids : x # p => exitAt'[x] = exitAt[x]
  BY <1>2, <1>3
<1>5. TypeOK'
  <2>1. "lowered" \in {"no", "lowered", "found", "marked", "freed"}
    OBVIOUS
  <2>2. exitAt' \in [Pids -> {"no", "lowered", "found", "marked", "freed"}]
    BY <1>2, <1>3, <2>1
  <2> QED BY <1>2, <2>2 DEF Inv, TypeOK
<1>6. ListIsAlive' /\ ExitsRight'
  <2>1. \A x : Listed(x)' <=> Listed(x)
    BY <1>2 DEF Listed
  <2> QED BY <1>1, <1>2, <1>4, <2>1, Zenon
          DEF Inv, ListIsAlive, ExitsRight
<1>7. ForegroundFlag'
  <2>1. \A x \in Pids : HasForeground(x)' <=> HasForeground(x) /\ x # p
    BY <1>2, <1>4 DEF HasForeground, Listed
  <2>2. HasForeground(p) <=> p # Shell /\ priority[p] = Foreground
    BY <1>1 DEF HasForeground
  <2>3. fgTaken' = IF HasForeground(p) THEN FALSE ELSE fgTaken
    BY <1>1, <1>2, <2>2
  <2> QED BY <2>1, <2>3, FlagAfter
<1> QED BY <1>1, <1>2, <1>5, <1>6, <1>7, InvStill

\* Lines 262 to 275 up to the unlinking: marked once exitAt says so.
LEMMA InvExitStep ==
  ASSUME Inv, NEW from \in {"lowered", "found", "marked"},
         NEW to \in {"found", "marked", "freed"}, Exiting(from),
         exitAt' = [exitAt EXCEPT ![current] = to],
         pstate' = IF to = "marked" THEN [pstate EXCEPT ![current] = Exited] ELSE pstate,
         to = "found" => from = "lowered", to = "freed" => from = "marked",
         UNCHANGED <<list, priority, auxPriority, current, fgTaken, priorityQuantum,
                     nextPid, firstProcess, torn>>
  PROVE  Inv'
<1>0. PICK p \in Pids : p = current
  BY DEF Exiting
<1>1. Listed(p) /\ ~firstProcess /\ exitAt[p] = from /\ from # "no"
  BY <1>0 DEF Exiting, Inv, ExitsRight, Started, NULL, Pids
<1>2. /\ exitAt \in [Pids -> {"no", "lowered", "found", "marked", "freed"}]
      /\ pstate \in [Pids -> {Blocked, Ready, Exited}]
  BY DEF Inv, TypeOK
<1>3. /\ exitAt'[p] = to /\ to # "no"
      /\ \A x \in Pids : x # p => exitAt'[x] = exitAt[x] /\ pstate'[x] = pstate[x]
      /\ pstate'[p] = IF to = "marked" THEN Exited ELSE pstate[p]
  BY <1>0, <1>2
<1>4. TypeOK'
  <2>1. /\ exitAt' = [exitAt EXCEPT ![p] = to]
        /\ to \in {"no", "lowered", "found", "marked", "freed"}
    BY <1>0
  <2>2. exitAt' \in [Pids -> {"no", "lowered", "found", "marked", "freed"}]
    BY <1>2, <2>1
  <2>3. pstate' \in [Pids -> {Blocked, Ready, Exited}]
    <3>1. Exited \in {Blocked, Ready, Exited}
      OBVIOUS
    <3> QED BY <1>2, <3>1
  <2> QED BY <2>2, <2>3 DEF Inv, TypeOK
<1>5. from = "lowered" \/ from = "found" \/ from = "marked"
  OBVIOUS
<1>6. from = "marked" => pstate[p] = Exited
  BY <1>1 DEF Inv, ExitsRight
<1>7. /\ Listed(p) <=> p < nextPid /\ (pstate[p] # Exited \/ from \in {"marked", "freed"})
  BY <1>1 DEF Inv, ListIsAlive
<1>8. ExitsRight' /\ ListIsAlive'
  <2>1. \A x : Listed(x)' <=> Listed(x)
    BY DEF Listed
  <2>2. \A x \in Pids : /\ exitAt'[x] # "no" => Listed(x)'
                        /\ exitAt'[x] \in {"marked", "freed"} => pstate'[x] = Exited
    BY <1>1, <1>3, <1>5, <1>6, <2>1 DEF Inv, ExitsRight
  <2>3. \A x \in Pids : Listed(x)' <=>
          x < nextPid' /\ (pstate'[x] # Exited \/ exitAt'[x] \in {"marked", "freed"})
    <3> TAKE x \in Pids
    <3>1. CASE x = p
      BY <1>1, <1>3, <1>5, <1>6, <1>7, <2>1, <3>1
    <3>2. CASE x # p
      BY <1>3, <2>1, <3>2 DEF Inv, ListIsAlive
    <3> QED BY <3>1, <3>2
  <2> QED BY <2>2, <2>3 DEF Inv, ListIsAlive, ExitsRight
<1>9. ForegroundFlag'
  <2>1. \A x \in Pids : HasForeground(x)' <=> HasForeground(x)
    BY <1>1, <1>3 DEF HasForeground, Listed
  <2> QED BY <2>1, FlagKept
<1> QED BY <1>1, <1>4, <1>8, <1>9, InvStill

LEMMA InvExitSteps == Inv /\ (FindNode \/ MarkExited \/ FreeNode) => Inv'
<1> SUFFICES ASSUME Inv, FindNode \/ MarkExited \/ FreeNode PROVE Inv'
  OBVIOUS
<1>1. CASE FindNode
  BY <1>1, InvExitStep DEF FindNode
<1>2. CASE MarkExited
  BY <1>2, InvExitStep DEF MarkExited
<1>3. CASE FreeNode
  BY <1>3, InvExitStep DEF FreeNode
<1> QED BY <1>1, <1>2, <1>3

LEMMA InvTear == Inv /\ Tear => Inv'
<1> SUFFICES ASSUME Inv, Tear PROVE Inv'
  OBVIOUS
<1>1. /\ UNCHANGED <<list, pstate, priority, auxPriority, current, fgTaken,
                     priorityQuantum, nextPid, firstProcess, exitAt>>
      /\ torn' = TRUE
  BY DEF Tear
<1>2. ~firstProcess
  BY RunningFacts DEF Tear, Exiting, Inv, Started, NULL, Pids
<1>3. TypeOK'
  BY <1>1 DEF Inv, TypeOK
<1>4. \A p \in Pids : (pstate'[p] = Exited) <=> (pstate[p] = Exited)
  BY <1>1
<1>5. ListIsAlive' /\ ForegroundFlag' /\ ExitsRight'
  BY <1>1, <1>4, SameProcesses
<1> QED BY <1>1, <1>2, <1>3, <1>5, InvStill

LEMMA InvChangePriority ==
  ASSUME NEW p \in Pids, NEW pr \in NicePriorities
  PROVE  Inv /\ ChangeProcessPriority(p, pr) => Inv'
<1> SUFFICES ASSUME Inv, ChangeProcessPriority(p, pr) PROVE Inv'
  OBVIOUS
<1> DEFINE l == Unlink(list, p)
<1>0. /\ list \in Seq(Pids) /\ Distinct(list) /\ ToSet(list) \subseteq Pids
      /\ p \in ToSet(list) /\ p # list[1] /\ p # Shell
      /\ priority \in [Pids -> 0..10] /\ auxPriority \in [Pids -> 0..10]
      /\ pr \in 1..10 /\ pr \in 0..10 /\ pr # Foreground
      /\ ~firstProcess /\ current \in Pids /\ Listed(current)
  BY RunningFacts, ToSetFacts, NiceAssumption
  DEF Inv, TypeOK, ListIsAlive, Distinct, Listed, ChangeProcessPriority, Foreground, Shell
<1>1. /\ l \in Seq(Pids) /\ Distinct(l) /\ ToSet(l) = ToSet(list) \ {p}
      /\ l # <<>> /\ l[1] = list[1]
  BY <1>0, UnlinkFacts
<1>2. p \notin ToSet(l) /\ ToSet(l) \subseteq Pids /\ list' = Link(l, p, pr)
      /\ priority' = [priority EXCEPT ![p] = pr]
      /\ auxPriority' = [auxPriority EXCEPT ![p] = pr]
  BY <1>0, <1>1 DEF ChangeProcessPriority
<1>3. /\ list' \in Seq(Pids) /\ Distinct(list')
      /\ ToSet(list') = ToSet(l) \union {p}
      /\ list'[1] = l[1]
  <2> HIDE DEF l
  <2>1. /\ Link(l, p, pr) \in Seq(Pids)
        /\ Distinct(Link(l, p, pr))
        /\ ToSet(Link(l, p, pr)) = ToSet(l) \union {p}
        /\ Link(l, p, pr)[1] = l[1]
    <3>1. l \in Seq(Pids) /\ Distinct(l) /\ l # <<>> /\ p \notin ToSet(l)
      BY <1>1, <1>2
    <3>2. priority \in [Pids -> 0..10] /\ pr \in 0..10 /\ p \in Pids
      BY <1>0
    <3> QED BY <3>1, <3>2, LinkFacts, ZenonT(60)
  <2> QED BY <1>2, <2>1, Zenon
<1>4. ToSet(list') = ToSet(list) /\ list'[1] = list[1]
  BY <1>0, <1>1, <1>3
<1>5. \A x : Listed(x)' <=> Listed(x)
  <2>1. \A x : Listed(x)' <=> x \in ToSet(list')
    BY DEF Listed
  <2> QED BY <1>4, <2>1 DEF Listed
<1>6. \A x \in Pids : /\ x # p => priority'[x] = priority[x] /\ auxPriority'[x] = auxPriority[x]
                      /\ priority'[p] = pr /\ auxPriority'[p] = pr
  BY <1>0, <1>2
<1>7. TypeOK'
  BY <1>0, <1>2, <1>3 DEF Inv, TypeOK, ChangeProcessPriority
<1>8. ListIsAlive'
  <2>1. \A x \in Pids : Listed(x)' <=>
          x < nextPid' /\ (pstate'[x] # Exited \/ exitAt'[x] \in {"marked", "freed"})
    BY <1>5 DEF Inv, ListIsAlive, ChangeProcessPriority
  <2> QED BY <1>3, <2>1 DEF ListIsAlive, Distinct
<1>9. CurrentIsLive' /\ Started'
  <2>1. current' = current /\ firstProcess' = firstProcess
    BY DEF ChangeProcessPriority
  <2>2. Listed(current)'
    BY <1>0, <1>4, <2>1 DEF Listed
  <2> QED BY <1>0, <2>1, <2>2 DEF CurrentIsLive, Started, NULL, Pids
<1>10. ShellIsHead'
  BY <1>4, <1>5 DEF Inv, ShellIsHead
<1>11. PrioritiesSet' /\ AgeingBounded'
  <2>1. \A x \in Pids : Listed(x)' =>
          priority'[x] \in 1..10 /\ auxPriority'[x] \in 1..priority'[x]
    <3> TAKE x \in Pids
    <3> HAVE Listed(x)'
    <3>1. CASE x = p
      BY <3>1, <1>0, <1>6
    <3>2. CASE x # p
      BY <3>2, <1>5, <1>6 DEF Inv, PrioritiesSet, AgeingBounded
    <3> QED BY <3>1, <3>2
  <2>2. Listed(Shell)' => Shell \in Pids /\ Listed(Shell) /\ Shell # p
    BY <1>0, <1>5 DEF Listed
  <2>3. Listed(Shell)' => priority'[Shell] = Foreground
    BY <1>6, <2>2 DEF Inv, PrioritiesSet
  <2> QED BY <2>1, <2>3 DEF PrioritiesSet, AgeingBounded
<1>12. ForegroundFlag' /\ ExitsRight'
  <2>1. \A x \in Pids : HasForeground(x)' <=> HasForeground(x)
    <3>1. exitAt' = exitAt /\ (priority[p] = Foreground => exitAt[p] # "no")
      BY DEF ChangeProcessPriority
    <3> QED BY <1>0, <1>5, <1>6, <3>1 DEF HasForeground
  <2>2. fgTaken' = fgTaken /\ exitAt' = exitAt /\ pstate' = pstate
    BY DEF ChangeProcessPriority
  <2>3. ExitsRight'
    BY <1>5, <2>2 DEF Inv, ExitsRight
  <2> QED BY <2>1, <2>2, <2>3, FlagKept
<1>13. SortedBehindShell'
  <2> SUFFICES ASSUME Listed(Shell)' PROVE Sorted(list', priority')
    BY DEF SortedBehindShell, Sorted
  <2>1. Listed(Shell)
    BY <1>5
  <2>2. Sorted(list, priority)
    BY <2>1 DEF Inv, SortedBehindShell, Sorted
  <2>3. Sorted(l, priority)
    BY <1>0, <2>2, UnlinkSorted
  <2>4. priority[l[1]] = 1
    BY <1>1, <2>1, <1>0 DEF Inv, ShellIsHead, PrioritiesSet, Foreground, Listed
  <2> HIDE DEF l
  <2> QED BY <1>0, <1>1, <1>2, <2>3, <2>4, LinkSorted
<1> QED BY <1>7, <1>8, <1>9, <1>10, <1>11, <1>12, <1>13 DEF Inv

LEMMA InvNext == Inv /\ [Next]_vars => Inv'
<1> SUFFICES ASSUME Inv, [Next]_vars PROVE Inv'
  OBVIOUS
<1>1. CASE FirstSwitch
  BY <1>1, InvFirstSwitch
<1>2. CASE Tick
  BY <1>2, InvTick
<1>3. CASE \E pr \in {Foreground, Background} : CreateProcess(pr)
  BY <1>3, InvCreate
<1>4. CASE Exit
  BY <1>4, InvExit
<1>5. CASE \E p \in Pids : KillPid(p)
  BY <1>5, InvKill
<1>6. CASE \E p \in Pids, pr \in NicePriorities : ChangeProcessPriority(p, pr)
  BY <1>6, InvChangePriority
<1>7. CASE \E p \in Pids : ToggleState(p)
  BY <1>7, InvToggle
<1>8. CASE BlockAndSwitch
  BY <1>8, InvBlockAndSwitch
<1>9. CASE BlockCurrentProcess
  BY <1>9, InvBlockCurrent
<1>10. CASE \E p \in Pids : Wake(p)
  BY <1>10, InvWake
<1>12. CASE LowerFlag
  BY <1>12, InvLowerFlag
<1>13. CASE FindNode \/ MarkExited \/ FreeNode
  BY <1>13, InvExitSteps
<1>14. CASE Unlinked
  BY <1>14, InvUnlinked
<1>15. CASE Tear
  BY <1>15, InvTear
<1>11. CASE UNCHANGED vars
  <2>1. UNCHANGED <<list, pstate, priority, auxPriority, current, fgTaken,
                    priorityQuantum, nextPid, firstProcess, exitAt, torn>>
    BY <1>11 DEF vars
  <2>2. /\ ListIsAlive' /\ ShellIsHead' /\ ForegroundFlag' /\ SortedBehindShell'
        /\ PrioritiesSet' /\ ExitsRight'
    BY <2>1, SameProcesses
  <2>3. TypeOK'
    BY <2>1 DEF Inv, TypeOK
  <2>4. CurrentIsLive' /\ Started' /\ AgeingBounded'
    BY <2>1 DEF Inv, CurrentIsLive, Started, AgeingBounded, Listed
  <2> QED BY <2>2, <2>3, <2>4 DEF Inv
<1> QED BY <1>1, <1>2, <1>3, <1>4, <1>5, <1>6, <1>7, <1>8, <1>9, <1>10, <1>11, <1>12,
           <1>13, <1>14, <1>15 DEF Next

\* A switch on the unchanged list dispatches an eligible process.
LEMMA DispatchOnList ==
  ASSUME Inv, NEW ps \in [Pids -> {Blocked, Ready, Exited}],
         SwitchProcess(list, After(list, current), ps, auxPriority, fgTaken),
         pstate' = ps, UNCHANGED <<list, fgTaken>>
  PROVE  Dispatched
<1>1. \/ current' = Dummy
      \/ Listed(current') /\ ps[current'] = Ready /\ ~(fgTaken /\ current' = Shell)
  BY SwitchOnList
<1>2. CASE current' = Dummy
  BY <1>2 DEF Dispatched
<1>3. CASE current' # Dummy
  <2>1. ToSet(list) \subseteq Pids /\ current' \in ToSet(list)
    BY <1>1, <1>3, ToSetFacts DEF Inv, TypeOK, Listed
  <2>2. PICK x \in Pids : x = current'
    BY <2>1
  <2>3. x \in ToSet(list) /\ ps[x] = Ready /\ ~(fgTaken /\ x = Shell)
    BY <1>1, <1>3, <2>1, <2>2
  <2>4. Listed(x)' /\ pstate'[x] = Ready /\ fgTaken' = fgTaken
    BY <2>3 DEF Listed
  <2> QED BY <2>2, <2>3, <2>4 DEF Dispatched, Eligible
<1> QED BY <1>2, <1>3

LEMMA DispatchStep ==
  ASSUME Inv, [Next]_vars, priorityQuantum' # priorityQuantum
  PROVE  Dispatched
<1>1. CASE Tick
  <2>1. pstate \in [Pids -> {Blocked, Ready, Exited}]
    BY DEF Inv, TypeOK
  <2> QED BY <1>1, <2>1, DispatchOnList DEF Tick
<1>2. CASE Exit
  BY <1>2, InvExit
<1>3. CASE BlockAndSwitch
  <2> DEFINE ps == [pstate EXCEPT ![current] = Blocked]
  <2>1. ps \in [Pids -> {Blocked, Ready, Exited}]
    BY DEF Inv, TypeOK
  <2>2. /\ SwitchProcess(list, After(list, current), ps, auxPriority, fgTaken)
        /\ pstate' = ps /\ UNCHANGED <<list, fgTaken>>
    BY <1>3 DEF BlockAndSwitch
  <2> HIDE DEF ps
  <2> QED BY <2>1, <2>2, DispatchOnList
<1>4. CASE Unlinked
  BY <1>4, InvUnlinked
<1> QED BY <1>1, <1>2, <1>3, <1>4 DEF Next, vars, FirstSwitch, CreateProcess, KillPid,
           ChangeProcessPriority, ToggleState, BlockCurrentProcess, Wake, LowerFlag,
           FindNode, MarkExited, FreeNode, Tear

-----------------------------------------------------------------------------
(* Why the idle process is dispatched                                      *)

\* The shell that must wait.
Waits(p, fg) == fg /\ p = Shell

\* What the second scan knows of the first k nodes: its candidate x is not a shell
\* that must wait, and a ready node that it passed over is no better than x, or a
\* node that is not ready has hidden it.
ScanKnows(x, k, l, ps, ap, fg) ==
  /\ k > 0 => ~Waits(x, fg)
  /\ \A i \in 1..k : ps[l[i]] = Ready /\ ~Waits(l[i], fg) =>
       \/ x \in ToSet(l) /\ ps[x] = Ready /\ ap[x] <= ap[l[i]]
       \/ \E q \in ToSet(l) : ps[q] # Ready /\ ap[q] < ap[l[i]]

\* One turn of the second loop (lines 219-236) keeps this, for the shell can only be
\* the head.
LEMMA FirstMinStepKnows ==
  ASSUME NEW l \in Seq(Pids), Distinct(l), Shell \in ToSet(l) => l[1] = Shell,
         NEW ps, NEW ap \in [Pids -> 0..10], NEW fg \in BOOLEAN,
         NEW k \in 1..Len(l), NEW x \in ToSet(l),
         ScanKnows(x, k-1, l, ps, ap, fg), k = 1 => x = l[1]
  PROVE  ScanKnows(FirstMinStep(x, k, l, ps, ap, fg), k, l, ps, ap, fg)
<1> DEFINE y == FirstMinStep(x, k, l, ps, ap, fg)
<1>1. /\ Len(l) \in Nat /\ k \in Nat /\ ToSet(l) \subseteq Pids
      /\ \A i \in 1..Len(l) : l[i] \in ToSet(l)
      /\ \A q \in ToSet(l) : q \in Pids /\ ap[q] \in Int
      /\ \A i \in 1..Len(l) : l[i] = Shell => i = 1
  <2>1. ToSet(l) \subseteq Pids /\ \A i \in 1..Len(l) : l[i] \in ToSet(l)
    BY ToSetFacts
  <2>2. \A i \in 1..Len(l) : l[i] = Shell => i = 1
    <3>1. 1..Len(l) # {} => 1 \in 1..Len(l)
      OBVIOUS
    <3> QED BY <2>1, <3>1 DEF Distinct
  <2> QED BY <2>1, <2>2
<1>2. \A i \in 1..k : i \in 1..(k-1) \/ i = k
  BY <1>1
<1>3. CASE Waits(l[k], fg)
  <2>1. k = 1 /\ x = Shell
    BY <1>1, <1>3 DEF Waits
  <2>2. y = IF 1 < Len(l) THEN l[2] ELSE NULL
    BY <1>3, <2>1 DEF FirstMinStep, Waits
  <2>3. ~Waits(y, fg)
    BY <1>1, <2>2 DEF Waits, NULL, Shell
  <2> HIDE DEF y
  <2>4. \A i \in 1..k : i = k
    BY <2>1
  <2> QED BY <1>3, <2>3, <2>4 DEF ScanKnows, y
<1>4. CASE ~Waits(l[k], fg)
  <2>1. ~Waits(x, fg)
    <3>1. CASE k = 1
      BY <1>4, <3>1
    <3>2. CASE k # 1
      BY <1>1, <3>2 DEF ScanKnows
    <3> QED BY <3>1, <3>2
  <2> DEFINE c == IF ps[x] # Ready THEN l[k] ELSE x
  <2>2. y = IF ap[l[k]] < ap[c] /\ ps[c] = Ready THEN l[k] ELSE c
    BY <1>4 DEF FirstMinStep, Waits
  <2>3. l[k] \in ToSet(l) /\ ap[l[k]] \in Int /\ ap[x] \in Int
    BY <1>1
  <2>4. y = l[k] \/ y = x
    BY <2>2
  <2>5. \/ y = l[k] /\ ps[x] # Ready
        \/ y = l[k] /\ ps[x] = Ready /\ ap[l[k]] < ap[x]
        \/ y = x /\ ps[x] = Ready /\ ap[x] <= ap[l[k]]
    BY <2>2, <2>3
  <2> HIDE DEF y, c
  <2>6. y \in ToSet(l) /\ ~Waits(y, fg)
    BY <1>4, <2>1, <2>3, <2>4
  <2>7. ASSUME NEW i \in 1..k, ps[l[i]] = Ready, ~Waits(l[i], fg)
        PROVE  \/ ps[y] = Ready /\ ap[y] <= ap[l[i]]
               \/ \E q \in ToSet(l) : ps[q] # Ready /\ ap[q] < ap[l[i]]
    <3>1. ap[l[i]] \in Int
      BY <1>1
    <3>2. CASE i = k
      BY <2>3, <2>5, <2>7, <3>2
    <3>3. CASE i \in 1..(k-1)
      <4>1. \/ ps[x] = Ready /\ ap[x] <= ap[l[i]]
            \/ \E q \in ToSet(l) : ps[q] # Ready /\ ap[q] < ap[l[i]]
        BY <2>7, <3>3 DEF ScanKnows
      <4>2. CASE ps[x] = Ready /\ ap[x] <= ap[l[i]]
        <5>1. CASE y = x
          BY <4>2, <5>1
        <5>2. CASE y = l[k] /\ ap[l[k]] < ap[x]
          <6>1. ap[y] < ap[l[i]]
            BY <2>3, <3>1, <4>2, <5>2
          <6>2. ap[y] <= ap[l[i]]
            BY <2>3, <3>1, <5>2, <6>1
          <6> QED BY <2>6, <6>1, <6>2
        <5> QED BY <2>5, <4>2, <5>1, <5>2
      <4> QED BY <4>1, <4>2
    <3> QED BY <1>2, <3>2, <3>3
  <2> QED BY <2>6, <2>7 DEF ScanKnows, y
<1> QED BY <1>3, <1>4

\* So the second scan knows of all the nodes in front of the current one.
LEMMA FirstMinKnows ==
  ASSUME NEW l \in Seq(Pids), l # <<>>, Distinct(l), Shell \in ToSet(l) => l[1] = Shell,
         NEW ps, NEW ap \in [Pids -> 0..10], NEW fg \in BOOLEAN, NEW p
  PROVE  LET m == FirstMinReadyProcess(l, p, ps, ap, fg)
             n == Position(l, p) - 1
         IN  /\ ScanKnows(m, n, l, ps, ap, fg)
             /\ m \in ToSet(l) \/ (n = Len(l) /\ m = NULL)
             /\ n = 0 => m = l[1]
<1> DEFINE scan == FirstMinScan(l, p, ps, ap, fg)
           n == Position(l, p) - 1
           Ok(k) == /\ scan[k] \in ToSet(l) \/ (k = Len(l) /\ scan[k] = NULL)
                    /\ ScanKnows(scan[k], k, l, ps, ap, fg)
           Bad == {k \in Nat : k \in 0..n /\ ~Ok(k)}
<1>0. Len(l) \in Nat /\ Len(l) >= 1 /\ n \in 0..Len(l)
  BY PositionFacts
<1>1. \A i \in 0..n :
        scan[i] = IF i = 0 THEN l[1] ELSE FirstMinStep(scan[i-1], i, l, ps, ap, fg)
  BY <1>0, FirstMinScanUnfolds DEF IsFirstMinScan
<1>2. \A i \in 1..Len(l) : l[i] \in ToSet(l)
  BY ToSetFacts
<1> HIDE DEF scan, n
<1>3. scan[0] = l[1] /\ l[1] \in ToSet(l)
  BY <1>0, <1>1, <1>2
<1>4. Bad = {}
  <2> SUFFICES ASSUME Bad # {} PROVE FALSE
    OBVIOUS
  <2>1. PICK m \in Bad : \A k \in Bad : m <= k
    BY LeastNatural
  <2>2. CASE m = 0
    <3>1. ScanKnows(scan[0], 0, l, ps, ap, fg)
      BY DEF ScanKnows
    <3> QED BY <1>3, <2>1, <2>2, <3>1
  <2>3. CASE m # 0
    <3>1. m \in 1..n /\ m-1 \in Nat /\ m-1 \in 0..n /\ m-1 \notin Bad
      BY <1>0, <2>1, <2>3
    <3>2. m \in 1..Len(l) /\ (m < Len(l) => m+1 \in 1..Len(l)) /\ m-1 # Len(l)
      BY <1>0, <3>1
    <3>3. scan[m-1] \in ToSet(l) /\ ScanKnows(scan[m-1], m-1, l, ps, ap, fg)
      BY <3>1, <3>2
    <3>4. scan[m] = FirstMinStep(scan[m-1], m, l, ps, ap, fg)
      BY <1>1, <3>1
    <3>5. m = 1 => scan[m-1] = l[1]
      BY <1>3
    <3>6. ScanKnows(scan[m], m, l, ps, ap, fg)
      BY <3>2, <3>3, <3>4, <3>5, FirstMinStepKnows
    <3>7. scan[m] \in ToSet(l) \/ (m = Len(l) /\ scan[m] = NULL)
      BY <1>2, <3>2, <3>3, <3>4 DEF FirstMinStep
    <3> QED BY <2>1, <3>6, <3>7
  <2> QED BY <2>2, <2>3
<1>5. n \in 0..n /\ n \in Nat
  BY <1>0
<1>6. Ok(n) /\ (n = 0 => scan[n] = l[1])
  BY <1>3, <1>4, <1>5
<1>7. FirstMinReadyProcess(l, p, ps, ap, fg) = scan[n]
  BY DEF FirstMinReadyProcess, scan, n
<1> QED BY <1>6, <1>7 DEF n

\* When the choice is the idle process, a process that might run is behind the current
\* one, which the first scan rules out, is the current one, which would be kept, or is
\* hidden.
LEMMA IdleChosen ==
  ASSUME NEW l \in Seq(Pids), Distinct(l), Shell \in ToSet(l) => l[1] = Shell,
         NEW rest \in Seq(Pids), NEW ps, NEW ap \in [Pids -> 0..10], NEW fg \in BOOLEAN,
         NEW cur \in Pids \union {Dummy},
         \A i \in 1..Len(l) : i < Position(l, cur) \/ l[i] = cur \/ l[i] \in ToSet(rest),
         Choose(NextProcess(rest, ps, ap), FirstMinReadyProcess(l, cur, ps, ap, fg),
                cur, ps, ap, fg) = Dummy,
         NEW p \in ToSet(l), ps[p] = Ready, ~Waits(p, fg)
  PROVE  \E q \in ToSet(l) : ps[q] # Ready /\ ap[q] < ap[p]
<1> DEFINE next == NextProcess(rest, ps, ap)
           first == FirstMinReadyProcess(l, cur, ps, ap, fg)
           n == Position(l, cur) - 1
           min == ShellDropped(Kept(first, cur, ps), fg)
<1>1. PICK i \in 1..Len(l) : p = l[i]
  BY ToSetFacts
<1>2. /\ Len(l) \in Nat /\ l # <<>> /\ n \in 0..Len(l) /\ n + 1 = Position(l, cur)
      /\ cur \in ToSet(l) => n + 1 \in 1..Len(l) /\ l[n+1] = cur
      /\ ToSet(l) \subseteq Pids /\ NULL \notin Pids /\ Dummy \notin Pids /\ Dummy # NULL
  <2>1. /\ cur \in ToSet(l) => Position(l, cur) \in 1..Len(l) /\ l[Position(l, cur)] = cur
        /\ Position(l, cur) \in 1..(Len(l) + 1)
    BY PositionFacts
  <2>2. Len(l) \in Nat /\ l # <<>>
    BY <1>1
  <2>3. n \in 0..Len(l) /\ n + 1 = Position(l, cur)
    BY <2>1, <2>2
  <2>4. ToSet(l) \subseteq Pids
    BY ToSetFacts
  <2>5. NULL \notin Pids /\ Dummy \notin Pids /\ Dummy # NULL
    BY DEF NULL, Dummy, Pids
  <2> HIDE DEF n
  <2> QED BY <2>1, <2>2, <2>3, <2>4, <2>5
<1>3. /\ ScanKnows(first, n, l, ps, ap, fg)
      /\ first \in ToSet(l) \/ (n = Len(l) /\ first = NULL)
      /\ n = 0 => first = l[1]
  BY <1>2, FirstMinKnows
<1>4. /\ next = NULL \/ next \in Pids
      /\ \A x \in ToSet(rest) : ps[x] = Ready => next # NULL /\ ps[next] = Ready
  <2>1. CASE rest = <<>>
    BY <2>1 DEF NextProcess, ToSet
  <2>2. CASE rest # <<>>
    <3>1. ap \in [Pids -> Int]
      <4>1. 0..10 \subseteq Int
        OBVIOUS
      <4> QED BY <4>1
    <3>2. IsFirstMin(next, Len(rest), rest, ps, ap)
      BY <2>2, <3>1, NextProcessCorrect
    <3> HIDE DEF next
    <3>3. \A j \in 1..Len(rest) : rest[j] \in Pids
      OBVIOUS
    <3>4. \A x \in ToSet(rest) : \E j \in 1..Len(rest) : x = rest[j]
      BY ToSetFacts
    <3>5. next \in Pids
      BY <3>2, <3>3 DEF IsFirstMin
    <3>6. \A x \in ToSet(rest) : ps[x] = Ready => ps[next] = Ready
      BY <3>2, <3>4 DEF IsFirstMin
    <3> QED BY <1>2, <3>5, <3>6
  <2> QED BY <2>1, <2>2
<1>5. min \in Pids \union {NULL}
  BY <1>2, <1>3 DEF ShellDropped, Kept
<1>6. ~(next # NULL /\ ps[next] = Ready) /\ ~(min # NULL /\ ps[min] = Ready)
  <2> HIDE DEF next, min
  <2>1. next # Dummy /\ min # Dummy
    BY <1>2, <1>4, <1>5
  <2> QED BY <2>1 DEF Choose, min, first, next
<1> HIDE DEF next, first, n
<1>7. l[i] \notin ToSet(rest)
  BY <1>1, <1>4, <1>6
<1>8. CASE i \in 1..n
  <2>1. \/ first \in ToSet(l) /\ ps[first] = Ready
        \/ \E q \in ToSet(l) : ps[q] # Ready /\ ap[q] < ap[p]
    BY <1>1, <1>3, <1>8 DEF ScanKnows
  <2>2. ASSUME first \in ToSet(l), ps[first] = Ready PROVE FALSE
    <3>1. ~Waits(first, fg)
      BY <1>2, <1>3, <1>8 DEF ScanKnows
    <3>2. min = first
      BY <2>2, <3>1 DEF ShellDropped, Kept, Waits
    <3> QED BY <1>2, <1>6, <2>2, <3>2
  <2> QED BY <2>1, <2>2
<1>9. CASE p = cur
  <2>1. first \in ToSet(l) /\ first # NULL
    BY <1>2, <1>3, <1>9
  <2>2. CASE ps[first] # Ready
    <3>1. min = cur
      BY <1>2, <1>9, <2>1, <2>2 DEF ShellDropped, Kept, Waits
    <3> QED BY <1>2, <1>6, <1>9, <3>1
  <2>3. CASE ps[first] = Ready
    <3>1. ~Waits(first, fg)
      <4>1. CASE n = 0
        BY <1>2, <1>3, <1>9, <4>1
      <4>2. CASE n # 0
        BY <1>2, <1>3, <4>2 DEF ScanKnows
      <4> QED BY <4>1, <4>2
    <3>2. min = first
      BY <2>3, <3>1 DEF ShellDropped, Kept, Waits
    <3> QED BY <1>6, <2>1, <2>3, <3>2
  <2> QED BY <2>2, <2>3
<1>10. i \in 1..n \/ p = cur
  BY <1>1, <1>2, <1>7
<1> QED BY <1>8, <1>9, <1>10

\* A node of l that is not ready hides p.
HidesIn(l, ps, ap, p) == \E q \in ToSet(l) : ps[q] # Ready /\ ap[q] < ap[p]

\* Every node of l is in front of cur, is cur, or is in rest.
Covered(l, rest, cur) ==
  \A i \in 1..Len(l) : i < Position(l, cur) \/ l[i] = cur \/ l[i] \in ToSet(rest)

\* A switch to the idle process, for every handler that ends in one.
LEMMA IdleSwitched ==
  ASSUME NEW l \in Seq(Pids), Distinct(l), Shell \in ToSet(l) => l[1] = Shell,
         NEW rest \in Seq(Pids), NEW ps, NEW ap \in [Pids -> 0..10], NEW fg \in BOOLEAN,
         current \in Pids \union {Dummy}, Covered(l, rest, current),
         SwitchProcess(l, rest, ps, ap, fg), current' = Dummy,
         NEW p \in ToSet(l), ps[p] = Ready, ~Waits(p, fg)
  PROVE  HidesIn(l, ps, auxPriority', p)
<1> DEFINE aged == IF priorityQuantum = 0 THEN Aged(l, ps, ap) ELSE ap
<1>1. /\ Choose(NextProcess(rest, ps, aged), FirstMinReadyProcess(l, current, ps, aged, fg),
                current, ps, aged, fg) = Dummy
      /\ auxPriority' = aged
  BY DEF SwitchProcess
<1>2. aged \in [Pids -> 0..10]
  BY DEF Aged
<1> HIDE DEF aged
<1>3. PICK cur \in Pids \union {Dummy} : cur = current
  OBVIOUS
<1>4. \E q \in ToSet(l) : ps[q] # Ready /\ aged[q] < aged[p]
  <2>1. \A i \in 1..Len(l) : i < Position(l, cur) \/ l[i] = cur \/ l[i] \in ToSet(rest)
    BY <1>3 DEF Covered
  <2>2. Choose(NextProcess(rest, ps, aged), FirstMinReadyProcess(l, cur, ps, aged, fg),
               cur, ps, aged, fg) = Dummy
    BY <1>1, <1>3
  <2> QED BY <1>2, <2>1, <2>2, IdleChosen
<1> QED BY <1>1, <1>4 DEF HidesIn

\* Every node is in front of p, is p, or hangs from it.
LEMMA AfterCovers ==
  ASSUME NEW l \in Seq(Pids), Distinct(l), NEW p
  PROVE  \A i \in 1..Len(l) : i < Position(l, p) \/ l[i] = p \/ l[i] \in ToSet(After(l, p))
<1> DEFINE k == Position(l, p)
           b == After(l, p)
<1>0. Len(l) \in Nat /\ k \in 1..(Len(l) + 1) /\ (k \in 1..Len(l) => l[k] = p)
  BY PositionFacts
<1>1. \A i \in (k+1)..Len(l) : l[i] \in Pids
  BY <1>0
<1>2. /\ b \in Seq(Pids)
      /\ Len(b) = IF k+1 <= Len(l) THEN Len(l) - (k+1) + 1 ELSE 0
      /\ \A i \in 1..(Len(l) - (k+1) + 1) : b[i] = l[(k+1)+i-1]
  BY <1>0, <1>1, SubSeqProperties DEF After
<1> HIDE DEF b, k
<1>3. ASSUME NEW i \in 1..Len(l), i > k PROVE l[i] \in ToSet(b)
  <2>1. i - k \in 1..(Len(l) - (k+1) + 1) /\ (k+1) + (i-k) - 1 = i /\ i - k \in 1..Len(b)
    BY <1>0, <1>2, <1>3
  <2>2. b[i-k] = l[(k+1) + (i-k) - 1]
    BY <1>2, <2>1
  <2> QED BY <1>2, <2>1, <2>2, ToSetFacts
<1>4. ASSUME NEW i \in 1..Len(l) PROVE i < k \/ l[i] = p \/ l[i] \in ToSet(b)
  BY <1>0, <1>3
<1> QED BY <1>4 DEF b, k

\* What IdleIsExplained says of a switch.
Hidden ==
  current' = Dummy =>
    \A p \in Pids : Eligible(p)' =>
      \E q \in Pids : Listed(q)' /\ pstate'[q] # Ready /\ auxPriority'[q] < auxPriority'[p]

\* The same, of a switch that leaves the list list'.
LEMMA HiddenBy ==
  ASSUME list' \in Seq(Pids),
         \A p \in ToSet(list') : pstate'[p] = Ready /\ ~Waits(p, fgTaken') =>
           \E q \in ToSet(list') : pstate'[q] # Ready /\ auxPriority'[q] < auxPriority'[p]
  PROVE  \A p \in Pids : Eligible(p)' =>
           \E q \in Pids : Listed(q)' /\ pstate'[q] # Ready
                           /\ auxPriority'[q] < auxPriority'[p]
<1> SUFFICES ASSUME NEW p \in Pids, Eligible(p)'
             PROVE  \E q \in Pids : Listed(q)' /\ pstate'[q] # Ready
                                    /\ auxPriority'[q] < auxPriority'[p]
  OBVIOUS
<1>1. p \in ToSet(list') /\ pstate'[p] = Ready /\ ~Waits(p, fgTaken')
  BY DEF Eligible, Listed, Waits
<1>2. PICK q \in ToSet(list') : pstate'[q] # Ready /\ auxPriority'[q] < auxPriority'[p]
  BY <1>1
<1>3. q \in Pids /\ Listed(q)'
  BY <1>2, ToSetFacts DEF Listed
<1> QED BY <1>2, <1>3

\* A switch on the unchanged list, in Tick and BlockAndSwitch.
LEMMA HiddenOnList ==
  ASSUME Inv, NEW ps \in [Pids -> {Blocked, Ready, Exited}],
         SwitchProcess(list, After(list, current), ps, auxPriority, fgTaken),
         pstate' = ps, UNCHANGED <<list, fgTaken>>
  PROVE  Hidden
<1> SUFFICES ASSUME current' = Dummy
             PROVE  \A p \in Pids : Eligible(p)' =>
                      \E q \in Pids : Listed(q)' /\ pstate'[q] # Ready
                                      /\ auxPriority'[q] < auxPriority'[p]
  BY DEF Hidden
<1> DEFINE rest == After(list, current)
<1>1. /\ list \in Seq(Pids) /\ Distinct(list) /\ auxPriority \in [Pids -> 0..10]
      /\ fgTaken \in BOOLEAN /\ (Shell \in ToSet(list) => list[1] = Shell)
  BY DEF Inv, TypeOK, ListIsAlive, Distinct, ShellIsHead, Listed
<1>2. current \in Pids \union {Dummy}
  BY DEF Inv, TypeOK, SwitchProcess, Started
<1>3. /\ rest \in Seq(Pids)
      /\ Covered(list, rest, current)
  BY <1>1, AfterFacts, AfterCovers DEF Covered
<1>4. SwitchProcess(list, rest, ps, auxPriority, fgTaken)
  OBVIOUS
<1> HIDE DEF rest
<1>5. ASSUME NEW p \in ToSet(list), ps[p] = Ready, ~Waits(p, fgTaken)
      PROVE  \E q \in ToSet(list) : ps[q] # Ready /\ auxPriority'[q] < auxPriority'[p]
  <2>1. HidesIn(list, ps, auxPriority', p)
    BY <1>1, <1>2, <1>3, <1>4, <1>5, IdleSwitched
  <2> QED BY <2>1 DEF HidesIn
<1> QED BY <1>1, <1>5, HiddenBy

\* The switch of a process that ends: it is not in the list any more, and the second
\* scan visits all of it.
LEMMA HiddenAfterExit ==
  ASSUME Inv, Inv', current \in Pids, Listed(current), NEW f, UnlinkAndSwitch(f)
  PROVE  Hidden
<1> SUFFICES ASSUME current' = Dummy
             PROVE  \A p \in Pids : Eligible(p)' =>
                      \E q \in Pids : Listed(q)' /\ pstate'[q] # Ready
                                      /\ auxPriority'[q] < auxPriority'[p]
  BY DEF Hidden
<1> DEFINE l == Unlink(list, current)
           rest == After(list, current)
           ps == [pstate EXCEPT ![current] = Exited]
           ap == [auxPriority EXCEPT ![current] = 0]
<1>1. /\ SwitchProcess(l, rest, ps, ap, fgTaken') /\ list' = l /\ pstate' = ps
  BY DEF UnlinkAndSwitch
<1>2. current \in Pids /\ Listed(current)
  OBVIOUS
<1>3. /\ list \in Seq(Pids) /\ Distinct(list) /\ auxPriority \in [Pids -> 0..10]
  BY DEF Inv, TypeOK, ListIsAlive, Distinct
<1>4. /\ l \in Seq(Pids) /\ Distinct(l) /\ fgTaken' \in BOOLEAN
      /\ (Shell \in ToSet(l) => l[1] = Shell)
  <2> HIDE DEF l
  <2> QED BY <1>1 DEF Inv, TypeOK, ListIsAlive, Distinct, ShellIsHead, Listed
<1>5. rest \in Seq(Pids)
  BY <1>3, AfterFacts
<1>6. current \notin ToSet(l)
  BY <1>2, <1>3, UnlinkFacts DEF Listed
<1>7. ap \in [Pids -> 0..10]
  BY <1>2, <1>3
<1> HIDE DEF l, rest, ps, ap
<1>8. \A i \in 1..Len(l) : i < Position(l, current)
  <2>1. Position(l, current) = Len(l) + 1 /\ Len(l) \in Nat
    BY <1>4, <1>6, PositionFacts
  <2> QED BY <2>1
<1>9. PICK fg \in BOOLEAN : fg = fgTaken'
  BY <1>4
<1>10. ASSUME NEW p \in ToSet(l), ps[p] = Ready, ~Waits(p, fg)
       PROVE  \E q \in ToSet(l) : ps[q] # Ready /\ auxPriority'[q] < auxPriority'[p]
  <2>1. SwitchProcess(l, rest, ps, ap, fg)
    BY <1>1, <1>9
  <2>2. Covered(l, rest, current)
    BY <1>8 DEF Covered
  <2>3. current \in Pids \union {Dummy}
    BY <1>2
  <2>4. HidesIn(l, ps, auxPriority', p)
    BY <1>4, <1>5, <1>7, <1>10, <2>1, <2>2, <2>3, IdleSwitched
  <2> QED BY <2>4 DEF HidesIn
<1> QED BY <1>1, <1>4, <1>9, <1>10, HiddenBy

\* Of the steps that switch.
LEMMA HiddenStep ==
  ASSUME Inv, Inv', [Next]_vars, priorityQuantum' # priorityQuantum
  PROVE  Hidden
<1>1. CASE Tick
  <2>1. pstate \in [Pids -> {Blocked, Ready, Exited}]
    BY DEF Inv, TypeOK
  <2> QED BY <1>1, <2>1, HiddenOnList DEF Tick
<1>2. CASE Exit
  BY <1>2, ExitUnlinks, HiddenAfterExit
<1>4. CASE Unlinked
  BY <1>4, UnlinkedUnlinks, HiddenAfterExit
<1>3. CASE BlockAndSwitch
  <2> DEFINE ps == [pstate EXCEPT ![current] = Blocked]
  <2>1. ps \in [Pids -> {Blocked, Ready, Exited}]
    BY DEF Inv, TypeOK
  <2>2. /\ SwitchProcess(list, After(list, current), ps, auxPriority, fgTaken)
        /\ pstate' = ps /\ UNCHANGED <<list, fgTaken>>
    BY <1>3 DEF BlockAndSwitch
  <2> HIDE DEF ps
  <2> QED BY <2>1, <2>2, HiddenOnList
<1> QED BY <1>1, <1>2, <1>3, <1>4 DEF Next, vars, FirstSwitch, CreateProcess, KillPid,
           ChangeProcessPriority, ToggleState, BlockCurrentProcess, Wake, LowerFlag,
           FindNode, MarkExited, FreeNode, Tear

-----------------------------------------------------------------------------
(* The theorems, for every MaxPid, PRIORITY_QUANTUM and NicePriorities.    *)

\* The inductive invariant holds in every reachable state.
THEOREM Invariance == Spec => []Inv
BY InitInv, InvNext, PTL DEF Spec

\* Every variable keeps its type: effective priorities never leave 0..10, the
\* ageing counter its range, and no handed-out pid exceeds the next one.
THEOREM TypeCorrect == Spec => []TypeOK
<1>1. Inv => TypeOK
  BY DEF Inv
<1> QED BY <1>1, Invariance, PTL

\* No relinking by loadProcess, nice, exit or kill loses or duplicates a process, and
\* beside the processes that have not ended the list holds only those that are, or were
\* preempted, between the marking and the unlinking of an exit with interrupts on.
THEOREM ListCorrect == Spec => []ListIsAlive
<1>1. Inv => ListIsAlive
  BY DEF Inv
<1> QED BY <1>1, Invariance, PTL

\* What runs is the idle process or a node of the list: nobody else unlinks the process
\* that runs, and none that was unlinked, or marked and then preempted, runs again.
THEOREM CurrentCorrect == Spec => []CurrentIsLive
<1>1. Inv => CurrentIsLive
  BY DEF Inv
<1> QED BY <1>1, Invariance, PTL

\* While the shell lives it heads the list, and the list is sorted behind it.
THEOREM SortedCorrect == Spec => [](ShellIsHead /\ SortedBehindShell)
<1>1. Inv => ShellIsHead /\ SortedBehindShell
  BY DEF Inv
<1> QED BY <1>1, Invariance, PTL

\* fgTaken tells whether there is a foreground process that has not begun to exit, and
\* there is at most one, wherever exits with interrupts on are preempted.
THEOREM ForegroundCorrect == Spec => []ForegroundFlag
<1>1. Inv => ForegroundFlag
  BY DEF Inv
<1> QED BY <1>1, Invariance, PTL

\* Ageing never takes an effective priority below 1 or above the nominal one.
THEOREM AgeingCorrect == Spec => []AgeingBounded
<1>1. Inv => AgeingBounded
  BY DEF Inv
<1> QED BY <1>1, Invariance, PTL

\* The first scan of switchProcess returns the first ready node with the least
\* effective priority, whatever the list, the states and the priorities are.
THEOREM NextScanCorrect == Spec => []NextScanIsMinimal
<1>1. Inv => NextScanIsMinimal
  <2> SUFFICES ASSUME Inv PROVE NextScanIsMinimal
    OBVIOUS
  <2> DEFINE s == After(list, current)
             n == NextProcess(s, pstate, auxPriority)
             ready == {i \in 1..Len(s) : pstate[s[i]] = Ready}
  <2>1. s \in Seq(Pids) /\ auxPriority \in [Pids -> Int]
    <3>1. list \in Seq(Pids) /\ Distinct(list)
      BY DEF Inv, TypeOK, ListIsAlive, Distinct
    <3>2. s \in Seq(Pids)
      BY <3>1, AfterFacts
    <3>3. auxPriority \in [Pids -> 0..10]
      BY DEF Inv, TypeOK
    <3> QED BY <3>2, <3>3
  <2>2. ASSUME ready # {}
        PROVE  \E i \in ready :
                 /\ n = s[i]
                 /\ \A j \in ready : /\ auxPriority[s[i]] <= auxPriority[s[j]]
                                     /\ j < i => auxPriority[s[i]] < auxPriority[s[j]]
    <3>1. s # <<>>
      BY <2>2
    <3>2. IsFirstMin(n, Len(s), s, pstate, auxPriority)
      BY <2>1, <3>1, NextProcessCorrect
    <3> HIDE DEF s, n
    <3> QED BY <2>2, <3>2 DEF IsFirstMin
  <2> QED BY <2>2 DEF NextScanIsMinimal
<1> QED BY <1>1, Invariance, PTL

\* Every switch dispatches the idle process, or a ready process of the list that
\* is not the shell while a foreground process exists.
THEOREM DispatchCorrect == Spec => DispatchesEligible
<1>1. Inv /\ [Next]_vars =>
        [priorityQuantum' # priorityQuantum =>
           current' = Dummy \/ \E p \in Pids : p = current' /\ Eligible(p)']_vars
  <2> SUFFICES ASSUME Inv, [Next]_vars, priorityQuantum' # priorityQuantum
               PROVE  current' = Dummy \/ \E p \in Pids : p = current' /\ Eligible(p)'
    OBVIOUS
  <2> QED BY DispatchStep DEF Dispatched
<1> QED BY <1>1, Invariance, PTL DEF Spec, DispatchesEligible

\* The CPU idles although a process might run only when a blocked node of smaller
\* effective priority hides it from the second scan of switchProcess (line 233), with
\* any number of processes.
THEOREM IdleCorrect == Spec => IdleIsExplained
<1>1. Inv /\ Inv' /\ [Next]_vars =>
        [priorityQuantum' # priorityQuantum /\ current' = Dummy
           => \A p \in Pids : Eligible(p)' =>
                \E q \in Pids : /\ Listed(q)' /\ pstate'[q] # Ready
                                /\ auxPriority'[q] < auxPriority'[p]]_vars
  <2> SUFFICES ASSUME Inv, Inv', [Next]_vars, priorityQuantum' # priorityQuantum,
                      current' = Dummy
               PROVE  \A p \in Pids : Eligible(p)' =>
                        \E q \in Pids : /\ Listed(q)' /\ pstate'[q] # Ready
                                        /\ auxPriority'[q] < auxPriority'[p]
    OBVIOUS
  <2> QED BY HiddenStep DEF Hidden
<1> QED BY <1>1, Invariance, PTL DEF Spec, IdleIsExplained
=============================================================================
