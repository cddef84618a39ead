---------------------------- MODULE DeviceProofs ----------------------------
(***************************************************************************)
(* Proofs about the devices: timer, keyboard, screen and disk.             *)
(*                                                                         *)
(* Module Sleep: what its run checks of the timer's queue holds for every  *)
(* number of pcbs, every length of a sleep and of a second in ticks.       *)
(*                                                                         *)
(* Module Terminal: what its runs check of the ring of waiting readers and *)
(* of the line that read edits holds for every ring that has a node for    *)
(* each reader, and for every length of the line.                          *)
(*                                                                         *)
(* Modules Console and Session: what their run checks of the screen and of *)
(* the line on it holds for every size of the screen and of read's buffer, *)
(* and for any words, as long as the user takes back fewer characters than *)
(* the screen keeps when it scrolls.  What a command comes to is only      *)
(* model-checked.                                                          *)
(*                                                                         *)
(* Modules Bmfs and Image: what their run checks of the files on the disk  *)
(* and of the modules in memory holds for every size of the directory, any *)
(* files and any number of runs of bmfs, as long as the layout of the      *)
(* memory leaves the loader's copies apart.                                *)
(***************************************************************************)
EXTENDS Sleep, Terminal, Session, Image, KernelLemmas
-----------------------------------------------------------------------------
(* The timer's queue                                                       *)

\* A queue whose ages may have reached the end of a sleep.
TimerNode == [process : Pcbs, seconds : Seconds, age : Nat, hw : Nat]

\* r is q without expired nodes: at tells where each node of r was.
Thinned(r, q, i, at) ==
  /\ r \in Seq(TimerNode) /\ at \in [1..Len(r) -> 1..i]
  /\ \A m \in 1..Len(r) : r[m] = q[at[m]] /\ ~Expired(r[m])
  /\ \A m, n \in 1..Len(r) : at[m] = at[n] => m = n
  /\ \A j \in 1..i : ~Expired(q[j]) => \E m \in 1..Len(r) : at[m] = j

\* The recursion of Remaining (time.c:40-51).
LEMMA RemainingUnfolds ==
  ASSUME NEW N, NEW q \in Seq(N), Clears(q) = {}
  PROVE  \E kept :
           /\ kept[0] = <<>>
           /\ \A i \in 1..Len(q) :
                kept[i] = IF Expired(q[i]) THEN kept[i-1] ELSE Append(kept[i-1], q[i])
           /\ Remaining(q) = kept[Len(q)]
<1> DEFINE Up(g) == [i \in 0..Len(q) |->
                       IF i = 0 THEN <<>>
                       ELSE IF Expired(q[i]) THEN g[i-1] ELSE Append(g[i-1], q[i])]
           step == [x \in (1..Len(q)) \X Seq(N) |->
                      IF Expired(q[x[1]]) THEN x[2] ELSE Append(x[2], q[x[1]])]
           kept == CHOOSE g : g = Up(g)
<1>1. step \in [(1..Len(q)) \X Seq(N) -> Seq(N)]
  <2>1. ASSUME NEW x \in (1..Len(q)) \X Seq(N) PROVE step[x] \in Seq(N)
    <3>1. x[1] \in 1..Len(q) /\ x[2] \in Seq(N) /\ q[x[1]] \in N
      OBVIOUS
    <3>2. Append(x[2], q[x[1]]) \in Seq(N)
      BY <3>1, AppendProperties
    <3> QED BY <3>1, <3>2
  <2> QED BY <2>1
<1>2. PICK f \in [0..Len(q) -> Seq(N)] :
        f[0] = <<>> /\ \A i \in 1..Len(q) : f[i] = step[<<i, f[i-1]>>]
  <2> DEFINE n == Len(q)
             T == Seq(N)
             b == <<>>
  <2>1. b \in T /\ n \in Nat /\ step \in [(1..n) \X T -> T]
    BY <1>1
  <2> HIDE DEF step, n, T, b
  <2>2. \E f : Iteration(f, n, T, b, step)
    BY <2>1, Iterates, Zenon
  <2> QED BY <2>2 DEF n, T, b, Iteration
<1>3. f = Up(f)
  <2>1. ASSUME NEW i \in 0..Len(q) PROVE f[i] = Up(f)[i]
    <3>1. CASE i = 0
      BY <1>2, <3>1
    <3>2. CASE i # 0
      <4>1. i \in 1..Len(q) /\ i-1 \in 0..Len(q)
        BY <3>2
      <4>2. f[i] = step[<<i, f[i-1]>>] /\ <<i, f[i-1]>> \in (1..Len(q)) \X Seq(N)
        BY <1>2, <4>1
      <4> QED BY <3>2, <4>1, <4>2
    <3> QED BY <3>1, <3>2
  <2> HIDE DEF step
  <2> QED BY <1>2, <2>1
<1>4. kept = Up(kept)
  <2> HIDE DEF Up
  <2> QED BY <1>3, Zenon
<1>5. Remaining(q) = kept[Len(q)]
  BY DEF Remaining
<1> HIDE DEF kept, step
<1>6. kept[0] = <<>> /\ Len(q) \in Nat
  <2>1. 0 \in 0..Len(q)
    OBVIOUS
  <2> QED BY <1>4, <2>1
<1>7. \A i \in 1..Len(q) :
         kept[i] = IF Expired(q[i]) THEN kept[i-1] ELSE Append(kept[i-1], q[i])
  <2> SUFFICES ASSUME NEW i \in 1..Len(q)
               PROVE  kept[i] = IF Expired(q[i]) THEN kept[i-1]
                                ELSE Append(kept[i-1], q[i])
    OBVIOUS
  <2>1. i \in 0..Len(q) /\ i # 0
    OBVIOUS
  <2>2. Up(kept)[i] = IF Expired(q[i]) THEN kept[i-1] ELSE Append(kept[i-1], q[i])
    BY <2>1
  <2> HIDE DEF Up
  <2> QED BY <1>4, <2>2
<1> QED BY <1>5, <1>6, <1>7

\* What the loop of timer_handler keeps (time.c:36-51): the nodes that have not
\* expired, each once.
LEMMA RemainingThins ==
  ASSUME NEW q \in Seq(TimerNode), Clears(q) = {}
  PROVE  \E at : Thinned(Remaining(q), q, Len(q), at)
<1>1. PICK kept :
        /\ kept[0] = <<>>
        /\ \A i \in 1..Len(q) :
             kept[i] = IF Expired(q[i]) THEN kept[i-1] ELSE Append(kept[i-1], q[i])
        /\ Remaining(q) = kept[Len(q)]
  BY RemainingUnfolds
<1> DEFINE Good == {i \in Nat : \E at : Thinned(kept[i], q, i, at)}
<1>2. 0 \in Good
  <2>1. Thinned(<<>>, q, 0, <<>>)
    BY DEF Thinned
  <2> QED BY <1>1, <2>1
<1>3. ASSUME NEW i \in 1..Len(q), i-1 \in Good PROVE i \in Good
  <2> DEFINE r == kept[i-1]
  <2>1. PICK at : Thinned(r, q, i-1, at)
    BY <1>3
  <2>2. q[i] \in TimerNode
    OBVIOUS
  <2>3. CASE Expired(q[i])
    <3>1. kept[i] = r
      BY <1>1, <2>3
    <3>2. \A j \in 1..i : ~Expired(q[j]) => j \in 1..(i-1)
      BY <2>3
    <3>3. Thinned(r, q, i, at)
      BY <2>1, <3>2 DEF Thinned
    <3> QED BY <3>1, <3>3
  <2>4. CASE ~Expired(q[i])
    <3> DEFINE t == Append(r, q[i])
               to == [m \in 1..(Len(r) + 1) |-> IF m = Len(r) + 1 THEN i ELSE at[m]]
    <3>1. kept[i] = t
      BY <1>1, <2>4
    <3>2. r \in Seq(TimerNode) /\ at \in [1..Len(r) -> 1..(i-1)]
      BY <2>1 DEF Thinned
    <3>0. Len(r) \in Nat
      BY <3>2
    <3>3. t \in Seq(TimerNode) /\ Len(t) = Len(r) + 1 /\ t[Len(r) + 1] = q[i]
          /\ \A m \in 1..Len(r) : t[m] = r[m]
      BY <2>2, <3>2, AppendProperties
    <3>4. to \in [1..Len(t) -> 1..i] /\ to[Len(r) + 1] = i
          /\ \A m \in 1..Len(r) : to[m] = at[m] /\ to[m] # i
      <4> DEFINE n == Len(r)
      <4>1. n \in Nat /\ i \in Nat /\ Len(t) = n + 1
        BY <3>0, <3>3
      <4>2. at \in [1..n -> 1..(i-1)]
        BY <3>2
      <4> HIDE DEF n, t
      <4>3. \A m \in 1..n : at[m] \in 1..(i-1)
        BY <4>2
      <4>4. to = [m \in 1..(n+1) |-> IF m = n + 1 THEN i ELSE at[m]]
        BY DEF n
      <4> HIDE DEF to
      <4>5. to \in [1..(n+1) -> 1..i]
        BY <4>1, <4>3, <4>4
      <4>6. to[n+1] = i /\ \A m \in 1..n : to[m] = at[m] /\ to[m] # i
        BY <4>1, <4>3, <4>4
      <4> QED BY <4>1, <4>5, <4>6 DEF n
    <3> HIDE DEF t, to
    <3>5. \A m \in 1..Len(t) : t[m] = q[to[m]] /\ ~Expired(t[m])
      <4>1. \A m \in 1..Len(r) : r[m] = q[at[m]] /\ ~Expired(r[m])
        BY <2>1 DEF Thinned
      <4>2. \A m \in 1..Len(t) : m = Len(r) + 1 \/ m \in 1..Len(r)
        <5>1. Len(t) = Len(r) + 1
          BY <3>3
        <5> QED BY <3>0, <5>1
      <4> QED BY <2>4, <3>3, <3>4, <4>1, <4>2
    <3>6. \A m, n \in 1..Len(t) : to[m] = to[n] => m = n
      <4>1. \A m, n \in 1..Len(r) : at[m] = at[n] => m = n
        BY <2>1 DEF Thinned
      <4>2. \A m \in 1..Len(t) : m = Len(r) + 1 \/ m \in 1..Len(r)
        <5>1. Len(t) = Len(r) + 1
          BY <3>3
        <5> QED BY <3>0, <5>1
      <4> QED BY <3>4, <4>1, <4>2
    <3>7. ASSUME NEW j \in 1..i, ~Expired(q[j]) PROVE \E m \in 1..Len(t) : to[m] = j
      <4>1. CASE j = i
        BY <3>2, <3>3, <3>4, <4>1
      <4>2. CASE j # i
        <5>1. j \in 1..(i-1)
          BY <4>2
        <5>2. PICK m \in 1..Len(r) : at[m] = j
          BY <2>1, <3>7, <5>1 DEF Thinned
        <5>3. m \in 1..Len(t)
          <6>1. Len(t) = Len(r) + 1
            BY <3>3
          <6> QED BY <3>0, <6>1
        <5> QED BY <3>4, <5>2, <5>3
      <4> QED BY <4>1, <4>2
    <3>8. Thinned(t, q, i, to)
      BY <3>3, <3>4, <3>5, <3>6, <3>7 DEF Thinned
    <3> QED BY <3>1, <3>8
  <2> QED BY <2>3, <2>4
<1>4. \A i \in 0..Len(q) : i \in Good
  <2> HIDE DEF Good
  <2>1. Len(q) \in Nat
    OBVIOUS
  <2> QED BY <1>2, <1>3, <2>1, UpTo
<1>5. Len(q) \in 0..Len(q)
  OBVIOUS
<1> QED BY <1>1, <1>4, <1>5

\* The longest sleep, in seconds and in ticks.
LEMMA MaxSeconds ==
  /\ Max(Seconds) \in Nat /\ \A s \in Seconds : s \in Nat /\ s <= Max(Seconds)
  /\ TICKS * Max(Seconds) \in Nat
<1>1. Seconds \subseteq Nat /\ Seconds \in SUBSET Int /\ Seconds # {} /\ IsFiniteSet(Seconds)
  BY SecondsAssumption
<1>2. Max(Seconds) \in Seconds /\ \A y \in Seconds : Max(Seconds) >= y
  BY <1>1, MaxIs
<1> DEFINE m == Max(Seconds)
<1> HIDE DEF m
<1>3. m \in Nat /\ \A s \in Seconds : s \in Nat /\ s <= m
  BY <1>1, <1>2 DEF m
<1>4. TICKS \in Nat
  BY TicksAssumption
<1>5. TICKS * m \in Nat
  BY <1>3, <1>4
<1> QED BY <1>3, <1>5 DEF m

\* Of the arithmetic of timer_handler (time.c:38): a sleep that is not over has lasted
\* less than its seconds.
LEMMA NotExpiredAge ==
  ASSUME NEW n \in TimerNode, ~Expired(n)
  PROVE  n.age <= TICKS * Max(Seconds)
<1> DEFINE d == n.age \div TICKS
           m == Max(Seconds)
<1>0. TICKS \in Nat /\ TICKS > 0 /\ n.age \in Nat /\ n.seconds \in Seconds
  BY TicksAssumption DEF TimerNode
<1>1. m \in Nat /\ n.seconds \in Nat /\ n.seconds <= m
  BY <1>0, MaxSeconds
<1>2. d \in Nat /\ d < n.seconds
  BY <1>0, <1>1 DEF Expired
<1>3. n.age < TICKS * d + TICKS
  BY <1>0
<1> HIDE DEF d, m
<1>4. TICKS * d + TICKS = TICKS * (d + 1)
  BY <1>0, <1>2
<1>5. m - (d + 1) \in Nat /\ TICKS * (m - (d + 1)) \in Nat
  BY <1>0, <1>1, <1>2
<1>6. TICKS * m = TICKS * (d + 1) + TICKS * (m - (d + 1))
  BY <1>0, <1>1, <1>2
<1> QED BY <1>0, <1>1, <1>2, <1>3, <1>4, <1>5, <1>6 DEF m

\* A tick for every node of a queue (time.c:34).
LEMMA AgedIs ==
  ASSUME NEW q \in Seq(TimerNode), NEW hw \in {0, 1}
  PROVE  /\ Aged(q, hw) \in Seq(TimerNode) /\ Len(Aged(q, hw)) = Len(q)
         /\ \A i \in 1..Len(q) :
              /\ Aged(q, hw)[i].process = q[i].process
              /\ Aged(q, hw)[i].age = q[i].age + 1
              /\ Aged(q, hw)[i].hw = q[i].hw + hw
<1> DEFINE a == Aged(q, hw)
<1>1. Len(q) \in Nat /\ DOMAIN q = 1..Len(q)
  OBVIOUS
<1>2. ASSUME NEW i \in 1..Len(q)
      PROVE  /\ a[i] \in TimerNode /\ a[i].process = q[i].process
             /\ a[i].age = q[i].age + 1 /\ a[i].hw = q[i].hw + hw
  <2>1. q[i] \in TimerNode
    OBVIOUS
  <2>2. a[i] = [q[i] EXCEPT !.age = @ + 1, !.hw = @ + hw]
    BY <1>1 DEF Aged
  <2> HIDE DEF a
  <2>3. q[i] = [process |-> q[i].process, seconds |-> q[i].seconds,
                age |-> q[i].age, hw |-> q[i].hw]
    BY <2>1 DEF TimerNode
  <2>4. a[i] = [process |-> q[i].process, seconds |-> q[i].seconds,
                age |-> q[i].age + 1, hw |-> q[i].hw + hw]
    BY <2>2, <2>3
  <2>5. q[i].process \in Pcbs /\ q[i].seconds \in Seconds
        /\ q[i].age + 1 \in Nat /\ q[i].hw + hw \in Nat
    BY <2>1 DEF TimerNode
  <2> QED BY <2>4, <2>5 DEF TimerNode
<1>3. a = [i \in 1..Len(q) |-> a[i]]
  BY <1>1 DEF Aged
<1> HIDE DEF a
<1>4. a \in [1..Len(q) -> TimerNode]
  BY <1>2, <1>3
<1>5. a \in Seq(TimerNode) /\ Len(a) = Len(q)
  BY <1>1, <1>4
<1> QED BY <1>2, <1>5 DEF a

\* hw counts some of the ticks of age.
HardwareCounted(q) == \A i \in 1..Len(q) : q[i].hw <= q[i].age

\* A queue in which everybody sleeps, once.
Sleeping(q, states) ==
  /\ \A i, j \in 1..Len(q) : q[i].process = q[j].process => i = j
  /\ \A i \in 1..Len(q) : states[q[i].process] = "asleep"

\* What timer_handler leaves has the right types and has not expired.
LEMMA HandlerTypes ==
  ASSUME NEW q \in Seq(TimerNode), HardwareCounted(q), NEW hw \in {0, 1},
         NEW states \in [Pcbs -> {"free", "awake", "asleep"}], TimerHandler(q, states, hw)
  PROVE  /\ start' \in Seq([process : Pcbs, seconds : Seconds,
                            age : 0..(TICKS * Max(Seconds)), hw : 0..(TICKS * Max(Seconds))])
         /\ pcb' \in [Pcbs -> {"free", "awake", "asleep"}]
         /\ HardwareCounted(start') /\ \A i \in 1..Len(start') : ~Expired(start'[i])
<1> DEFINE a == Aged(q, hw)
           r == Remaining(a)
           Rest == [process : Pcbs, seconds : Seconds,
                    age : 0..(TICKS * Max(Seconds)), hw : 0..(TICKS * Max(Seconds))]
<1>0. start' = r /\ pcb' \in [Pcbs -> {"free", "awake", "asleep"}]
  BY DEF TimerHandler
<1>1. CASE Clears(a) # {}
  <2>1. r = <<>>
    BY <1>1 DEF Remaining
  <2> HIDE DEF r
  <2> QED BY <1>0, <2>1 DEF HardwareCounted
<1>2. CASE Clears(a) = {}
  <2>1. a \in Seq(TimerNode) /\ Len(a) = Len(q)
    BY AgedIs
  <2>2. PICK at : Thinned(r, a, Len(a), at)
    BY <1>2, <2>1, RemainingThins
  <2> HIDE DEF r
  <2>3. r \in Seq(TimerNode) /\ Len(r) \in Nat
    BY <2>2 DEF Thinned
  <2>4. ASSUME NEW i \in 1..Len(r)
        PROVE  r[i] \in Rest /\ r[i].hw <= r[i].age /\ ~Expired(r[i])
    <3>1. at[i] \in 1..Len(q) /\ r[i] = a[at[i]] /\ ~Expired(r[i])
      BY <2>1, <2>2 DEF Thinned
    <3>2. /\ r[i].age = q[at[i]].age + 1
          /\ r[i].hw = q[at[i]].hw + hw
      BY <3>1, AgedIs
    <3>3. q[at[i]].hw <= q[at[i]].age /\ q[at[i]].hw \in Nat /\ q[at[i]].age \in Nat
      <4>1. q[at[i]] \in TimerNode
        BY <3>1
      <4> QED BY <3>1, <4>1 DEF HardwareCounted, TimerNode
    <3>4. r[i].hw <= r[i].age
      BY <3>2, <3>3
    <3>5. r[i] \in TimerNode
      BY <2>3
    <3>6. r[i].age <= TICKS * Max(Seconds)
      BY <3>1, <3>5, NotExpiredAge
    <3>7. TICKS * Max(Seconds) \in Int
      BY MaxSeconds
    <3>8. /\ r[i].age \in 0..(TICKS * Max(Seconds))
          /\ r[i].hw \in 0..(TICKS * Max(Seconds))
      <4>1. r[i].age \in Nat /\ r[i].hw \in Nat
        BY <3>5 DEF TimerNode
      <4> QED BY <3>4, <3>6, <3>7, <4>1
    <3> QED BY <3>1, <3>4, <3>5, <3>8 DEF TimerNode
  <2>5. r \in Seq(Rest)
    <3>1. r = [i \in 1..Len(r) |-> r[i]]
      BY <2>3
    <3> HIDE DEF Rest
    <3>2. r \in [1..Len(r) -> Rest]
      BY <2>4, <3>1
    <3> QED BY <2>3, <3>2
  <2> QED BY <1>0, <2>4, <2>5 DEF HardwareCounted
<1> QED BY <1>1, <1>2

\* While everybody in the queue sleeps in it, the loop clears it only at the head, and
\* wakes only the head then (time.c:38-44).
LEMMA ClearsAtHead ==
  ASSUME NEW q \in Seq(TimerNode), Clears(q) # {},
         \A i, j \in 1..Len(q) : q[i].process = q[j].process => i = j
  PROVE  1 \in 1..Len(q) /\ Expired(q[1]) /\ Woken(q) = {q[1].process}
<1>0. DOMAIN q = 1..Len(q) /\ Len(q) \in Nat
  OBVIOUS
<1>1. ASSUME NEW i \in Clears(q) PROVE i = 1
  <2> SUFFICES ASSUME i # 1 PROVE FALSE
    OBVIOUS
  <2>1. i \in 1..Len(q) /\ i > 1 /\ ~Expired(q[1]) /\ q[i].process = q[Prev(q, i)].process
    BY <1>0 DEF Clears
  <2> DEFINE Before == {j \in 1..(i-1) : ~Expired(q[j])}
  <2>2. Before \subseteq 1..(i-1) /\ 1 \in Before /\ IsFiniteSet(1..(i-1))
    BY <2>1, FS_Interval
  <2>3. IsFiniteSet(Before) /\ Before \subseteq Int
    <3> HIDE DEF Before
    <3>1. IsFiniteSet(Before)
      BY <2>2, FS_Subset, Zenon
    <3>2. 1..(i-1) \subseteq Int
      OBVIOUS
    <3> QED BY <2>2, <3>1, <3>2
  <2>4. Prev(q, i) = Max(Before)
    BY <2>1 DEF Prev
  <2> HIDE DEF Before
  <2>5. Prev(q, i) \in 1..(i-1)
    BY <2>2, <2>3, <2>4, MaxIs
  <2>6. Prev(q, i) \in 1..Len(q) /\ Prev(q, i) # i
    BY <2>1, <2>5
  <2> QED BY <2>1, <2>6
<1>2. Clears(q) = {1}
  BY <1>1
<1>3. 1 \in 1..Len(q) /\ Expired(q[1])
  BY <1>0, <1>2 DEF Clears
<1>4. Min({1}) = 1
  BY DEF Min
<1>5. Visited(q) = {1}
  BY <1>2, <1>4 DEF Visited
<1> QED BY <1>3, <1>5 DEF Woken

\* timer_handler wakes nobody who stays in the queue, which stays one of sleepers.
LEMMA HandlerSleepers ==
  ASSUME NEW q \in Seq(TimerNode), NEW hw \in {0, 1},
         NEW states \in [Pcbs -> {"free", "awake", "asleep"}], TimerHandler(q, states, hw),
         Sleeping(q, states)
  PROVE  Sleeping(start', pcb')
<1> DEFINE a == Aged(q, hw)
           r == Remaining(a)
<1>0. start' = r
  BY DEF TimerHandler
<1>1. a \in Seq(TimerNode) /\ Len(a) = Len(q)
      /\ \A i \in 1..Len(q) : a[i].process = q[i].process
  BY AgedIs
<1>2. CASE Clears(a) # {}
  <2>1. r = <<>>
    BY <1>2 DEF Remaining
  <2> HIDE DEF r
  <2> QED BY <1>0, <2>1 DEF Sleeping
<1>3. CASE Clears(a) = {}
  <2>1. PICK at : Thinned(r, a, Len(a), at)
    BY <1>1, <1>3, RemainingThins
  <2>2. pcb' = [p \in Pcbs |-> IF p \in Woken(a) /\ states[p] = "asleep"
                               THEN "awake" ELSE states[p]]
    BY DEF TimerHandler
  <2>3. Woken(a) \subseteq {a[i].process : i \in {j \in 1..Len(q) : Expired(a[j])}}
    <3>1. Visited(a) \subseteq 1..Len(q)
      BY <1>1, <1>3 DEF Visited
    <3> QED BY <3>1 DEF Woken
  <2> HIDE DEF r, a
  <2>4. ASSUME NEW m \in 1..Len(r)
        PROVE  /\ at[m] \in 1..Len(q) /\ r[m] = a[at[m]] /\ ~Expired(a[at[m]])
               /\ r[m].process = q[at[m]].process /\ r[m].process \in Pcbs
    <3>1. at[m] \in 1..Len(q) /\ r[m] = a[at[m]] /\ ~Expired(a[at[m]])
      BY <1>1, <2>1 DEF Thinned
    <3>2. q[at[m]] \in TimerNode
      BY <3>1
    <3> QED BY <1>1, <3>1, <3>2 DEF TimerNode
  <2>5. ASSUME NEW m \in 1..Len(r) PROVE pcb'[r[m].process] = "asleep"
    <3>1. r[m].process \notin Woken(a)
      <4> SUFFICES ASSUME r[m].process \in Woken(a) PROVE FALSE
        OBVIOUS
      <4>1. PICK i \in 1..Len(q) : Expired(a[i]) /\ r[m].process = a[i].process
        BY <2>3
      <4>2. q[at[m]].process = q[i].process
        BY <1>1, <2>4, <4>1
      <4>3. at[m] = i
        BY <2>4, <4>2 DEF Sleeping
      <4> QED BY <2>4, <4>1, <4>3
    <3>2. states[r[m].process] = "asleep"
      BY <2>4 DEF Sleeping
    <3> QED BY <2>2, <2>4, <3>1, <3>2
  <2>6. ASSUME NEW m \in 1..Len(r), NEW n \in 1..Len(r), r[m].process = r[n].process
        PROVE  m = n
    <3>1. at[m] \in 1..Len(q) /\ at[n] \in 1..Len(q)
          /\ q[at[m]].process = q[at[n]].process
      BY <2>4, <2>6
    <3>2. at[m] = at[n]
      BY <3>1 DEF Sleeping
    <3> QED BY <2>1, <3>2 DEF Thinned
  <2> QED BY <1>0, <2>5, <2>6 DEF Sleeping
<1> QED BY <1>2, <1>3

LEMMA AgedAt ==
  ASSUME NEW q \in Seq(TimerNode), NEW hw, NEW i \in 1..Len(q)
  PROVE  /\ Aged(q, hw)[i].age = q[i].age + 1
         /\ Aged(q, hw)[i].seconds = q[i].seconds
<1>1. Len(q) \in Nat /\ DOMAIN q = 1..Len(q) /\ q[i] \in TimerNode
  OBVIOUS
<1> QED BY <1>1 DEF Aged, TimerNode

\* Of a queue of sleepers somebody is dropped asleep only when the head, another
\* process, expires and is woken (time.c:40-44).
LEMMA HandlerDrops ==
  ASSUME NEW q \in Seq(TimerNode), NEW hw \in {0, 1},
         NEW states \in [Pcbs -> {"free", "awake", "asleep"}], TimerHandler(q, states, hw),
         Sleeping(q, states),
         NEW i \in 1..Len(q), pcb'[q[i].process] = "asleep",
         \A m \in 1..Len(start') : start'[m].process # q[i].process
  PROVE  start' = <<>> /\ q[1].process # q[i].process /\ q[1].process \in Pcbs
         /\ 1 \in 1..Len(q) /\ Expiring(q[1])
         /\ states[q[1].process] = "asleep" /\ pcb'[q[1].process] = "awake"
<1> DEFINE a == Aged(q, hw)
           r == Remaining(a)
           p == q[i].process
<1>0. start' = r
  BY DEF TimerHandler
<1>1. a \in Seq(TimerNode) /\ Len(a) = Len(q) /\ Len(q) \in Nat
      /\ \A j \in 1..Len(q) : a[j].process = q[j].process
  BY AgedIs
<1>2. pcb' = [x \in Pcbs |-> IF x \in Woken(a) /\ states[x] = "asleep"
                             THEN "awake" ELSE states[x]]
  BY DEF TimerHandler
<1>3. p \in Pcbs /\ states[p] = "asleep"
  <2>1. q[i] \in TimerNode
    OBVIOUS
  <2> QED BY <2>1 DEF TimerNode, Sleeping
<1>4. p \notin Woken(a)
  BY <1>2, <1>3
<1>5. Clears(a) # {}
  <2> SUFFICES ASSUME Clears(a) = {} PROVE FALSE
    OBVIOUS
  <2>1. PICK at : Thinned(r, a, Len(a), at)
    BY <1>1, RemainingThins
  <2>2. Visited(a) = 1..Len(q)
    BY <1>1 DEF Visited
  <2>3. ~Expired(a[i])
    BY <1>1, <1>4, <2>2 DEF Woken
  <2>4. PICK m \in 1..Len(r) : at[m] = i /\ r[m] = a[at[m]]
    <3> HIDE DEF r, a, p
    <3> QED BY <1>1, <2>1, <2>3 DEF Thinned
  <2>5. r[m].process = p
    BY <1>1, <2>4
  <2> HIDE DEF r, p
  <2> QED BY <1>0, <2>4, <2>5 DEF p
<1>6. start' = <<>>
  BY <1>0, <1>5 DEF Remaining
<1>7. \A j, k \in 1..Len(a) : a[j].process = a[k].process => j = k
  BY <1>1 DEF Sleeping
<1>8. 1 \in 1..Len(a) /\ Expired(a[1]) /\ Woken(a) = {a[1].process}
  BY <1>1, <1>5, <1>7, ClearsAtHead
<1>9. q[1].process \in Woken(a) /\ q[1].process \in Pcbs /\ states[q[1].process] = "asleep"
  <2>1. 1 \in 1..Len(q) /\ q[1] \in TimerNode
    BY <1>1, <1>8
  <2> QED BY <1>1, <1>8, <2>1 DEF TimerNode, Sleeping
<1>10. 1 \in 1..Len(q) /\ Expiring(q[1])
  <2> DEFINE n == [q[1] EXCEPT !.age = @ + 1]
  <2>1. 1 \in 1..Len(q) /\ q[1] \in TimerNode
    BY <1>1, <1>8
  <2>2. a[1].age = q[1].age + 1 /\ a[1].seconds = q[1].seconds
    BY <2>1, AgedAt, Zenon DEF a
  <2>3. a[1].age = n.age /\ a[1].seconds = n.seconds
    BY <2>1, <2>2 DEF TimerNode
  <2> HIDE DEF n, a
  <2>4. Expired(n)
    BY <1>8, <2>3 DEF Expired
  <2> QED BY <2>1, <2>4 DEF n, Expiring
<1> HIDE DEF a
<1> QED BY <1>2, <1>4, <1>6, <1>9, <1>10

\* The inductive invariant of the queue: that of its run, and hw counts ticks.
TimerIInv == TimerInv /\ HardwareCounted(start)

\* What the invariant says of the queue and of the pcbs.
LEMMA TimerQueueOK ==
  ASSUME TimerIInv
  PROVE  /\ start \in Seq(TimerNode) /\ HardwareCounted(start)
         /\ pcb \in [Pcbs -> {"free", "awake", "asleep"}]
         /\ meddled = 0 => Sleeping(start, pcb)
<1> DEFINE Rest == [process : Pcbs, seconds : Seconds,
                    age : 0..(TICKS * Max(Seconds)), hw : 0..(TICKS * Max(Seconds))]
<1>1. start \in Seq(Rest)
  BY DEF TimerIInv, TimerInv, TimerTypeOK
<1>2. Rest \subseteq TimerNode
  BY MaxSeconds DEF TimerNode
<1> HIDE DEF Rest
<1>3. start \in Seq(TimerNode)
  BY <1>1, <1>2, SeqMonotonic, Zenon
<1>4. DOMAIN start = 1..Len(start)
  BY <1>1
<1> QED
  BY <1>3, <1>4 DEF TimerIInv, TimerInv, TimerTypeOK, NodesAreSleepers, Sleeping

\* A step that runs timer_handler on a queue q keeps the invariant.
LEMMA HandlerKeeps ==
  ASSUME NEW q \in Seq(TimerNode), HardwareCounted(q), NEW hw \in {0, 1},
         NEW states \in [Pcbs -> {"free", "awake", "asleep"}], TimerHandler(q, states, hw),
         meddled = 0 => Sleeping(q, states), meddled \in 0..MaxMeddling, UNCHANGED meddled
  PROVE  TimerIInv'
<1>1. /\ TimerTypeOK' /\ HardwareCounted(start')
      /\ \A i \in 1..Len(start') : ~Expired(start'[i])
  BY HandlerTypes DEF TimerTypeOK
<1>2. DOMAIN start' = 1..Len(start')
  BY <1>1 DEF TimerTypeOK
<1>3. meddled = 0 => Sleeping(start', pcb')
  BY HandlerSleepers
<1>4. NoExpiredNode'
  BY <1>1, <1>2 DEF NoExpiredNode, Expired
<1>5. NodesAreSleepers'
  BY <1>2, <1>3 DEF NodesAreSleepers, Sleeping
<1> QED BY <1>1, <1>4, <1>5 DEF TimerIInv, TimerInv, HardwareCounted

\* The queue on which sleep runs timer_handler (time.c:18-31, 67-72).
LEMMA SleepCallQueue ==
  ASSUME TimerIInv, NEW p \in Pcbs, NEW s \in Seconds, pcb[p] = "awake",
         NEW q, q = <<Node(p, s)>> \o start, NEW states, states = [pcb EXCEPT ![p] = "asleep"]
  PROVE  /\ q \in Seq(TimerNode) /\ HardwareCounted(q)
         /\ states \in [Pcbs -> {"free", "awake", "asleep"}]
         /\ Len(q) = Len(start) + 1 /\ q[1].process = p
         /\ \A i \in 1..Len(start) : q[i+1] = start[i]
         /\ meddled = 0 => Sleeping(q, states)
<1> DEFINE n == Node(p, s)
<1>1. /\ start \in Seq(TimerNode) /\ HardwareCounted(start) /\ Len(start) \in Nat
      /\ pcb \in [Pcbs -> {"free", "awake", "asleep"}]
      /\ meddled = 0 => Sleeping(start, pcb)
  BY TimerQueueOK
<1>2. n \in TimerNode /\ n.process = p /\ n.hw = 0 /\ n.age = 0
  BY DEF Node, TimerNode
<1> HIDE DEF n
<1>3. <<n>> \in Seq(TimerNode) /\ Len(<<n>>) = 1 /\ <<n>>[1] = n
  BY <1>2
<1>4. /\ q \in Seq(TimerNode) /\ Len(q) = Len(start) + 1
      /\ q[1] = n /\ \A i \in 1..Len(start) : q[i+1] = start[i]
  <2>1. q = <<n>> \o start
    BY DEF n
  <2>2. q \in Seq(TimerNode) /\ Len(q) = 1 + Len(start)
        /\ \A i \in 1..(1 + Len(start)) : q[i] = IF i <= 1 THEN <<n>>[i] ELSE start[i-1]
    BY <1>1, <1>3, <2>1, ConcatProperties
  <2>3. q[1] = n
    BY <1>1, <1>3, <2>2
  <2>4. ASSUME NEW i \in 1..Len(start) PROVE q[i+1] = start[i]
    <3>1. i+1 \in 1..(1 + Len(start)) /\ ~(i+1 <= 1) /\ (i+1)-1 = i
      BY <1>1
    <3> QED BY <2>2, <3>1
  <2> QED BY <1>1, <2>2, <2>3, <2>4
<1>5. ASSUME NEW i \in 1..Len(q), i # 1
      PROVE  i-1 \in 1..Len(start) /\ q[i] = start[i-1]
  <2>1. i-1 \in 1..Len(start) /\ (i-1)+1 = i
    BY <1>1, <1>4, <1>5
  <2> QED BY <1>4, <2>1
<1>6. HardwareCounted(q)
  BY <1>1, <1>2, <1>4, <1>5 DEF HardwareCounted
<1>7. ASSUME meddled = 0 PROVE Sleeping(q, states)
  <2>1. Sleeping(start, pcb)
    BY <1>1, <1>7
  <2>2. \A i \in 1..Len(start) : start[i].process # p /\ start[i].process \in Pcbs
    <3> SUFFICES ASSUME NEW i \in 1..Len(start)
                 PROVE  start[i].process # p /\ start[i].process \in Pcbs
      OBVIOUS
    <3>1. start[i] \in TimerNode
      BY <1>1
    <3> QED BY <2>1, <3>1 DEF Sleeping, TimerNode
  <2>3. ASSUME NEW i \in 1..Len(q) PROVE states[q[i].process] = "asleep"
    <3>1. CASE i = 1
      BY <1>1, <1>2, <1>4, <3>1
    <3>2. CASE i # 1
      <4>1. i-1 \in 1..Len(start) /\ q[i] = start[i-1]
        BY <1>5, <3>2
      <4> QED BY <1>1, <2>1, <2>2, <4>1 DEF Sleeping
    <3> QED BY <3>1, <3>2
  <2>4. ASSUME NEW i \in 1..Len(q), NEW j \in 1..Len(q), q[i].process = q[j].process
        PROVE  i = j
    <3>1. CASE i = 1 /\ j # 1
      BY <1>2, <1>4, <1>5, <2>2, <2>4, <3>1
    <3>2. CASE i # 1 /\ j = 1
      BY <1>2, <1>4, <1>5, <2>2, <2>4, <3>2
    <3>3. CASE i # 1 /\ j # 1
      <4>1. i-1 \in 1..Len(start) /\ q[i] = start[i-1]
            /\ j-1 \in 1..Len(start) /\ q[j] = start[j-1]
        BY <1>5, <3>3
      <4>2. i-1 = j-1
        BY <2>1, <2>4, <4>1 DEF Sleeping
      <4> QED BY <4>2
    <3> QED BY <3>1, <3>2, <3>3
  <2> QED BY <2>3, <2>4 DEF Sleeping
<1> QED BY <1>1, <1>2, <1>4, <1>6, <1>7
-----------------------------------------------------------------------------
(* The theorems about the queue                                            *)

\* The queue of timer_handler keeps its invariant, whatever is killed or toggled.
THEOREM TimerInvariance == TimerSpec => []TimerIInv
<1>1. TimerInit => TimerIInv
  <2> SUFFICES ASSUME TimerInit PROVE TimerIInv
    OBVIOUS
  <2>1. start = <<>> /\ pcb = [p \in Pcbs |-> "awake"] /\ meddled = 0
    BY DEF TimerInit
  <2> QED
    BY <2>1, MeddlingAssumption
    DEF TimerIInv, TimerInv, TimerTypeOK, NoExpiredNode, NodesAreSleepers, HardwareCounted
<1>2. TimerIInv /\ [TimerNext]_timerVars => TimerIInv'
  <2> SUFFICES ASSUME TimerIInv, [TimerNext]_timerVars PROVE TimerIInv'
    OBVIOUS
  <2>1. /\ start \in Seq(TimerNode) /\ HardwareCounted(start)
        /\ pcb \in [Pcbs -> {"free", "awake", "asleep"}]
        /\ meddled = 0 => Sleeping(start, pcb)
    BY TimerQueueOK
  <2>2. meddled \in 0..MaxMeddling /\ meddled \in Int
    BY MeddlingAssumption DEF TimerIInv, TimerInv, TimerTypeOK
  <2>3. CASE HardwareTick
    BY <2>1, <2>2, <2>3, HandlerKeeps DEF HardwareTick
  <2>4. CASE Yield
    BY <2>1, <2>2, <2>4, HandlerKeeps DEF Yield
  <2>5. ASSUME NEW p \in Pcbs, NEW s \in Seconds, SleepCall(p, s) PROVE TimerIInv'
    <3> DEFINE q == <<Node(p, s)>> \o start
               states == [pcb EXCEPT ![p] = "asleep"]
    <3>1. pcb[p] = "awake" /\ TimerHandler(q, states, 0) /\ UNCHANGED meddled
      BY <2>5 DEF SleepCall
    <3> HIDE DEF q, states
    <3>2. /\ q \in Seq(TimerNode) /\ HardwareCounted(q)
          /\ states \in [Pcbs -> {"free", "awake", "asleep"}]
          /\ meddled = 0 => Sleeping(q, states)
      BY <3>1, SleepCallQueue DEF q, states
    <3> QED BY <2>2, <3>1, <3>2, HandlerKeeps
  <2>6. ASSUME NEW p \in Pcbs, Kill(p) PROVE TimerIInv'
    <3>1. meddled' \in 0..MaxMeddling /\ meddled' # 0
      BY <2>2, <2>6, MeddlingAssumption DEF Kill
    <3>2. pcb' \in [Pcbs -> {"free", "awake", "asleep"}]
      BY <2>1, <2>6 DEF Kill
    <3> QED
      BY <2>6, <3>1, <3>2
      DEF Kill, TimerIInv, TimerInv, TimerTypeOK, NoExpiredNode, NodesAreSleepers,
          HardwareCounted
  <2>7. ASSUME NEW p \in Pcbs, ToggleState(p) PROVE TimerIInv'
    <3>1. meddled' \in 0..MaxMeddling /\ meddled' # 0
      BY <2>2, <2>7, MeddlingAssumption DEF ToggleState
    <3>2. pcb' \in [Pcbs -> {"free", "awake", "asleep"}]
      BY <2>1, <2>7 DEF ToggleState
    <3> QED
      BY <2>7, <3>1, <3>2
      DEF ToggleState, TimerIInv, TimerInv, TimerTypeOK, NoExpiredNode, NodesAreSleepers,
          HardwareCounted
  <2>8. ASSUME NEW p \in Pcbs, Create(p) PROVE TimerIInv'
    <3>1. pcb' \in [Pcbs -> {"free", "awake", "asleep"}]
      BY <2>1, <2>8 DEF Create
    <3>2. NodesAreSleepers'
      BY <2>1, <2>8 DEF Create, TimerIInv, TimerInv, NodesAreSleepers
    <3> QED BY <2>8, <3>1, <3>2
            DEF Create, TimerIInv, TimerInv, TimerTypeOK, NoExpiredNode, HardwareCounted
  <2>9. CASE UNCHANGED timerVars
    BY <2>9 DEF timerVars, TimerIInv, TimerInv, TimerTypeOK, NoExpiredNode,
                NodesAreSleepers, HardwareCounted
  <2> QED BY <2>3, <2>4, <2>5, <2>6, <2>7, <2>8, <2>9 DEF TimerNext
<1> QED BY <1>1, <1>2, PTL DEF TimerSpec

\* The invariant of the run.
THEOREM QueueCorrect == TimerSpec => []TimerInv
<1>1. TimerIInv => TimerInv
  BY DEF TimerIInv
<1> QED BY <1>1, TimerInvariance, PTL

\* Who was queued is somewhere in the queue.
LEMMA QueuedAt ==
  ASSUME TimerIInv, NEW p, Queued(p)
  PROVE  \E i \in 1..Len(start) : start[i].process = p
BY DEF TimerIInv, TimerInv, TimerTypeOK, Queued

\* Nobody is dropped from the queue asleep unless the head, another process, expires
\* and is woken in that step (time.c:40-44).
THEOREM DroppedCorrect == TimerSpec => DroppedOnlyBehindHead
<1> DEFINE Drop(p) ==
      /\ start' = <<>>
      /\ \/ LET first == start[1].process
            IN  /\ first # p /\ Expiring(start[1])
                /\ pcb[first] = "asleep" /\ pcb'[first] = "awake"
         \/ \E q \in Pcbs \ {p}, s \in Seconds :
              SleepCall(q, s) /\ Expiring(Node(q, s)) /\ pcb'[q] = "awake"
<1>1. ASSUME TimerIInv, TimerIInv', [TimerNext]_timerVars, meddled = 0, NEW p \in Pcbs,
             Queued(p), pcb'[p] = "asleep", ~Queued(p)'
      PROVE  Drop(p)
  <2>1. /\ start \in Seq(TimerNode) /\ Sleeping(start, pcb)
        /\ pcb \in [Pcbs -> {"free", "awake", "asleep"}]
    BY <1>1, TimerQueueOK
  <2>2. PICK i \in 1..Len(start) : start[i].process = p
    BY <1>1, QueuedAt
  <2>3. \A m \in 1..Len(start') : start'[m].process # p
    <3>1. DOMAIN start' = 1..Len(start')
      BY <1>1 DEF TimerIInv, TimerInv, TimerTypeOK
    <3> QED BY <1>1, <3>1 DEF Queued
  <2>4. start' # start
    BY <2>2, <2>3
  <2>5. ASSUME NEW hw \in {0, 1}, TimerHandler(start, pcb, hw) PROVE Drop(p)
    <3>1. /\ start' = <<>> /\ start[1].process # p /\ Expiring(start[1])
          /\ pcb[start[1].process] = "asleep" /\ pcb'[start[1].process] = "awake"
      BY <1>1, <2>1, <2>2, <2>3, <2>5, HandlerDrops
    <3> QED BY <3>1
  <2>6. ASSUME NEW c \in Pcbs, NEW s \in Seconds, SleepCall(c, s) PROVE Drop(p)
    <3> DEFINE q == <<Node(c, s)>> \o start
               states == [pcb EXCEPT ![c] = "asleep"]
    <3>1. pcb[c] = "awake" /\ TimerHandler(q, states, 0)
      BY <2>6 DEF SleepCall
    <3> HIDE DEF q, states
    <3>2. TimerIInv /\ meddled = 0
      BY <1>1
    <3>3. /\ q \in Seq(TimerNode) /\ (meddled = 0 => Sleeping(q, states))
          /\ states \in [Pcbs -> {"free", "awake", "asleep"}]
      BY <3>2, <3>1, SleepCallQueue DEF q, states
    <3>4. Len(q) = Len(start) + 1 /\ q[1].process = c /\ q[1] = Node(c, s)
      <4>1. Len(q) = Len(start) + 1 /\ q[1].process = c
        BY <3>2, <3>1, SleepCallQueue DEF q, states
      <4>2. q[1] = Node(c, s)
        BY <2>1 DEF q
      <4> QED BY <4>1, <4>2
    <3>5. \A m \in 1..Len(start) : q[m+1] = start[m]
      BY <3>2, <3>1, SleepCallQueue DEF q, states
    <3>6. /\ q \in Seq(TimerNode) /\ Sleeping(q, states)
          /\ states \in [Pcbs -> {"free", "awake", "asleep"}]
          /\ Len(q) = Len(start) + 1 /\ q[1].process = c
          /\ \A m \in 1..Len(start) : q[m+1] = start[m]
      BY <3>2, <3>3, <3>4, <3>5
    <3>7. i+1 \in 1..Len(q) /\ q[i+1].process = p
      <4>1. q[i+1] = start[i]
        BY <2>2, <3>6
      <4>2. Len(start) \in Nat /\ i \in 1..Len(start)
        BY <2>1, <2>2
      <4> QED BY <2>2, <3>6, <4>1, <4>2
    <3>8. start' = <<>> /\ c # p /\ Expiring(q[1]) /\ pcb'[c] = "awake"
      BY <1>1, <2>3, <3>1, <3>6, <3>7, HandlerDrops
    <3>9. c \in Pcbs \ {p} /\ SleepCall(c, s) /\ Expiring(Node(c, s))
      BY <2>6, <3>4, <3>8
    <3> QED BY <3>8, <3>9
  <2>7. ~ UNCHANGED start
    BY <2>4
  <2>8. HardwareTick \/ Yield => \E hw \in {0, 1} : TimerHandler(start, pcb, hw)
    BY DEF HardwareTick, Yield
  <2>9. \A x \in Pcbs : ~Kill(x) /\ ~ToggleState(x) /\ ~Create(x)
    BY <2>7 DEF Kill, ToggleState, Create
  <2> QED BY <1>1, <2>5, <2>6, <2>7, <2>8, <2>9 DEF TimerNext, timerVars
<1>2. TimerIInv /\ TimerIInv' /\ [TimerNext]_timerVars =>
        [meddled = 0 =>
           \A p \in Pcbs : Queued(p) /\ pcb'[p] = "asleep" /\ ~Queued(p)' => Drop(p)
        ]_timerVars
  BY <1>1
<1> QED BY <1>2, TimerInvariance, PTL DEF DroppedOnlyBehindHead, TimerSpec
-----------------------------------------------------------------------------
(* The keyboard and its readers                                            *)

\* The letters of a line, in the program's buffer or as they were typed.
Letters == {"a", "A"}

\* What a backspace leaves in the buffer.
LEMMA LeftIs ==
  ASSUME NEW s \in Seq(Letters), NEW n \in Nat
  PROVE  /\ Left(s, n) \in Seq(Letters)
         /\ Len(Left(s, n)) = IF n < Len(s) THEN n ELSE Len(s)
         /\ \A i \in 1..Len(Left(s, n)) : Left(s, n)[i] = s[i]
<1>1. CASE n < Len(s)
  <2>1. /\ SubSeq(s, 1, n) \in Seq(Letters) /\ Len(SubSeq(s, 1, n)) = n
        /\ \A i \in 1..n : SubSeq(s, 1, n)[i] = s[i]
    <3>1. \A i \in 1..n : s[i] \in Letters
      BY <1>1
    <3>2. /\ SubSeq(s, 1, n) \in Seq(Letters)
          /\ Len(SubSeq(s, 1, n)) = IF 1 <= n THEN n - 1 + 1 ELSE 0
          /\ \A i \in 1..(n - 1 + 1) : SubSeq(s, 1, n)[i] = s[1 + i - 1]
      BY <3>1, <1>1, SubSeqProperties
    <3> QED BY <3>2
  <2> QED BY <1>1, <2>1 DEF Left
<1>2. CASE ~(n < Len(s))
  BY <1>2 DEF Left
<1> QED BY <1>1, <1>2

\* What a key does to a line as the user sees it.
LEMMA EditedIs ==
  ASSUME NEW s \in Seq(Letters), NEW k
  PROVE  /\ Edited(s, k) \in Seq(Letters)
         /\ k = "a" => /\ Edited(s, k) = Append(s, IF shift THEN "A" ELSE "a")
                       /\ Len(Edited(s, k)) = Len(s) + 1
         /\ k # "a" => Len(Edited(s, k)) <= Len(s)
         /\ k = "back" => Edited(s, k) = IF s = <<>> THEN s ELSE SubSeq(s, 1, Len(s) - 1)
         /\ k \notin {"a", "back"} => Edited(s, k) = s
<1>1. CASE k = "a"
  <2>1. Edited(s, k) = Append(s, IF shift THEN "A" ELSE "a")
    BY <1>1 DEF Edited
  <2>2. (IF shift THEN "A" ELSE "a") \in Letters
    BY DEF Letters
  <2> QED BY <1>1, <2>1, <2>2
<1>2. CASE k = "back" /\ s = <<>>
  BY <1>2 DEF Edited
<1>3. CASE k = "back" /\ s # <<>>
  <2>1. Edited(s, k) = SubSeq(s, 1, Len(s) - 1)
    BY <1>3 DEF Edited
  <2>2. Len(s) \in Nat /\ Len(s) # 0
    BY <1>3
  <2>3. Len(s) - 1 \in Nat /\ Len(s) - 1 < Len(s)
    BY <2>2
  <2>4. Left(s, Len(s) - 1) \in Seq(Letters) /\ Len(Left(s, Len(s) - 1)) = Len(s) - 1
    BY <2>3, LeftIs
  <2>5. Edited(s, k) = Left(s, Len(s) - 1)
    BY <2>1, <2>3 DEF Left
  <2> QED BY <1>3, <2>1, <2>2, <2>4, <2>5
<1>4. CASE k \notin {"a", "back"}
  BY <1>4 DEF Edited
<1> QED BY <1>1, <1>2, <1>3, <1>4

\* What a character adds to it.
LEMMA StoredIs ==
  ASSUME NEW s \in Seq(Letters), NEW n \in Nat, NEW c \in Letters
  PROVE  /\ Stored(s, n, c) \in Seq(Letters)
         /\ Stored(s, n, c) = IF n < LineSize THEN Append(s, c) ELSE s
         /\ Len(Stored(s, n, c)) = IF n < LineSize THEN Len(s) + 1 ELSE Len(s)
BY SizeAssumption DEF Stored

\* The keyboard interrupt only makes readers ready, and what it has seen it keeps.
LEMMA HandlerEffect ==
  ASSUME TypeOK, NEW k \in Keys \union {NoKey}, keyboard_handler(k)
  PROVE  /\ actualKey' = k
         /\ size' \in Nat /\ head' \in Nodes /\ pstate' \in [Readers -> {0, 1}]
         /\ \A p \in Readers : pstate[p] = 1 => pstate'[p] = 1
         /\ seen' = seen \union Disturbs(k) /\ seen' \subseteq Disturbances
         /\ UNCHANGED <<node, tail, pc, current, limit, buf, count, key, reg, mayus, hits>>
<1>1. Successor(head) \in Nodes
  BY SizeAssumption DEF TypeOK, Nodes, Successor
<1>2. size' \in Nat /\ head' \in Nodes
  BY <1>1 DEF TypeOK, keyboard_handler, awakeKeyboardQueue
<1>3. pstate' \in [Readers -> {0, 1}] /\ \A p \in Readers : pstate[p] = 1 => pstate'[p] = 1
  BY DEF TypeOK, keyboard_handler, awakeKeyboardQueue
<1>4. seen' = seen \union Disturbs(k) /\ Disturbs(k) \subseteq Disturbances
  BY DEF keyboard_handler, Sees, Disturbs
<1> QED BY <1>2, <1>3, <1>4 DEF keyboard_handler, TypeOK

-----------------------------------------------------------------------------
\* No interrupt has split waitForKeyboard.
Quiet == seen \intersect {"hit", "midway"} = {}

\* The buffer b holds the first of n characters.
Fills(b, n) == Len(b) = IF n < LineSize THEN n ELSE LineSize

\* The buffer is filled by the first characters of the line, and no further.
BufferFills ==
  \A p \in Readers : Fills(buf[p], count[p])

\* A key keeps the types and the lengths of the lines.
LEMMA TypesKeyboard ==
  ASSUME TypeOK, Keyboard
  PROVE  TypeOK' /\ (BufferFills => BufferFills')
<1>1. Active \in Readers
  BY DEF Active, Readers
<1>2. ASSUME NEW k \in Keys \ {"shift"}, Press(k) PROVE TypeOK' /\ (BufferFills => BufferFills')
  <2>1. keyboard_handler(k) /\ k \in Keys \union {NoKey}
    BY <1>2 DEF Press
  <2>2. Edited(typed[Active], k) \in Seq(Letters) /\ Len(Edited(typed[Active], k)) <= MaxCount
    <3>1. typed[Active] \in Seq(Letters) /\ Len(typed[Active]) <= MaxCount
      BY <1>1 DEF TypeOK, Letters
    <3>2. Len(typed[Active]) \in Nat /\ MaxCount \in Nat
      BY <3>1, BoundAssumption
    <3>3. k = "a" => Len(typed[Active]) < MaxCount
      BY <1>2 DEF Press
    <3> HIDE DEF Active
    <3> QED BY <3>1, <3>2, <3>3, EditedIs
  <2>3. /\ typed' = [typed EXCEPT ![Active] = Edited(typed[Active], k)]
        /\ down' \in {"function", "ascii"} /\ UNCHANGED shift
    BY <1>2 DEF Press
  <2>4. typed' \in [Readers -> Seq(Letters)]
    BY <1>1, <2>2, <2>3 DEF TypeOK, Letters
  <2>5. ASSUME NEW p \in Readers PROVE Len(typed'[p]) <= MaxCount
    BY <1>1, <2>2, <2>3 DEF TypeOK
  <2> QED BY <2>1, <2>3, <2>4, <2>5, HandlerEffect DEF TypeOK, Letters, BufferFills
<1>3. ASSUME Release PROVE TypeOK' /\ (BufferFills => BufferFills')
  <2>1. CASE down = "function"
    BY <1>3, <2>1 DEF Release, ring, TypeOK, BufferFills
  <2>2. CASE down # "function"
    BY <1>3, <2>2, HandlerEffect DEF Release, TypeOK, BufferFills
  <2> QED BY <2>1, <2>2
<1>4. ASSUME Shift PROVE TypeOK' /\ (BufferFills => BufferFills')
  <2>1. ShiftKey \in Keys \union {NoKey}
    BY DEF ShiftKey, Keys
  <2> QED BY <1>4, <2>1, HandlerEffect DEF Shift, TypeOK, BufferFills
<1> QED BY <1>2, <1>3, <1>4 DEF Keyboard

\* The buffers bs, the typed lines ts and the counts ns are in order: the buffers are
\* filled by the first characters, and no further.
LinesAre(bs, ts, ns) ==
  /\ bs \in [Readers -> Seq(Letters)] /\ ts \in [Readers -> Seq(Letters)]
  /\ ns \in [Readers -> Nat]
  /\ \A p \in Readers :
       Len(bs[p]) <= LineSize /\ Len(ts[p]) <= MaxCount /\ Fills(bs[p], ns[p])

LinesOK == LinesAre(buf, typed, count)

\* One reader's line may be replaced by another that is in order.
LEMMA LineReplaced ==
  ASSUME NEW bs, NEW ts, NEW ns, LinesAre(bs, ts, ns), NEW p \in Readers,
         NEW b \in Seq(Letters), NEW n \in Nat, Fills(b, n)
  PROVE  LinesAre([bs EXCEPT ![p] = b], ts, [ns EXCEPT ![p] = n])
<1>1. LineSize \in Nat /\ Len(b) <= LineSize
  BY SizeAssumption DEF Fills
<1> QED BY <1>1 DEF LinesAre

\* One reader's line may be emptied.
LEMMA LineEmptied ==
  ASSUME NEW bs, NEW ts, NEW ns, LinesAre(bs, ts, ns), NEW p \in Readers
  PROVE  LinesAre([bs EXCEPT ![p] = <<>>], [ts EXCEPT ![p] = <<>>], [ns EXCEPT ![p] = 0])
<1>1. /\ <<>> \in Seq(Letters) /\ Len(<<>>) = 0 /\ 0 \in Nat /\ MaxCount \in Nat
      /\ Fills(<<>>, 0)
  BY SizeAssumption, BoundAssumption DEF Fills
<1>2. LinesAre([bs EXCEPT ![p] = <<>>], ts, [ns EXCEPT ![p] = 0])
  BY <1>1, LineReplaced
<1> HIDE DEF LinesAre
<1>3. \A q \in Readers : Len([ts EXCEPT ![p] = <<>>][q]) <= MaxCount
  BY <1>1 DEF LinesAre
<1>4. [ts EXCEPT ![p] = <<>>] \in [Readers -> Seq(Letters)]
  BY <1>1 DEF LinesAre
<1> QED BY <1>2, <1>3, <1>4 DEF LinesAre

\* A step that leaves LinesOK and the rest typed keeps both.
RestOK ==
  /\ actualKey \in Keys \union {NoKey} /\ key \in [Readers -> Keys \union {NoKey}]
  /\ node \in [Nodes -> Readers \union {Other}]
  /\ head \in Nodes /\ tail \in Nodes /\ size \in Nat /\ reg \in [Readers -> Nat]
  /\ pstate \in [Readers -> {0, 1}] /\ pc \in [Readers -> Pcs]
  /\ current \in Readers \union {Other}
  /\ limit \in [Readers -> {-1, 1}] /\ count \in [Readers -> Nat]
  /\ mayus \in BOOLEAN /\ shift \in BOOLEAN /\ down \in {NoKey, "ascii", "function"}
  /\ hits \in 0..MaxHits /\ seen \subseteq Disturbances

\* The types are those of the lines and those of the rest.
LEMMA PartsTyped == TypeOK /\ BufferFills <=> RestOK /\ LinesOK
BY DEF TypeOK, BufferFills, RestOK, LinesOK, LinesAre, Fills, Letters

\* A step of a reader keeps the lines in order.
LEMMA LinesReaders ==
  ASSUME LinesOK, NEW p \in Readers, Reader(p)
  PROVE  LinesOK'
<1>1. /\ buf[p] \in Seq(Letters) /\ Len(buf[p]) \in Nat /\ count[p] \in Nat
      /\ Len(buf[p]) = IF count[p] < LineSize THEN count[p] ELSE LineSize
      /\ LineSize \in Nat
      /\ count \in [Readers -> Nat] /\ buf \in [Readers -> Seq(Letters)]
  BY SizeAssumption DEF LinesOK, LinesAre, Fills
<1>3. CASE UNCHANGED line
  BY <1>3 DEF LinesOK, line
<1>4. CASE Read(p)
  BY <1>4, LineEmptied DEF Read, LinesOK
<1>5. CASE Char(p)
  <2> DEFINE c == IF mayus THEN "A" ELSE "a"
  <2>1. c \in Letters
    BY DEF Letters
  <2>2. buf' = [buf EXCEPT ![p] = Stored(buf[p], count[p], c)]
    BY <1>5 DEF Char
  <2>3. count' = [count EXCEPT ![p] = count[p] + 1] /\ typed' = typed
    BY <1>5 DEF Char
  <2> HIDE DEF c
  <2>4. /\ Stored(buf[p], count[p], c) \in Seq(Letters)
        /\ Len(Stored(buf[p], count[p], c)) = IF count[p] < LineSize THEN Len(buf[p]) + 1
                                              ELSE Len(buf[p])
    BY <1>1, <2>1, StoredIs
  <2>5. Fills(Stored(buf[p], count[p], c), count[p] + 1) /\ count[p] + 1 \in Nat
    BY <1>1, <2>4 DEF Fills
  <2> QED BY <1>1, <2>2, <2>3, <2>4, <2>5, LineReplaced DEF LinesOK
<1>6. CASE Backspace(p)
  <2> DEFINE n == IF count[p] > 0 THEN count[p] - 1 ELSE count[p]
  <2>1. n \in Nat /\ count' = [count EXCEPT ![p] = n] /\ typed' = typed
    BY <1>1, <1>6 DEF Backspace
  <2>2. count'[p] = n
    BY <1>1, <2>1
  <2>3. buf' = [buf EXCEPT ![p] = Left(buf[p], n)]
    BY <1>6, <2>2 DEF Backspace
  <2>4. /\ Left(buf[p], n) \in Seq(Letters)
        /\ Len(Left(buf[p], n)) = IF n < Len(buf[p]) THEN n ELSE Len(buf[p])
    BY <1>1, <2>1, LeftIs
  <2>5. Fills(Left(buf[p], n), n)
    BY <1>1, <2>4 DEF Fills
  <2> HIDE DEF n
  <2> QED BY <2>1, <2>3, <2>4, <2>5, LineReplaced DEF LinesOK
<1>7. CASE Exit(p)
  BY <1>7, LineEmptied DEF Exit, LinesOK
<1>8. LoadKey(p) \/ ClearKey(p) \/ NoChar(p) \/ Return(p) \/ Wait(p) => UNCHANGED line
  BY DEF LoadKey, ClearKey, NoChar, Return, Wait
<1> QED BY <1>3, <1>4, <1>5, <1>6, <1>7, <1>8 DEF Reader

\* A step of a reader keeps the types of the rest.
LEMMA RestReaders ==
  ASSUME RestOK, NEW p \in Readers, Reader(p)
  PROVE  RestOK'
<1>2. \A n \in Nodes : Successor(n) \in Nodes
  BY SizeAssumption DEF Nodes, Successor
<1>3. Switch => current' \in Readers \union {Other}
  BY DEF Switch
<1>4. CASE Read(p)
  <2>1. node' \in [Nodes -> Readers \union {Other}] /\ tail' \in Nodes /\ size' \in Nat
    BY <1>2, <1>4 DEF RestOK, Read
  <2>2. /\ pstate' \in [Readers -> {0, 1}] /\ pc' \in [Readers -> Pcs]
        /\ count' \in [Readers -> Nat] /\ current' \in Readers \union {Other}
    BY <1>3, <1>4 DEF RestOK, Read, Goto, Pcs
  <2> QED BY <1>4, <2>1, <2>2 DEF RestOK, Read, user
<1>5. CASE LoadKey(p)
  BY <1>5 DEF RestOK, LoadKey, Goto, Pcs, ResumedPcs, ring, line, user
<1>6. CASE ClearKey(p)
  BY <1>6 DEF RestOK, ClearKey, Goto, Pcs, ResumedPcs, ring, line, user
<1>7. CASE Char(p)
  BY <1>7 DEF RestOK, Char, Loop, Done, Goto, Pcs, ResumedPcs, ring, user
<1>8. CASE Backspace(p)
  <2>1. count' \in [Readers -> Nat]
    BY <1>8 DEF RestOK, Backspace
  <2> QED BY <1>8, <2>1 DEF RestOK, Backspace, Loop, Done, Goto, Pcs, ResumedPcs, ring, user
<1>9. CASE NoChar(p)
  BY <1>9 DEF RestOK, NoChar, Loop, Done, Goto, Pcs, ResumedPcs, ring, line, user
<1>10. CASE Return(p)
  BY <1>10 DEF RestOK, Return, Done, Goto, Pcs, ring, line, user
<1>11. CASE Exit(p)
  BY <1>3, <1>11 DEF RestOK, Exit, Done, Goto, Pcs, ring, user
<1>12. CASE Wait(p)
  <2>1. CASE pc[p] = "block"
    BY <1>12, <2>1 DEF RestOK, Wait, Goto, Pcs, ResumedPcs, ring, line, user
  <2>2. CASE pc[p] = "put"
    BY <1>2, <1>12, <2>2 DEF RestOK, Wait, Goto, Pcs, ResumedPcs, ring, line, user
  <2>3. CASE pc[p] = "size"
    BY <1>12, <2>3 DEF RestOK, Wait, Goto, Pcs, ResumedPcs, ring, line, user
  <2>4. CASE pc[p] = "store"
    BY <1>3, <1>12, <2>4 DEF RestOK, Wait, Goto, Pcs, ring, line, user
  <2> QED BY <1>12, <2>1, <2>2, <2>3, <2>4 DEF Wait
<1> QED
  BY <1>4, <1>5, <1>6, <1>7, <1>8, <1>9, <1>10, <1>11, <1>12 DEF Reader

\* Every step keeps the types.
LEMMA TypesStep ==
  ASSUME TypeOK, BufferFills, [Next]_vars
  PROVE  TypeOK' /\ BufferFills'
<1>1. RestOK /\ LinesOK
  BY PartsTyped
<1>2. (RestOK /\ LinesOK => TypeOK /\ BufferFills)'
  BY PartsTyped, PTL
<1>3. CASE Tick
  <2>1. hits' \in 0..MaxHits
    BY <1>3, BoundAssumption DEF TypeOK, Tick
  <2>2. seen' \subseteq Disturbances
    BY <1>3 DEF TypeOK, Tick, Sees, Disturbances
  <2>3. current' \in Readers \union {Other}
    BY <1>3 DEF Tick, Switch
  <2> QED BY <1>3, <2>1, <2>2, <2>3 DEF TypeOK, BufferFills, Tick, ring, line, user
<1>4. CASE Keyboard
  BY <1>4, TypesKeyboard
<1>5. CASE StartFg
  BY <1>5 DEF TypeOK, BufferFills, StartFg, Goto, Pcs, ring, user, Readers
<1>6. ASSUME NEW p \in Readers, Reader(p) PROVE TypeOK' /\ BufferFills'
  BY <1>1, <1>2, <1>6, LinesReaders, RestReaders
<1>7. CASE UNCHANGED vars
  BY <1>7 DEF TypeOK, BufferFills, vars, ring, line, user
<1> QED BY <1>3, <1>4, <1>5, <1>6, <1>7 DEF Next

-----------------------------------------------------------------------------
\* A reader that waits has the CPU only when it is ready, and beside a foreground process
\* the shell waits, or has just started it.
Dispatched ==
  /\ \A p \in Readers : current = p /\ pc[p] = "wait" => pstate[p] = 1
  /\ pc["fg"] # "gone" =>
       pc["shell"] \in {"user", "wait"} /\ (current = "shell" => pc["shell"] = "user")

\* Until an interrupt hits it, a resumed read runs.
ResumedRuns == Quiet => \A p \in Readers : pc[p] \in ResumedPcs => current = p

\* What the switch dispatches.
LEMMA SwitchIs ==
  ASSUME Switch
  PROVE  /\ \A p \in Readers : current' = p => pstate'[p] = 1
         /\ pc'["fg"] # "gone" => current' # "shell"
<1>1. \A p \in Readers : current' = p => Eligible(p)'
  BY DEF Switch, Readers, Other
<1> QED BY <1>1 DEF Eligible, Readers

\* What is quiet now has always been quiet.
LEMMA QuietBefore ==
  ASSUME seen \subseteq seen'
  PROVE  (Quiet' => Quiet) /\ (seen' = {} => seen = {})
BY DEF Quiet

\* Disturbances are never forgotten.
LEMMA SeenGrows ==
  ASSUME TypeOK, [Next]_vars
  PROVE  seen \subseteq seen'
<1>1. Tick \/ StartFg => seen \subseteq seen'
  BY DEF Tick, Sees, StartFg
<1>2. Keyboard => seen \subseteq seen'
  BY DEF Keyboard, Press, Release, Shift, keyboard_handler, Sees
<1>3. \A p \in Readers : Reader(p) => seen' = seen
  BY DEF Reader, Read, LoadKey, ClearKey, Char, Backspace, NoChar, Return, Exit, Wait
<1> QED BY <1>1, <1>2, <1>3 DEF Next, vars

\* Of pc, current and pstate the keyboard only raises pstate.
LEMMA KeyboardEffect ==
  ASSUME TypeOK, Keyboard
  PROVE  /\ \A p \in Readers : pstate[p] = 1 => pstate'[p] = 1
         /\ UNCHANGED <<pc, current>>
<1>1. ASSUME NEW k \in Keys \ {"shift"}, Press(k)
      PROVE  (\A p \in Readers : pstate[p] = 1 => pstate'[p] = 1) /\ UNCHANGED <<pc, current>>
  BY <1>1, HandlerEffect DEF Press
<1>2. ASSUME Release
      PROVE  (\A p \in Readers : pstate[p] = 1 => pstate'[p] = 1) /\ UNCHANGED <<pc, current>>
  BY <1>2, HandlerEffect DEF Release
<1>3. ASSUME Shift
      PROVE  (\A p \in Readers : pstate[p] = 1 => pstate'[p] = 1) /\ UNCHANGED <<pc, current>>
  BY <1>3, HandlerEffect DEF Shift, ShiftKey, Keys
<1> QED BY <1>1, <1>2, <1>3 DEF Keyboard

\* The step of a reader: it has the CPU, and keeps it until it waits or ends.
LEMMA ReaderControl ==
  ASSUME TypeOK, Dispatched, NEW p \in Readers, Reader(p)
  PROVE  /\ current = p /\ pc[p] # "gone"
         /\ \E l \in Pcs :
              /\ pc' = [pc EXCEPT ![p] = l]
              /\ \/ l \notin {"wait", "gone"} /\ pc[p] # "user" /\ UNCHANGED current
                 \/ l = "wait" /\ Switch
                 \/ l = "gone" /\ Switch /\ (p = "fg" \/ pc[p] = "handle")
<1> DEFINE Steps(l) == pc' = [pc EXCEPT ![p] = l]
           Goal == \E l \in Pcs :
              /\ Steps(l)
              /\ \/ l \notin {"wait", "gone"} /\ pc[p] # "user" /\ UNCHANGED current
                 \/ l = "wait" /\ Switch
                 \/ l = "gone" /\ Switch /\ (p = "fg" \/ pc[p] = "handle")
<1>0. Pcs = {"user", "wait", "gone", "clear", "handle", "block", "put", "size", "store"}
  BY DEF Pcs, ResumedPcs
<1>1. CASE Read(p)
  BY <1>0, <1>1 DEF Read, Runs, Goto
<1>2. CASE LoadKey(p)
  BY <1>0, <1>2 DEF LoadKey, Runs, Goto
<1>3. CASE ClearKey(p)
  BY <1>0, <1>3 DEF ClearKey, Runs, Goto
<1>4. CASE Char(p)
  BY <1>0, <1>4 DEF Char, Runs, Loop, Goto
<1>5. CASE Backspace(p)
  BY <1>0, <1>5 DEF Backspace, Runs, Loop, Goto
<1>6. CASE NoChar(p)
  BY <1>0, <1>6 DEF NoChar, Runs, Loop, Goto
<1>7. CASE Return(p)
  BY <1>0, <1>7 DEF Return, Runs, Goto
<1>8. CASE Exit(p)
  <2>1. p = "fg" \/ pc[p] = "handle"
    BY <1>8 DEF Exit
  <2>2. pc[p] # "gone" /\ current = p /\ Steps("gone") /\ Switch
    BY <1>8 DEF Exit, Goto
  <2> QED BY <1>0, <2>1, <2>2
<1>9. CASE Wait(p)
  <2>1. CASE pc[p] = "block"
    BY <1>0, <1>9, <2>1 DEF Wait, Goto
  <2>2. CASE pc[p] = "put"
    BY <1>0, <1>9, <2>2 DEF Wait, Goto
  <2>3. CASE pc[p] = "size"
    BY <1>0, <1>9, <2>3 DEF Wait, Goto
  <2>4. CASE pc[p] = "store"
    BY <1>0, <1>9, <2>4 DEF Wait, Goto
  <2> QED BY <1>9, <2>1, <2>2, <2>3, <2>4 DEF Wait
<1> QED
  BY <1>1, <1>2, <1>3, <1>4, <1>5, <1>6, <1>7, <1>8, <1>9 DEF Reader

\* Every step keeps to the rule by which readers are dispatched.
LEMMA DispatchedStep ==
  ASSUME TypeOK, Dispatched, [Next]_vars
  PROVE  Dispatched'
<1>1. CASE Tick
  <2>1. UNCHANGED <<pc, pstate>> /\ Switch
    BY <1>1 DEF Tick
  <2> QED BY <2>1, SwitchIs DEF Dispatched
<1>2. CASE Keyboard
  BY <1>2, KeyboardEffect DEF Dispatched
<1>3. CASE StartFg
  BY <1>3 DEF TypeOK, Dispatched, StartFg, Runs, Goto, Readers
<1>4. ASSUME NEW p \in Readers, Reader(p) PROVE Dispatched'
  <2>1. PICK l \in Pcs :
          /\ pc' = [pc EXCEPT ![p] = l]
          /\ \/ l \notin {"wait", "gone"} /\ pc[p] # "user" /\ UNCHANGED current
             \/ l = "wait" /\ Switch
             \/ l = "gone" /\ Switch /\ (p = "fg" \/ pc[p] = "handle")
    BY <1>4, ReaderControl
  <2>2. current = p /\ pc[p] # "gone"
    BY <1>4, ReaderControl
  <2>3. /\ pc'[p] = l /\ \A q \in Readers : q # p => pc'[q] = pc[q]
        /\ p \in {"shell", "fg"} /\ {"shell", "fg"} = Readers
    BY <2>1 DEF TypeOK, Readers
  <2>4. CASE l \notin {"wait", "gone"} /\ pc[p] # "user" /\ UNCHANGED current
    BY <2>2, <2>3, <2>4 DEF Dispatched
  <2>5. CASE l = "wait" /\ Switch
    BY <2>2, <2>3, <2>5, SwitchIs DEF Dispatched
  <2>6. CASE l = "gone" /\ Switch /\ (p = "fg" \/ pc[p] = "handle")
    BY <2>2, <2>3, <2>6, SwitchIs DEF Dispatched
  <2> QED BY <2>1, <2>4, <2>5, <2>6
<1>5. CASE UNCHANGED vars
  BY <1>5 DEF Dispatched, vars
<1> QED BY <1>1, <1>2, <1>3, <1>4, <1>5 DEF Next

\* Every step keeps a resumed reader at the CPU while nothing interrupts it.
LEMMA ResumedStep ==
  ASSUME TypeOK, Dispatched, ResumedRuns, [Next]_vars
  PROVE  ResumedRuns'
<1> SUFFICES ASSUME Quiet' PROVE \A p \in Readers : pc'[p] \in ResumedPcs => current' = p
  BY DEF ResumedRuns
<1>0. Quiet /\ \A p \in Readers : pc[p] \in ResumedPcs => current = p
  BY SeenGrows, QuietBefore DEF ResumedRuns
<1>1. CASE Tick
  <2>1. UNCHANGED pc /\ (current \in Readers /\ pc[current] \in ResumedPcs => "hit" \in seen')
    BY <1>1 DEF Tick, Sees
  <2>2. "hit" \notin seen'
    BY DEF Quiet
  <2> QED BY <1>0, <2>1, <2>2
<1>2. CASE Keyboard
  BY <1>0, <1>2, KeyboardEffect
<1>3. CASE StartFg
  BY <1>0, <1>3 DEF TypeOK, StartFg, Goto, ResumedPcs
<1>4. ASSUME NEW p \in Readers, Reader(p)
      PROVE  \A q \in Readers : pc'[q] \in ResumedPcs => current' = q
  <2>1. PICK l \in Pcs :
          /\ pc' = [pc EXCEPT ![p] = l]
          /\ \/ l \notin {"wait", "gone"} /\ pc[p] # "user" /\ UNCHANGED current
             \/ l = "wait" /\ Switch
             \/ l = "gone" /\ Switch /\ (p = "fg" \/ pc[p] = "handle")
    BY <1>4, ReaderControl
  <2>2. current = p
    BY <1>4, ReaderControl
  <2>3. /\ pc'[p] = l /\ \A q \in Readers : q # p => pc'[q] = pc[q]
        /\ "wait" \notin ResumedPcs /\ "gone" \notin ResumedPcs
    BY <2>1 DEF TypeOK, ResumedPcs
  <2> QED BY <1>0, <2>1, <2>2, <2>3
<1>5. CASE UNCHANGED vars
  BY <1>0, <1>5 DEF vars
<1> QED BY <1>1, <1>2, <1>3, <1>4, <1>5 DEF Next

-----------------------------------------------------------------------------
(* The ring                                                                *)

\* The i-th place of the ring behind h.
Slot(h, i) == (h + i) % (MAX_WAITING_KEYBOARD + 1)

\* The i-th place behind h is a node of the ring; its successor is the next place.
LEMMA SlotIs ==
  ASSUME NEW h \in Nodes, NEW i \in 0..2
  PROVE  /\ Slot(h, i) = IF h + i <= MAX_WAITING_KEYBOARD THEN h + i
                         ELSE h + i - (MAX_WAITING_KEYBOARD + 1)
         /\ Slot(h, i) \in Nodes
<1>1. MAX_WAITING_KEYBOARD \in Nat \ {0} /\ h \in 0..MAX_WAITING_KEYBOARD
  BY SizeAssumption DEF Nodes
<1>2. /\ MAX_WAITING_KEYBOARD + 1 \in Nat \ {0}
      /\ h + i \in 0..(2*(MAX_WAITING_KEYBOARD + 1) - 1)
  BY <1>1
<1>3. Slot(h, i) = IF h + i < MAX_WAITING_KEYBOARD + 1 THEN h + i
                   ELSE h + i - (MAX_WAITING_KEYBOARD + 1)
  <2>1. \A P \in Nat \ {0} : \A x \in 0..(2*P - 1) : x % P = IF x < P THEN x ELSE x - P
    BY ModOnce
  <2>2. \A x \in 0..(2*(MAX_WAITING_KEYBOARD + 1) - 1) :
          x % (MAX_WAITING_KEYBOARD + 1) =
            IF x < MAX_WAITING_KEYBOARD + 1 THEN x ELSE x - (MAX_WAITING_KEYBOARD + 1)
    BY <1>2, <2>1, Zenon
  <2>3. PICK x : x = h + i
    OBVIOUS
  <2>4. x % (MAX_WAITING_KEYBOARD + 1) =
          IF x < MAX_WAITING_KEYBOARD + 1 THEN x ELSE x - (MAX_WAITING_KEYBOARD + 1)
    BY <1>2, <2>2, <2>3, Zenon
  <2>5. Slot(h, i) = x % (MAX_WAITING_KEYBOARD + 1)
    BY <2>3 DEF Slot
  <2> QED BY <1>1, <2>3, <2>4, <2>5
<1>4. h + i < MAX_WAITING_KEYBOARD + 1 <=> h + i <= MAX_WAITING_KEYBOARD
  BY <1>1
<1>5. Slot(h, i) = IF h + i <= MAX_WAITING_KEYBOARD THEN h + i
                   ELSE h + i - (MAX_WAITING_KEYBOARD + 1)
  BY <1>3, <1>4
<1>6. Slot(h, i) \in 0..MAX_WAITING_KEYBOARD
  BY <1>1, <1>5
<1> QED BY <1>5, <1>6 DEF Nodes

\* Different places behind h are different nodes.
LEMMA SlotsAre ==
  ASSUME NEW h \in Nodes
  PROVE  /\ Slot(h, 0) = h /\ Slot(h, 0) # Slot(h, 1)
         /\ Successor(h) \in Nodes
         /\ \A i \in 0..1 : /\ Successor(Slot(h, i)) = Slot(h, i+1)
                            /\ Slot(Successor(h), i) = Slot(h, i+1)
<1>1. MAX_WAITING_KEYBOARD \in Nat \ {0} /\ h \in 0..MAX_WAITING_KEYBOARD
  BY SizeAssumption DEF Nodes
<1>2. Successor(h) \in Nodes
  BY <1>1 DEF Successor, Nodes
<1>3. /\ Slot(h, 0) = h
      /\ Slot(h, 1) = IF h + 1 <= MAX_WAITING_KEYBOARD THEN h + 1 ELSE h - MAX_WAITING_KEYBOARD
      /\ Slot(h, 2) = IF h + 2 <= MAX_WAITING_KEYBOARD THEN h + 2
                      ELSE h + 1 - MAX_WAITING_KEYBOARD
  BY <1>1, SlotIs
<1>4. Slot(Successor(h), 0) = Slot(h, 1)
  BY <1>1, <1>2, <1>3, SlotIs DEF Successor
<1>5. Slot(Successor(h), 1) = Slot(h, 2)
  BY <1>1, <1>2, <1>3, SlotIs DEF Successor
<1>6. Successor(Slot(h, 0)) = Slot(h, 1) /\ Successor(Slot(h, 1)) = Slot(h, 2)
  BY <1>1, <1>3 DEF Successor
<1>7. \A i \in 0..1 : i = 0 \/ i = 1
  OBVIOUS
<1> QED BY <1>1, <1>2, <1>3, <1>4, <1>5, <1>6, <1>7

\* The n places of a ring from h on name the readers of B, each once.
Names(nd, h, n, B) ==
  /\ n \in 0..2
  /\ \A i \in 0..(n-1) : nd[Slot(h, i)] \in B
  /\ \A i, j \in 0..(n-1) : nd[Slot(h, i)] = nd[Slot(h, j)] => i = j
  /\ \A p \in B : \E i \in 0..(n-1) : nd[Slot(h, i)] = p

\* Another reader finds a free node.
LEMMA NamesRoom ==
  ASSUME NEW nd, NEW h \in Nodes, NEW n, NEW B \in SUBSET Readers, Names(nd, h, n, B),
         NEW p \in Readers \ B
  PROVE  n \in {0, 1}
<1>1. CASE n = 2
  <2>1. 0 \in 0..(n-1) /\ 1 \in 0..(n-1) /\ 0 # 1
    BY <1>1
  <2>2. nd[Slot(h, 0)] \in B /\ nd[Slot(h, 1)] \in B /\ nd[Slot(h, 0)] # nd[Slot(h, 1)]
    BY <2>1 DEF Names
  <2> QED BY <2>2 DEF Readers
<1> QED BY <1>1 DEF Names

\* A reader is written into a node.
Written(nd, n, p) == [nd EXCEPT ![n] = p]

\* It is written behind the others.
LEMMA NamesWritten ==
  ASSUME NEW nd \in [Nodes -> Readers \union {Other}], NEW h \in Nodes, NEW n \in {0, 1},
         NEW B, Names(nd, h, n, B), NEW p \in Readers
  PROVE  /\ Names(Written(nd, Slot(h, n), p), h, n, B)
         /\ Written(nd, Slot(h, n), p)[Slot(h, n)] = p
<1> DEFINE m == [nd EXCEPT ![Slot(h, n)] = p]
<1>1. Slot(h, n) \in Nodes /\ Slot(h, 0) \in Nodes /\ Slot(h, 0) # Slot(h, 1)
  BY SlotIs, SlotsAre
<1>2. m[Slot(h, n)] = p
  BY <1>1
<1>3. \A i \in 0..(n-1) : i = 0 /\ n = 1
  OBVIOUS
<1>4. \A i \in 0..(n-1) : m[Slot(h, i)] = nd[Slot(h, i)]
  BY <1>1, <1>3
<1> HIDE DEF m
<1>5. Names(m, h, n, B)
  BY <1>4 DEF Names
<1> QED BY <1>2, <1>5 DEF m, Written

\* And counted.
LEMMA NamesExtended ==
  ASSUME NEW nd, NEW h \in Nodes, NEW n \in {0, 1}, NEW B, Names(nd, h, n, B),
         NEW p, p \notin B, nd[Slot(h, n)] = p
  PROVE  Names(nd, h, n + 1, B \union {p})
<1>1. \A i \in 0..n : i \in 0..(n-1) \/ i = n
  OBVIOUS
<1>2. \A i \in 0..(n-1) : i \in 0..n /\ nd[Slot(h, i)] \in B
  BY DEF Names
<1>3. \A i \in 0..n : nd[Slot(h, i)] \in B \union {p}
  BY <1>1, <1>2
<1>4. ASSUME NEW i \in 0..n, NEW j \in 0..n, nd[Slot(h, i)] = nd[Slot(h, j)]
      PROVE  i = j
  BY <1>1, <1>2, <1>4 DEF Names
<1>5. \A q \in B \union {p} : \E i \in 0..n : nd[Slot(h, i)] = q
  <2>1. n \in 0..n
    OBVIOUS
  <2> QED BY <1>2, <2>1 DEF Names
<1>6. n + 1 \in 0..2 /\ (n + 1) - 1 = n
  OBVIOUS
<1> HIDE DEF Slot
<1> QED BY <1>3, <1>4, <1>5, <1>6 DEF Names

\* The keyboard takes the first one out.
LEMMA NamesWoken ==
  ASSUME NEW nd, NEW h \in Nodes, NEW n, NEW B, Names(nd, h, n, B), n # 0
  PROVE  /\ nd[h] \in B
         /\ Names(nd, Successor(h), n - 1, B \ {nd[h]})
         /\ Slot(Successor(h), n - 1) = Slot(h, n)
<1>1. n \in {1, 2}
  BY DEF Names
<1>2. Slot(h, 0) = h /\ 0 \in 0..(n-1)
  BY <1>1, SlotsAre
<1>3. \A i \in 0..1 : Slot(Successor(h), i) = Slot(h, i+1)
  BY SlotsAre
<1>4. \A i \in 0..((n-1)-1) : i \in 0..1 /\ i + 1 \in 0..(n-1) /\ i + 1 # 0
  BY <1>1
<1>5. nd[h] \in B
  BY <1>2 DEF Names
<1>6. \A i \in 0..((n-1)-1) : nd[Slot(Successor(h), i)] = nd[Slot(h, i+1)]
  BY <1>3, <1>4
<1>7. \A i \in 0..((n-1)-1) : nd[Slot(Successor(h), i)] \in B \ {nd[h]}
  <2>1. ASSUME NEW i \in 0..((n-1)-1) PROVE nd[Slot(h, i+1)] \in B \ {nd[h]}
    BY <1>2, <1>4 DEF Names
  <2> QED BY <1>6, <2>1
<1>8. ASSUME NEW i \in 0..((n-1)-1), NEW j \in 0..((n-1)-1),
             nd[Slot(Successor(h), i)] = nd[Slot(Successor(h), j)]
      PROVE  i = j
  <2>1. nd[Slot(h, i+1)] = nd[Slot(h, j+1)]
    BY <1>6, <1>8
  <2>2. i + 1 = j + 1
    BY <1>4, <2>1 DEF Names
  <2> QED BY <2>2
<1>9. ASSUME NEW q \in B \ {nd[h]}
      PROVE  \E i \in 0..((n-1)-1) : nd[Slot(Successor(h), i)] = q
  <2>1. PICK k \in 0..(n-1) : nd[Slot(h, k)] = q
    BY DEF Names
  <2>2. k # 0
    BY <1>2, <2>1
  <2>3. k - 1 \in 0..((n-1)-1) /\ (k-1) + 1 = k
    BY <1>1, <2>2
  <2>4. nd[Slot(Successor(h), k-1)] = q
    BY <1>6, <2>1, <2>3
  <2> QED BY <2>3, <2>4
<1>10. n - 1 \in 0..2 /\ n - 1 \in 0..1 /\ (n-1) + 1 = n
  BY <1>1
<1> QED BY <1>3, <1>5, <1>7, <1>8, <1>9, <1>10 DEF Names

\* The readers that the ring should name.
BlockedReaders == {p \in Readers : Blocked(p)}

\* Until an interrupt splits waitForKeyboard, the ring names exactly the blocked readers,
\* and one that is about to be counted is written behind them.
RingHolds ==
  Quiet =>
    /\ Names(node, head, size, BlockedReaders)
    /\ (\A p \in Readers : pc[p] \notin {"size", "store"}) => tail = Slot(head, size)
    /\ \A p \in Readers :
         /\ pc[p] \in {"put", "size", "store"} => pstate[p] = 0
         /\ pc[p] \in {"size", "store"} =>
              node[Slot(head, size)] = p /\ tail = Slot(head, size + 1)
         /\ pc[p] = "store" => reg[p] = size

\* A step that leaves the ring and who is blocked or half way alone.
LEMMA RingFrame ==
  ASSUME RingHolds, Quiet' => Quiet, UNCHANGED ring,
         NEW p \in Readers, UNCHANGED pstate \/ pstate' = [pstate EXCEPT ![p] = 1],
         pc \in [Readers -> Pcs], pstate \in [Readers -> {0, 1}], UNCHANGED reg,
         NEW l \in {"user", "clear", "handle", "block", "gone"},
         pc' = [pc EXCEPT ![p] = l], pc[p] \notin {"size", "store"}, ~Blocked(p)
  PROVE  RingHolds'
<1> SUFFICES ASSUME Quiet' PROVE RingHolds'
  BY DEF RingHolds
<1>1. UNCHANGED BlockedReaders
  <2>1. ASSUME NEW q \in Readers PROVE Blocked(q)' <=> Blocked(q)
    <3>1. CASE q = p
      BY <3>1 DEF Blocked
    <3>2. CASE q # p
      BY <3>2 DEF Blocked
    <3> QED BY <3>1, <3>2
  <2> QED BY <2>1 DEF BlockedReaders
<1>2. \A q \in Readers :
        /\ pc'[q] \in {"put", "size", "store"} =>
             pc'[q] = pc[q] /\ pstate'[q] = pstate[q] /\ reg'[q] = reg[q]
        /\ pc[q] \in {"size", "store"} => pc'[q] = pc[q]
  OBVIOUS
<1>3. UNCHANGED <<node, head, tail, size>>
  BY DEF ring
<1>4. /\ Names(node', head', size', BlockedReaders')
      /\ (\A q \in Readers : pc'[q] \notin {"size", "store"}) => tail' = Slot(head', size')
  BY <1>1, <1>2, <1>3 DEF RingHolds
<1>5. ASSUME NEW q \in Readers
      PROVE  /\ pc'[q] \in {"put", "size", "store"} => pstate'[q] = 0
             /\ pc'[q] \in {"size", "store"} =>
                  node'[Slot(head', size')] = q /\ tail' = Slot(head', size' + 1)
             /\ pc'[q] = "store" => reg'[q] = size'
  BY <1>2, <1>3 DEF RingHolds
<1> QED BY <1>4, <1>5 DEF RingHolds, Slot

\* A key takes the oldest reader out of the ring.
LEMMA RingKeyboard ==
  ASSUME TypeOK, RingHolds, NEW k \in Keys \union {NoKey}, keyboard_handler(k)
  PROVE  RingHolds'
<1> SUFFICES ASSUME Quiet' PROVE RingHolds'
  BY DEF RingHolds
<1>1. /\ seen' = seen \union Disturbs(k)
      /\ UNCHANGED <<node, tail, pc, reg>> /\ awakeKeyboardQueue
  BY HandlerEffect DEF keyboard_handler
<1>2. Quiet /\ "midway" \notin Disturbs(k)
  BY <1>1 DEF Quiet
<1>3. \A p \in Readers : pc[p] \notin {"put", "size", "store"}
  BY <1>2 DEF Disturbs, Disturbances
<1>4. /\ Names(node, head, size, BlockedReaders) /\ tail = Slot(head, size)
      /\ head \in Nodes /\ pstate \in [Readers -> {0, 1}]
  BY <1>2, <1>3 DEF RingHolds, TypeOK
<1>5. CASE size = 0 /\ UNCHANGED <<size, pstate, head>>
  <2>1. UNCHANGED BlockedReaders
    BY <1>1, <1>5 DEF BlockedReaders, Blocked
  <2> QED BY <1>1, <1>3, <1>4, <1>5, <2>1 DEF RingHolds, Slot
<1>6. CASE /\ size > 0 /\ size' = size - 1
           /\ pstate' = [p \in Readers |-> IF p = node[head] THEN 1 ELSE pstate[p]]
           /\ head' = Successor(head)
  <2>1. BlockedReaders' = BlockedReaders \ {node[head]}
    BY <1>1, <1>4, <1>6 DEF BlockedReaders, Blocked
  <2>2. size # 0
    BY <1>6
  <2>3. /\ Names(node, Successor(head), size - 1, BlockedReaders \ {node[head]})
        /\ Slot(Successor(head), size - 1) = Slot(head, size)
    BY <1>4, <2>2, NamesWoken
  <2>4. Names(node', head', size', BlockedReaders') /\ tail' = Slot(head', size')
    BY <1>1, <1>4, <1>6, <2>1, <2>3
  <2> QED BY <1>1, <1>3, <2>4 DEF RingHolds, Slot
<1> QED BY <1>1, <1>5, <1>6 DEF awakeKeyboardQueue

\* Every step keeps the ring in order.
LEMMA RingStep ==
  ASSUME TypeOK, Dispatched, ResumedRuns, RingHolds, [Next]_vars
  PROVE  RingHolds'
<1> SUFFICES ASSUME Quiet' PROVE RingHolds'
  BY DEF RingHolds
<1>0. /\ Quiet /\ (Quiet' => Quiet) /\ pc \in [Readers -> Pcs] /\ pstate \in [Readers -> {0, 1}]
      /\ head \in Nodes /\ node \in [Nodes -> Readers \union {Other}]
      /\ BlockedReaders \in SUBSET Readers
      /\ \A p \in Readers : pc[p] \in ResumedPcs => current = p
  BY SeenGrows, QuietBefore DEF TypeOK, ResumedRuns, BlockedReaders
<1>1. CASE UNCHANGED <<ring, pc, pstate, reg>>
  <2>1. UNCHANGED <<BlockedReaders, node, head, tail, size>>
    BY <1>1 DEF BlockedReaders, Blocked, ring
  <2> QED BY <1>0, <1>1, <2>1 DEF RingHolds, Slot
<1>2. CASE Keyboard
  <2>1. ASSUME NEW k \in Keys \ {"shift"}, Press(k) PROVE RingHolds'
    BY <2>1, RingKeyboard DEF Press
  <2>2. CASE Release /\ down = "function"
    BY <1>1, <2>2 DEF Release
  <2>3. CASE Release /\ down # "function"
    BY <2>3, RingKeyboard DEF Release
  <2>4. CASE Shift
    BY <2>4, RingKeyboard DEF Shift, ShiftKey, Keys
  <2> QED BY <1>2, <2>1, <2>2, <2>3, <2>4 DEF Keyboard
<1>3. CASE StartFg
  <2>1. /\ "fg" \in Readers /\ pc' = [pc EXCEPT !["fg"] = "user"] /\ pc["fg"] = "gone"
        /\ pstate' = [pstate EXCEPT !["fg"] = 1] /\ UNCHANGED <<ring, reg>>
    BY <1>3 DEF StartFg, Goto, Readers
  <2>2. ~Blocked("fg")
    BY <2>1 DEF Blocked
  <2> QED BY <1>0, <2>1, <2>2, RingFrame
<1>4. ASSUME NEW p \in Readers, current = p, pc[p] \notin {"size", "store"}
      PROVE  tail = Slot(head, size)
  <2>1. \A q \in Readers : pc[q] \notin {"size", "store"}
    BY <1>0, <1>4 DEF ResumedPcs
  <2> QED BY <1>0, <2>1 DEF RingHolds
<1>5. ASSUME NEW p \in Readers, Read(p) PROVE RingHolds'
  <2>1. /\ current = p /\ pc[p] = "user"
        /\ pc' = [pc EXCEPT ![p] = "wait"] /\ pstate' = [pstate EXCEPT ![p] = 0]
        /\ node' = [node EXCEPT ![tail] = p] /\ tail' = Successor(tail)
        /\ size' = size + 1 /\ UNCHANGED <<head, reg>>
    BY <1>5 DEF Read, Runs, Goto
  <2>2. p \notin BlockedReaders
    BY <2>1 DEF BlockedReaders, Blocked
  <2>3. BlockedReaders' = BlockedReaders \union {p}
    BY <1>0, <2>1 DEF BlockedReaders, Blocked
  <2>4. tail = Slot(head, size) /\ Names(node, head, size, BlockedReaders)
    BY <1>0, <1>4, <2>1 DEF RingHolds
  <2>5. size \in {0, 1}
    BY <1>0, <2>2, <2>4, NamesRoom
  <2>6. Names(node', head, size, BlockedReaders) /\ node'[Slot(head, size)] = p
    <3>1. node' = Written(node, Slot(head, size), p)
      BY <2>1, <2>4 DEF Written
    <3> QED BY <1>0, <2>4, <2>5, <3>1, NamesWritten
  <2>7. Names(node', head, size + 1, BlockedReaders \union {p})
    BY <1>0, <2>2, <2>5, <2>6, NamesExtended
  <2>8. Successor(Slot(head, size)) = Slot(head, size + 1)
    BY <1>0, <2>5, SlotsAre
  <2>9. Names(node', head', size', BlockedReaders') /\ tail' = Slot(head', size')
    BY <2>1, <2>3, <2>4, <2>7, <2>8
  <2>10. \A q \in Readers : pc'[q] \notin {"put", "size", "store"}
    BY <1>0, <2>1 DEF ResumedPcs
  <2> QED BY <2>9, <2>10 DEF RingHolds, Slot
<1>6. ASSUME NEW p \in Readers,
             \/ LoadKey(p) \/ ClearKey(p) \/ Char(p) \/ Backspace(p) \/ NoChar(p)
             \/ Return(p) \/ Exit(p)
      PROVE  RingHolds'
  <2>1. /\ current = p /\ UNCHANGED <<ring, pstate, reg>>
        /\ pc[p] \in {"wait", "clear", "handle", "user"}
        /\ \E l \in {"user", "clear", "handle", "block", "gone"} : pc' = [pc EXCEPT ![p] = l]
    <3>1. CASE LoadKey(p)
      BY <3>1 DEF LoadKey, Runs, Goto
    <3>2. CASE ClearKey(p)
      BY <3>2 DEF ClearKey, Runs, Goto
    <3>3. CASE Char(p)
      BY <3>3 DEF Char, Runs, Loop, Goto
    <3>4. CASE Backspace(p)
      BY <3>4 DEF Backspace, Runs, Loop, Goto
    <3>5. CASE NoChar(p)
      BY <3>5 DEF NoChar, Runs, Loop, Goto
    <3>6. CASE Return(p)
      BY <3>6 DEF Return, Runs, Goto
    <3>7. CASE Exit(p)
      BY <3>7 DEF Exit, Goto
    <3> QED BY <1>6, <3>1, <3>2, <3>3, <3>4, <3>5, <3>6, <3>7
  <2>2. ~Blocked(p)
    BY <2>1 DEF Dispatched, Blocked
  <2> QED BY <1>0, <2>1, <2>2, RingFrame
<1>7. ASSUME NEW p \in Readers, Wait(p) PROVE RingHolds'
  <2>0. /\ current = p /\ p \notin BlockedReaders
        /\ \A q \in Readers : q # p => pc[q] \notin ResumedPcs
        /\ Names(node, head, size, BlockedReaders) /\ size \in {0, 1}
    <3>1. current = p /\ pc[p] # "wait"
      BY <1>7 DEF Wait
    <3>2. p \in Readers \ BlockedReaders
      BY <3>1 DEF BlockedReaders, Blocked
    <3>3. Names(node, head, size, BlockedReaders)
      BY <1>0 DEF RingHolds
    <3> QED BY <1>0, <3>1, <3>2, <3>3, NamesRoom
  <2>1. CASE pc[p] = "block"
    <3>1. /\ pc' = [pc EXCEPT ![p] = "put"] /\ pstate' = [pstate EXCEPT ![p] = 0]
          /\ UNCHANGED <<node, head, tail, size, reg>>
      BY <1>7, <2>1 DEF Wait, Goto, ring
    <3>2. UNCHANGED BlockedReaders
      BY <1>0, <2>1, <3>1 DEF BlockedReaders, Blocked
    <3>3. tail = Slot(head, size)
      BY <1>4, <2>0, <2>1
    <3>4. \A q \in Readers : /\ pc'[q] \notin {"size", "store"}
                             /\ pc'[q] = "put" => pstate'[q] = 0
      BY <1>0, <2>0, <3>1 DEF ResumedPcs
    <3> QED BY <2>0, <3>1, <3>2, <3>3, <3>4 DEF RingHolds, Slot
  <2>2. CASE pc[p] = "put"
    <3>1. /\ pc' = [pc EXCEPT ![p] = "size"] /\ node' = [node EXCEPT ![tail] = p]
          /\ tail' = Successor(tail) /\ UNCHANGED <<head, size, pstate, reg>>
      BY <1>7, <2>2 DEF Wait, Goto
    <3>2. UNCHANGED BlockedReaders
      BY <1>0, <2>2, <3>1 DEF BlockedReaders, Blocked
    <3>3. tail = Slot(head, size) /\ node' = Written(node, Slot(head, size), p)
      BY <1>4, <2>0, <2>2, <3>1 DEF Written
    <3>4. Names(node', head, size, BlockedReaders) /\ node'[Slot(head, size)] = p
      BY <1>0, <2>0, <3>3, NamesWritten
    <3>5. tail' = Slot(head, size + 1)
      BY <1>0, <2>0, <3>1, <3>3, SlotsAre
    <3>6. \A q \in Readers : /\ pc'[q] \in {"put", "size", "store"} => q = p
                             /\ pc'[q] # "store"
      BY <1>0, <2>0, <3>1 DEF ResumedPcs
    <3>7. pc'[p] = "size" /\ pstate'[p] = 0
      BY <1>0, <2>2, <3>1 DEF RingHolds
    <3> QED BY <3>1, <3>2, <3>4, <3>5, <3>6, <3>7 DEF RingHolds, Slot
  <2>3. CASE pc[p] = "size"
    <3>1. /\ pc' = [pc EXCEPT ![p] = "store"] /\ reg' = [reg EXCEPT ![p] = size]
          /\ UNCHANGED <<node, head, tail, size, pstate>>
      BY <1>7, <2>3 DEF Wait, Goto, ring
    <3>2. UNCHANGED BlockedReaders
      BY <1>0, <2>3, <3>1 DEF BlockedReaders, Blocked
    <3>3. \A q \in Readers : pc'[q] \in {"put", "size", "store"} => q = p
      BY <1>0, <2>0, <3>1 DEF ResumedPcs
    <3>4. /\ pc'[p] = "store" /\ pstate[p] = 0 /\ node[Slot(head, size)] = p
          /\ tail = Slot(head, size + 1) /\ reg'[p] = size
      BY <1>0, <2>3, <3>1 DEF RingHolds, TypeOK
    <3> QED BY <2>0, <3>1, <3>2, <3>3, <3>4 DEF RingHolds, Slot
  <2>4. CASE pc[p] = "store"
    <3>1. /\ pc' = [pc EXCEPT ![p] = "wait"] /\ size' = reg[p] + 1
          /\ UNCHANGED <<node, head, tail, pstate>>
      BY <1>7, <2>4 DEF Wait, Goto
    <3>2. /\ pstate[p] = 0 /\ node[Slot(head, size)] = p
          /\ tail = Slot(head, size + 1) /\ reg[p] = size
      BY <1>0, <2>4 DEF RingHolds
    <3>3. BlockedReaders' = BlockedReaders \union {p}
      BY <1>0, <3>1, <3>2 DEF BlockedReaders, Blocked
    <3>4. Names(node, head, size + 1, BlockedReaders \union {p})
      BY <1>0, <2>0, <3>2, NamesExtended
    <3>5. Names(node', head', size', BlockedReaders') /\ tail' = Slot(head', size')
      BY <3>1, <3>2, <3>3, <3>4
    <3>6. \A q \in Readers : pc'[q] \notin {"put", "size", "store"}
      BY <1>0, <2>0, <3>1 DEF ResumedPcs
    <3> QED BY <3>5, <3>6 DEF RingHolds, Slot
  <2> QED BY <1>7, <2>1, <2>2, <2>3, <2>4 DEF Wait
<1>8. \A p \in Readers : Reader(p) => RingHolds'
  BY <1>5, <1>6, <1>7 DEF Reader
<1>9. CASE Tick
  BY <1>1, <1>9 DEF Tick
<1>10. CASE UNCHANGED vars
  BY <1>1, <1>10 DEF vars
<1> QED BY <1>2, <1>3, <1>8, <1>9, <1>10 DEF Next

-----------------------------------------------------------------------------
(* The line                                                                *)

\* The characters of the line s that the buffer has room for.
Shown(s) == SubSeq(s, 1, IF Len(s) < LineSize THEN Len(s) ELSE LineSize)

\* What is shown of a line.
LEMMA ShownIs ==
  ASSUME NEW s \in Seq(Letters)
  PROVE  /\ Shown(s) \in Seq(Letters) /\ Fills(Shown(s), Len(s))
         /\ \A i \in 1..Len(Shown(s)) : Shown(s)[i] = s[i]
<1> DEFINE n == IF Len(s) < LineSize THEN Len(s) ELSE LineSize
<1>1. Len(s) \in Nat /\ n \in Nat /\ n <= Len(s)
  BY SizeAssumption
<1> HIDE DEF n
<1>2. \A i \in 1..n : s[i] \in Letters
  BY <1>1
<1>3. /\ SubSeq(s, 1, n) \in Seq(Letters)
      /\ Len(SubSeq(s, 1, n)) = IF 1 <= n THEN n - 1 + 1 ELSE 0
      /\ \A i \in 1..(n - 1 + 1) : SubSeq(s, 1, n)[i] = s[1 + i - 1]
  BY <1>1, <1>2, SubSeqProperties
<1>4. Len(SubSeq(s, 1, n)) = n /\ \A i \in 1..n : SubSeq(s, 1, n)[i] = s[i]
  BY <1>1, <1>3
<1> QED BY <1>3, <1>4 DEF Shown, Fills, n

\* Storing a character and taking one off keep to what is shown.
LEMMA ShownStored ==
  ASSUME NEW s \in Seq(Letters), NEW c \in Letters
  PROVE  Stored(Shown(s), Len(s), c) = Shown(Append(s, c))
<1> DEFINE t == Append(s, c)
           u == Shown(s)
<1>1. /\ t \in Seq(Letters) /\ Len(t) = Len(s) + 1 /\ Len(s) \in Nat
      /\ t[Len(s)+1] = c /\ \A i \in 1..Len(s) : t[i] = s[i]
  OBVIOUS
<1>2. /\ u \in Seq(Letters) /\ Len(u) = IF Len(s) < LineSize THEN Len(s) ELSE LineSize
      /\ \A i \in 1..Len(u) : u[i] = s[i]
  BY ShownIs DEF Fills
<1> HIDE DEF t, u
<1>3. /\ Shown(t) \in Seq(Letters)
      /\ Len(Shown(t)) = IF Len(t) < LineSize THEN Len(t) ELSE LineSize
      /\ \A i \in 1..Len(Shown(t)) : Shown(t)[i] = t[i]
  BY <1>1, ShownIs DEF Fills
<1>4. CASE Len(s) < LineSize
  <2>1. Stored(u, Len(s), c) = Append(u, c)
    BY <1>4 DEF Stored
  <2>2. Len(u) = Len(s) /\ Len(Shown(t)) = Len(s) + 1
    BY <1>1, <1>2, <1>3, <1>4, SizeAssumption
  <2>3. /\ Append(u, c) \in Seq(Letters) /\ Len(Append(u, c)) = Len(s) + 1
        /\ Append(u, c)[Len(s)+1] = c /\ \A i \in 1..Len(s) : Append(u, c)[i] = u[i]
    BY <1>2, <2>2
  <2>4. \A i \in 1..(Len(s) + 1) : Append(u, c)[i] = Shown(t)[i]
    BY <1>1, <1>2, <1>3, <2>2, <2>3
  <2>5. Append(u, c) = Shown(t)
    BY <1>1, <1>3, <2>2, <2>3, <2>4, SeqEqual
  <2> QED BY <2>1, <2>5 DEF u, t
<1>5. CASE ~(Len(s) < LineSize)
  <2>1. Stored(u, Len(s), c) = u
    BY <1>5 DEF Stored
  <2>2. Len(u) = LineSize /\ Len(Shown(t)) = LineSize /\ LineSize <= Len(s)
    BY <1>1, <1>2, <1>3, <1>5, SizeAssumption
  <2>3. \A i \in 1..LineSize : u[i] = Shown(t)[i]
    BY <1>1, <1>2, <1>3, <2>2, SizeAssumption
  <2>4. u = Shown(t)
    BY <1>2, <1>3, <2>2, <2>3, SeqEqual
  <2> QED BY <2>1, <2>4 DEF u, t
<1> QED BY <1>4, <1>5

\* A backspace takes the last character off what is shown.
LEMMA ShownLeft ==
  ASSUME NEW s \in Seq(Letters), NEW n \in Nat, n <= Len(s)
  PROVE  Left(Shown(s), n) = Shown(Left(s, n))
<1> DEFINE t == Left(s, n)
           u == Shown(s)
<1>1. /\ t \in Seq(Letters) /\ Len(t) = n /\ \A i \in 1..n : t[i] = s[i]
      /\ Len(s) \in Nat
  BY LeftIs
<1>2. /\ u \in Seq(Letters) /\ Len(u) = IF Len(s) < LineSize THEN Len(s) ELSE LineSize
      /\ \A i \in 1..Len(u) : u[i] = s[i]
  BY ShownIs DEF Fills
<1> HIDE DEF t, u
<1>3. /\ Shown(t) \in Seq(Letters)
      /\ Len(Shown(t)) = IF n < LineSize THEN n ELSE LineSize
      /\ \A i \in 1..Len(Shown(t)) : Shown(t)[i] = t[i]
  BY <1>1, ShownIs DEF Fills
<1>4. /\ Left(u, n) \in Seq(Letters) /\ Len(Left(u, n)) = IF n < Len(u) THEN n ELSE Len(u)
      /\ \A i \in 1..Len(Left(u, n)) : Left(u, n)[i] = u[i]
  BY <1>2, LeftIs
<1>5. Len(Left(u, n)) = Len(Shown(t))
  BY <1>1, <1>2, <1>3, <1>4, SizeAssumption
<1>6. \A i \in 1..Len(Shown(t)) : Left(u, n)[i] = Shown(t)[i]
  <2>1. Len(Shown(t)) <= n /\ Len(Shown(t)) <= Len(u) /\ Len(Shown(t)) \in Nat /\ Len(u) \in Nat
    BY <1>1, <1>2, <1>3, SizeAssumption
  <2> SUFFICES ASSUME NEW i \in 1..Len(Shown(t)) PROVE Left(u, n)[i] = Shown(t)[i]
    OBVIOUS
  <2>2. i \in 1..n /\ i \in 1..Len(u)
    BY <2>1
  <2>3. Shown(t)[i] = t[i] /\ t[i] = s[i] /\ u[i] = s[i]
    BY <1>1, <1>2, <1>3, <2>2
  <2>4. Left(u, n)[i] = u[i]
    BY <1>4, <1>5
  <2> QED BY <2>3, <2>4
<1>7. Left(u, n) = Shown(t)
  BY <1>3, <1>4, <1>5, <1>6, SeqEqual
<1> QED BY <1>7 DEF t, u

\* The key that reader p was woken for or has taken, until it has changed the line.
Pending(p) ==
  IF pc[p] \in {"clear", "handle"} THEN key[p]
  ELSE IF p = Active /\ pc[p] = "wait" /\ pstate[p] = 1 THEN actualKey ELSE NoKey

\* The line of p is the one that was typed, but for the key k.
Line(p, k) ==
  \E s \in Seq(Letters) :
    buf[p] = Shown(s) /\ count[p] = Len(s) /\ typed[p] = Edited(s, k)

\* Undisturbed, every reader has its line but for the pending key, of which there is one
\* at most, that of the active reader.
LineHolds ==
  seen = {} =>
    /\ \A p \in Readers : pc[p] \notin {"user", "gone"} => Line(p, Pending(p))
    /\ mayus = shift <=> Pending(Active) # "shift"
    /\ actualKey # NoKey =>
         pc[Active] = "clear" \/ (pc[Active] = "wait" /\ pstate[Active] = 1)

\* Nothing is pending for who is not active.
LEMMA OthersIdle ==
  ASSUME TypeOK, Dispatched, NEW q \in Readers, q # Active
  PROVE  pc[q] \in {"user", "wait", "gone"} /\ Pending(q) = NoKey
<1>1. pc[q] \in {"user", "wait", "gone"}
  BY DEF Dispatched, Active, Readers
<1> QED BY <1>1 DEF Pending

\* Who runs behind its first wait is active.
LEMMA RunsActive ==
  ASSUME TypeOK, Dispatched, NEW p \in Readers, current = p, pc[p] \notin {"user", "gone"}
  PROVE  p = Active
BY DEF Dispatched, Active, Readers

\* A keyboard interrupt that disturbs nobody.
LEMMA KeyArrives ==
  ASSUME TypeOK, Dispatched, RingHolds, NEW k \in Keys \union {NoKey}, keyboard_handler(k),
         seen = {}, seen' = {}
  PROVE  /\ actualKey = NoKey /\ actualKey' = k
         /\ UNCHANGED <<pc, current, limit, buf, count, key, mayus, Active>>
         /\ k # NoKey => pc[Active] = "wait" /\ pstate[Active] = 0 /\ pstate'[Active] = 1
         /\ Pending(Active)' = IF k # NoKey THEN k ELSE Pending(Active)
         /\ k # NoKey => Pending(Active) = NoKey
         /\ \A q \in Readers : q # Active => Pending(q)' = Pending(q)
<1>1. /\ actualKey' = k /\ seen' = seen \union Disturbs(k)
      /\ UNCHANGED <<pc, current, limit, buf, count, key, mayus, node>>
      /\ awakeKeyboardQueue
  BY HandlerEffect DEF keyboard_handler
<1>2. Disturbs(k) = {} /\ Active \in Readers /\ UNCHANGED Active
  BY <1>1 DEF Active, Readers
<1>3. \A d \in Disturbances : d \notin Disturbs(k)
  BY <1>2
<1>4. actualKey = NoKey
  BY <1>3 DEF Disturbs, Disturbances
<1>5. ASSUME k # NoKey
      PROVE  pc[Active] = "wait" /\ pstate[Active] = 0 /\ node[head] = Active
  <2>1. "ahead" \notin Disturbs(k) /\ "swallowed" \notin Disturbs(k)
    BY <1>3 DEF Disturbances
  <2>2. pc[Active] = "wait" /\ pstate[Active] = 0
    BY <1>5, <2>1 DEF Disturbs, Disturbances
  <2> QED BY <1>5, <2>1, <2>2 DEF Disturbs, Disturbances
<1>6. ASSUME k # NoKey PROVE pstate'[Active] = 1
  <2>1. Names(node, head, size, BlockedReaders) /\ Active \in BlockedReaders
    BY <1>2, <1>5, <1>6 DEF RingHolds, Quiet, BlockedReaders, Blocked
  <2>2. size # 0
    BY <2>1 DEF Names
  <2> QED BY <1>1, <1>2, <1>5, <1>6, <2>2 DEF awakeKeyboardQueue
<1>7. /\ Pending(Active)' = IF k # NoKey THEN k ELSE Pending(Active)
      /\ k # NoKey => Pending(Active) = NoKey
  BY <1>1, <1>2, <1>4, <1>5, <1>6 DEF Pending
<1>8. \A q \in Readers : q # Active => Pending(q)' = Pending(q)
  BY <1>1, <1>2 DEF Pending
<1> QED BY <1>1, <1>2, <1>4, <1>5, <1>6, <1>7, <1>8

\* A key that finds its reader waiting is pending for it.
LEMMA LineKeyboard ==
  ASSUME TypeOK, Dispatched, RingHolds, LineHolds, Keyboard, seen = {}, seen' = {}
  PROVE  LineHolds'
<1>0. /\ \A p \in Readers : pc[p] \notin {"user", "gone"} => Line(p, Pending(p))
      /\ mayus = shift <=> Pending(Active) # "shift"
      /\ Active \in Readers
      /\ typed \in [Readers -> Seq(Letters)]
  BY DEF LineHolds, Active, Readers, TypeOK, Letters
<1>1. ASSUME NEW k \in Keys \ {"shift"}, Press(k) PROVE LineHolds'
  <2>1. /\ keyboard_handler(k) /\ k \in Keys \union {NoKey} /\ k # NoKey
        /\ typed' = [typed EXCEPT ![Active] = Edited(typed[Active], k)]
        /\ UNCHANGED shift
    BY <1>1 DEF Press, Keys, NoKey
  <2>2. /\ UNCHANGED <<pc, buf, count, key, mayus, Active>>
        /\ pc[Active] = "wait" /\ pstate'[Active] = 1
        /\ Pending(Active)' = k /\ Pending(Active) = NoKey
        /\ \A q \in Readers : q # Active => Pending(q)' = Pending(q)
    BY <2>1, KeyArrives
  <2>3. ASSUME NEW q \in Readers, pc'[q] \notin {"user", "gone"}
        PROVE  Line(q, Pending(q))'
    <3>1. CASE q = Active
      <4>1. PICK s \in Seq(Letters) :
              buf[q] = Shown(s) /\ count[q] = Len(s) /\ typed[q] = Edited(s, NoKey)
        BY <1>0, <2>2, <2>3, <3>1 DEF Line
      <4>2. typed[q] = s
        BY <4>1, EditedIs DEF NoKey
      <4>3. typed'[q] = Edited(s, k)
        BY <1>0, <2>1, <3>1, <4>2
      <4>4. Edited(s, k) = Edited(s, k)'
        BY <2>1 DEF Edited
      <4>5. \E z \in Seq(Letters) :
              buf'[q] = Shown(z) /\ count'[q] = Len(z) /\ typed'[q] = Edited(z, k)'
        BY <2>2, <4>1, <4>3, <4>4
      <4>6. Pending(q)' = k
        BY <2>2, <3>1
      <4> QED BY <4>5, <4>6 DEF Line, Edited
    <3>2. CASE q # Active
      <4>1. Line(q, Pending(q)) /\ Pending(q)' = Pending(q)
        BY <1>0, <2>2, <2>3, <3>2
      <4>2. typed'[q] = typed[q]
        BY <1>0, <2>1, <3>2
      <4>3. \E z \in Seq(Letters) :
              buf'[q] = Shown(z) /\ count'[q] = Len(z) /\ typed'[q] = Edited(z, Pending(q))
        BY <2>2, <4>1, <4>2 DEF Line
      <4> QED BY <2>1, <4>1, <4>3 DEF Line, Edited
    <3> QED BY <3>1, <3>2
  <2>4. mayus' = shift' <=> Pending(Active)' # "shift"
    BY <1>0, <2>1, <2>2 DEF NoKey
  <2>5. pc'[Active'] = "wait" /\ pstate'[Active'] = 1
    BY <2>2
  <2> QED BY <2>3, <2>4, <2>5 DEF LineHolds
<1>2. ASSUME Release, down = "function" PROVE LineHolds'
  <2>1. UNCHANGED <<pc, buf, count, key, mayus, actualKey, pstate, seen, typed, shift>>
    BY <1>2 DEF Release
  <2> QED BY <2>1 DEF LineHolds, Line, Pending, Active, Edited
<1>3. ASSUME Release, down # "function" PROVE LineHolds'
  <2>1. keyboard_handler(NoKey) /\ UNCHANGED <<typed, shift>>
    BY <1>3 DEF Release
  <2>2. /\ UNCHANGED <<pc, buf, count, key, mayus, Active>> /\ actualKey' = NoKey
        /\ \A q \in Readers : Pending(q)' = Pending(q)
    BY <1>0, <2>1, KeyArrives
  <2>3. ASSUME NEW q \in Readers, pc'[q] \notin {"user", "gone"}
        PROVE  Line(q, Pending(q))'
    <3>1. Line(q, Pending(q)) /\ Pending(q)' = Pending(q)
      BY <1>0, <2>2, <2>3
    <3>2. \E z \in Seq(Letters) :
            buf'[q] = Shown(z) /\ count'[q] = Len(z) /\ typed'[q] = Edited(z, Pending(q))
      BY <2>1, <2>2, <3>1 DEF Line
    <3> QED BY <2>1, <3>1, <3>2 DEF Line, Edited
  <2>4. mayus' = shift' <=> Pending(Active)' # "shift"
    BY <1>0, <2>1, <2>2
  <2> QED BY <2>2, <2>3, <2>4 DEF LineHolds
<1>4. ASSUME Shift PROVE LineHolds'
  <2>1. keyboard_handler("shift") /\ shift' = ~shift /\ UNCHANGED typed
    BY <1>4 DEF Shift, ShiftKey
  <2>2. "shift" \in Keys \union {NoKey} /\ "shift" # NoKey
    BY DEF Keys, NoKey
  <2>3. /\ UNCHANGED <<pc, buf, count, key, mayus, Active>>
        /\ pc[Active] = "wait" /\ pstate'[Active] = 1
        /\ Pending(Active)' = "shift" /\ Pending(Active) = NoKey
        /\ \A q \in Readers : q # Active => Pending(q)' = NoKey /\ Pending(q) = NoKey
    BY <2>1, <2>2, KeyArrives, OthersIdle
  <2>4. ASSUME NEW q \in Readers, pc'[q] \notin {"user", "gone"}
        PROVE  Line(q, Pending(q))'
    <3>1. PICK s \in Seq(Letters) :
            buf[q] = Shown(s) /\ count[q] = Len(s) /\ typed[q] = Edited(s, NoKey)
      BY <1>0, <2>3, <2>4 DEF Line
    <3>2. typed'[q] = s
      BY <2>1, <3>1, EditedIs DEF NoKey
    <3>3. Pending(q)' \in {"shift", NoKey}
      BY <2>3
    <3>4. Edited(s, Pending(q))' = s
      BY <3>3 DEF Edited, NoKey
    <3> QED BY <2>3, <3>1, <3>2, <3>4 DEF Line
  <2>5. mayus' = shift' <=> Pending(Active)' # "shift"
    BY <1>0, <2>1, <2>2, <2>3 DEF TypeOK
  <2>6. pc'[Active'] = "wait" /\ pstate'[Active'] = 1
    BY <2>3
  <2> QED BY <2>4, <2>5, <2>6 DEF LineHolds
<1> QED BY <1>1, <1>2, <1>3, <1>4 DEF Keyboard

\* A reader that is not active keeps its line.
LEMMA LineOthers ==
  ASSUME TypeOK, Dispatched, LineHolds, seen = {}, NEW q \in Readers, q # Active, q # Active',
         pc'[q] = pc[q], buf'[q] = buf[q], count'[q] = count[q], typed'[q] = typed[q],
         UNCHANGED shift
  PROVE  pc'[q] \notin {"user", "gone"} => Line(q, Pending(q))'
<1> SUFFICES ASSUME pc'[q] \notin {"user", "gone"} PROVE Line(q, Pending(q))'
  OBVIOUS
<1>1. pc[q] \in {"user", "wait", "gone"} /\ Pending(q) = NoKey
  BY OthersIdle
<1>2. Pending(q)' = NoKey
  BY <1>1 DEF Pending
<1>3. \E z \in Seq(Letters) :
        buf'[q] = Shown(z) /\ count'[q] = Len(z) /\ typed'[q] = Edited(z, NoKey)
  BY <1>1 DEF LineHolds, Line
<1> QED BY <1>2, <1>3 DEF Line, Edited

\* A step of the active reader.
LEMMA LineActive ==
  ASSUME TypeOK, Dispatched, LineHolds, seen = {}, NEW p \in Readers, p = Active,
         NEW l \in Pcs, pc' = [pc EXCEPT ![p] = l], l # "gone", pc[p] # "gone", UNCHANGED shift,
         \A q \in Readers :
           q # p => buf'[q] = buf[q] /\ count'[q] = count[q] /\ typed'[q] = typed[q],
         l # "user" => Line(p, Pending(p))',
         mayus' = shift' <=> Pending(p)' # "shift",
         actualKey' # NoKey => l = "clear" \/ (l = "wait" /\ pstate'[p] = 1)
  PROVE  LineHolds'
<1>1. UNCHANGED Active /\ pc'[p] = l /\ \A q \in Readers : q # p => pc'[q] = pc[q]
  BY DEF Active, TypeOK, Readers
<1>2. ASSUME NEW q \in Readers, pc'[q] \notin {"user", "gone"} PROVE Line(q, Pending(q))'
  <2>1. CASE q = p
    BY <1>1, <1>2, <2>1
  <2>2. CASE q # p
    BY <1>1, <1>2, <2>2, LineOthers
  <2> QED BY <2>1, <2>2
<1>3. /\ mayus' = shift' <=> Pending(Active)' # "shift"
      /\ actualKey' # NoKey =>
           pc'[Active'] = "clear" \/ (pc'[Active'] = "wait" /\ pstate'[Active'] = 1)
  BY <1>1
<1> QED BY <1>2, <1>3 DEF LineHolds

\* A step of the active reader keeps its line in order.
LEMMA LineReader ==
  ASSUME TypeOK, Dispatched, LineHolds, seen = {}, NEW p \in Readers, Reader(p)
  PROVE  LineHolds'
<1>0. /\ Active \in Readers /\ pc \in [Readers -> Pcs] /\ current = p /\ UNCHANGED <<shift, seen>>
      /\ mayus = shift <=> Pending(Active) # "shift"
      /\ actualKey # NoKey =>
           pc[Active] = "clear" \/ (pc[Active] = "wait" /\ pstate[Active] = 1)
      /\ \A q \in Readers : pc[q] \notin {"user", "gone"} => Line(q, Pending(q))
      /\ pstate \in [Readers -> {0, 1}] /\ key \in [Readers -> Keys \union {NoKey}]
      /\ buf \in [Readers -> Seq(Letters)] /\ typed \in [Readers -> Seq(Letters)]
      /\ count \in [Readers -> Nat] /\ mayus \in BOOLEAN /\ shift \in BOOLEAN
  <2>1. UNCHANGED <<shift, seen>>
    BY DEF Reader, Read, LoadKey, ClearKey, Char, Backspace, NoChar, Return, Exit, Wait, user
  <2> QED BY <2>1, ReaderControl DEF LineHolds, Active, Readers, TypeOK, Letters
\* The active reader at a key that is neither changed nor taken.
<1>1. ASSUME UNCHANGED line, UNCHANGED mayus, p = Active, NEW l \in Pcs,
             pc' = [pc EXCEPT ![p] = l], l \notin {"gone", "user"}, pc[p] \notin {"gone", "user"},
             Pending(p)' = Pending(p),
             actualKey' # NoKey => l = "clear" \/ (l = "wait" /\ pstate'[p] = 1)
      PROVE  LineHolds'
  <2>1. \E z \in Seq(Letters) :
          buf'[p] = Shown(z) /\ count'[p] = Len(z) /\ typed'[p] = Edited(z, Pending(p))
    BY <1>0, <1>1 DEF Line, line
  <2>2. Line(p, Pending(p))'
    BY <1>0, <1>1, <2>1 DEF Line, Edited
  <2>3. \A q \in Readers :
          q # p => buf'[q] = buf[q] /\ count'[q] = count[q] /\ typed'[q] = typed[q]
    BY <1>1 DEF line
  <2>4. mayus' = shift' <=> Pending(p)' # "shift"
    BY <1>0, <1>1
  <2> QED BY <1>0, <1>1, <2>2, <2>3, <2>4, LineActive
<1>2. CASE LoadKey(p)
  <2>1. /\ pc[p] = "wait" /\ p = Active /\ pstate[p] = 1
    BY <1>0, <1>2, RunsActive DEF LoadKey, Runs, Dispatched
  <2>2. /\ pc' = [pc EXCEPT ![p] = IF actualKey = NoKey THEN "block" ELSE "clear"]
        /\ key' = [key EXCEPT ![p] = actualKey] /\ UNCHANGED <<actualKey, line, mayus>>
    BY <1>2 DEF LoadKey, Goto
  <2>3. Pending(p)' = Pending(p)
    BY <1>0, <2>1, <2>2 DEF Pending
  <2>4. {"block", "clear"} \subseteq Pcs
    BY DEF Pcs, ResumedPcs
  <2>5. CASE actualKey = NoKey
    BY <1>1, <2>1, <2>2, <2>3, <2>4, <2>5
  <2>6. CASE actualKey # NoKey
    BY <1>1, <2>1, <2>2, <2>3, <2>4, <2>6
  <2> QED BY <2>5, <2>6
<1>3. CASE ClearKey(p)
  <2>1. pc[p] = "clear" /\ p = Active
    BY <1>0, <1>3, RunsActive DEF ClearKey, Runs
  <2>2. /\ pc' = [pc EXCEPT ![p] = "handle"] /\ actualKey' = NoKey
        /\ UNCHANGED <<key, line, mayus>>
    BY <1>3 DEF ClearKey, Goto
  <2>3. Pending(p)' = Pending(p)
    BY <1>0, <2>1, <2>2 DEF Pending
  <2>4. "handle" \in Pcs
    BY DEF Pcs, ResumedPcs
  <2> QED BY <1>1, <2>1, <2>2, <2>3, <2>4
<1>4. CASE Wait(p)
  <2>1. pc[p] \in {"block", "put", "size", "store"} /\ p = Active
    BY <1>0, <1>4, RunsActive DEF Wait
  <2>2. actualKey = NoKey /\ actualKey' = NoKey /\ UNCHANGED <<key, line, mayus>>
    BY <1>0, <1>4, <2>1 DEF Wait
  <2>3. \E l \in {"put", "size", "store", "wait"} : pc' = [pc EXCEPT ![p] = l]
    BY <1>4 DEF Wait, Goto
  <2>4. Pending(p) = NoKey /\ Pending(p)' = NoKey
    BY <1>0, <2>1, <2>2, <2>3 DEF Pending
  <2>5. {"put", "size", "store", "wait"} \subseteq Pcs
    BY DEF Pcs, ResumedPcs
  <2> QED BY <1>1, <2>1, <2>2, <2>3, <2>4, <2>5
<1>5. CASE Read(p)
  <2>1. /\ pc[p] = "user" /\ pc' = [pc EXCEPT ![p] = "wait"]
        /\ pstate' = [pstate EXCEPT ![p] = 0] /\ UNCHANGED <<actualKey, key, mayus>>
        /\ buf' = [buf EXCEPT ![p] = <<>>] /\ count' = [count EXCEPT ![p] = 0]
        /\ typed' = [typed EXCEPT ![p] = <<>>]
    BY <1>5 DEF Read, Runs, Goto
  <2>2. Pending(p) = NoKey /\ Pending(p)' = NoKey /\ UNCHANGED Active
    BY <1>0, <2>1 DEF Pending, Active, Readers
  <2>3. Line(p, Pending(p))'
    <3>1. <<>> \in Seq(Letters) /\ Len(<<>>) = 0 /\ Edited(<<>>, NoKey)' = <<>>
      BY DEF Edited, NoKey
    <3>2. Shown(<<>>) = <<>>
      <4>1. Shown(<<>>) \in Seq(Letters) /\ Len(Shown(<<>>)) = 0
        <5>1. Shown(<<>>) \in Seq(Letters) /\ Fills(Shown(<<>>), Len(<<>>))
          BY <3>1, ShownIs, Zenon
        <5>2. LineSize \in Nat
          BY SizeAssumption
        <5> QED BY <3>1, <5>1, <5>2 DEF Fills
      <4> QED BY <4>1
    <3>3. buf'[p] = <<>> /\ count'[p] = 0 /\ typed'[p] = <<>>
      BY <1>0, <2>1
    <3> QED BY <2>2, <3>1, <3>2, <3>3 DEF Line
  <2>4. ASSUME NEW q \in Readers, q # p, pc'[q] \notin {"user", "gone"}
        PROVE  Line(q, Pending(q))'
    <3>1. /\ Pending(q)' = Pending(q) /\ pc'[q] = pc[q]
          /\ buf'[q] = buf[q] /\ count'[q] = count[q] /\ typed'[q] = typed[q]
      BY <1>0, <2>1, <2>2, <2>4 DEF Pending
    <3>2. \E z \in Seq(Letters) :
            buf'[q] = Shown(z) /\ count'[q] = Len(z) /\ typed'[q] = Edited(z, Pending(q))
      BY <1>0, <2>4, <3>1 DEF Line
    <3> QED BY <1>0, <3>1, <3>2 DEF Line, Edited
  <2>5. Pending(Active)' = Pending(Active)
    BY <1>0, <2>1, <2>2 DEF Pending
  <2>6. mayus' = shift' <=> Pending(Active)' # "shift"
    BY <1>0, <2>1, <2>5
  <2>7. actualKey' # NoKey =>
          pc'[Active'] = "clear" \/ (pc'[Active'] = "wait" /\ pstate'[Active'] = 1)
    BY <1>0, <2>1, <2>2
  <2> QED BY <2>3, <2>4, <2>6, <2>7 DEF LineHolds
\* The active reader at its pending key, which has changed the line to t.
<1>6. ASSUME p = Active, pc[p] = "handle", NEW t \in Seq(Letters), UNCHANGED actualKey,
             NEW l \in {"block", "user"}, pc' = [pc EXCEPT ![p] = l],
             buf' = [buf EXCEPT ![p] = Shown(t)], count' = [count EXCEPT ![p] = Len(t)],
             typed[p] = t, UNCHANGED typed, mayus' = shift
      PROVE  LineHolds'
  <2>1. actualKey' = NoKey
    BY <1>0, <1>6
  <2>2. Pending(p)' = NoKey
    BY <1>0, <1>6 DEF Pending
  <2>3. typed'[p] = Edited(t, NoKey)'
    BY <1>6 DEF Edited, NoKey
  <2>4. buf'[p] = Shown(t) /\ count'[p] = Len(t)
    BY <1>0, <1>6
  <2>5. Line(p, Pending(p))'
    BY <1>6, <2>2, <2>3, <2>4 DEF Line
  <2>6. \A q \in Readers :
          q # p => buf'[q] = buf[q] /\ count'[q] = count[q] /\ typed'[q] = typed[q]
    BY <1>0, <1>6
  <2>7. mayus' = shift' <=> Pending(p)' # "shift"
    BY <1>0, <1>6, <2>2 DEF NoKey
  <2>8. l \in Pcs /\ l # "gone"
    BY <1>6 DEF Pcs, ResumedPcs
  <2> QED BY <1>0, <1>6, <2>1, <2>5, <2>6, <2>7, <2>8, LineActive
<1>7. ASSUME pc[p] = "handle"
      PROVE  /\ p = Active /\ Pending(p) = key[p]
             /\ \E s \in Seq(Letters) :
                  buf[p] = Shown(s) /\ count[p] = Len(s) /\ typed[p] = Edited(s, key[p])
  <2>1. p = Active /\ Pending(p) = key[p]
    BY <1>0, <1>7, RunsActive DEF Pending
  <2>2. Line(p, key[p])
    BY <1>0, <1>7, <2>1
  <2> QED BY <2>1, <2>2 DEF Line
<1>8. CASE Char(p)
  <2> DEFINE c == IF mayus THEN "A" ELSE "a"
  <2>1. /\ pc[p] = "handle" /\ key[p] = "a" /\ UNCHANGED <<actualKey, typed, mayus>>
        /\ buf' = [buf EXCEPT ![p] = Stored(buf[p], count[p], c)]
        /\ count' = [count EXCEPT ![p] = count[p] + 1]
        /\ \E l \in {"block", "user"} : pc' = [pc EXCEPT ![p] = l]
    BY <1>8 DEF Char, Runs, Loop, Goto
  <2>2. PICK s \in Seq(Letters) :
          buf[p] = Shown(s) /\ count[p] = Len(s) /\ typed[p] = Edited(s, "a")
    BY <1>7, <2>1
  <2>3. mayus = shift
    BY <1>0, <1>7, <2>1
  <2>4. c \in Letters /\ typed[p] = Append(s, c)
    BY <1>0, <2>2, <2>3, EditedIs DEF Letters
  <2> HIDE DEF c
  <2>5. Append(s, c) \in Seq(Letters) /\ Len(Append(s, c)) = Len(s) + 1
    BY <2>4
  <2>6. Stored(Shown(s), Len(s), c) = Shown(Append(s, c))
    BY <2>4, ShownStored
  <2>7. PICK t \in Seq(Letters) : t = Append(s, c)
    BY <2>5
  <2>8. /\ buf' = [buf EXCEPT ![p] = Shown(t)] /\ count' = [count EXCEPT ![p] = Len(t)]
        /\ typed[p] = t
    BY <2>1, <2>2, <2>4, <2>5, <2>6, <2>7
  <2> QED BY <1>6, <1>7, <2>1, <2>3, <2>8
<1>9. CASE Backspace(p)
  <2> DEFINE n == IF count[p] > 0 THEN count[p] - 1 ELSE count[p]
  <2>1. /\ pc[p] = "handle" /\ key[p] = "back" /\ UNCHANGED <<actualKey, typed, mayus>>
        /\ count' = [count EXCEPT ![p] = n]
        /\ \E l \in {"block", "user"} : pc' = [pc EXCEPT ![p] = l]
    BY <1>9 DEF Backspace, Runs, Loop, Goto
  <2>2. count'[p] = n
    BY <1>0, <2>1
  <2>3. buf' = [buf EXCEPT ![p] = Left(buf[p], n)]
    BY <1>9, <2>2 DEF Backspace
  <2>4. PICK s \in Seq(Letters) :
          buf[p] = Shown(s) /\ count[p] = Len(s) /\ typed[p] = Edited(s, "back")
    BY <1>7, <2>1
  <2>5. mayus = shift
    BY <1>0, <1>7, <2>1
  <2>6. n \in Nat /\ n <= Len(s)
    BY <2>4
  <2>7. typed[p] = Left(s, n) /\ Len(Left(s, n)) = n
    <3>1. CASE s = <<>>
      <4>1. n = 0 /\ Len(s) = 0
        BY <2>4, <3>1
      <4>2. Left(s, n) = s
        BY <4>1 DEF Left
      <4> QED BY <2>4, <3>1, <4>1, <4>2, EditedIs
    <3>2. CASE s # <<>>
      <4>1. Len(s) \in Nat /\ Len(s) # 0
        BY <3>2
      <4>2. n = Len(s) - 1 /\ n < Len(s)
        BY <2>4, <4>1
      <4>3. Left(s, n) = SubSeq(s, 1, n) /\ Len(Left(s, n)) = n
        BY <2>6, <4>2, LeftIs DEF Left
      <4> QED BY <2>4, <3>2, <4>2, <4>3, EditedIs
    <3> QED BY <3>1, <3>2
  <2> HIDE DEF n
  <2>8. Left(Shown(s), n) = Shown(Left(s, n)) /\ Left(s, n) \in Seq(Letters)
    BY <2>6, ShownLeft, LeftIs
  <2>9. PICK t \in Seq(Letters) : t = Left(s, n)
    BY <2>8
  <2>10. /\ buf' = [buf EXCEPT ![p] = Shown(t)] /\ count' = [count EXCEPT ![p] = Len(t)]
         /\ typed[p] = t
    BY <2>1, <2>3, <2>4, <2>7, <2>8, <2>9
  <2> QED BY <1>6, <1>7, <2>1, <2>5, <2>10
<1>10. CASE NoChar(p) \/ Return(p)
  <2>1. /\ pc[p] = "handle" /\ key[p] \in {"shift", "f1", "enter", "f3"}
        /\ mayus' = (IF key[p] = "shift" THEN ~mayus ELSE mayus)
        /\ UNCHANGED <<actualKey, buf, count, typed>>
        /\ \E l \in {"block", "user"} : pc' = [pc EXCEPT ![p] = l]
    BY <1>10 DEF NoChar, Return, Runs, Loop, Goto, line
  <2>2. PICK s \in Seq(Letters) :
          buf[p] = Shown(s) /\ count[p] = Len(s) /\ typed[p] = Edited(s, key[p])
    BY <1>7, <2>1
  <2>3. typed[p] = s
    BY <2>1, <2>2, EditedIs
  <2>4. mayus' = shift
    BY <1>0, <1>7, <2>1
  <2>5. buf' = [buf EXCEPT ![p] = Shown(s)] /\ count' = [count EXCEPT ![p] = Len(s)]
    BY <1>0, <2>1, <2>2
  <2> QED BY <1>6, <1>7, <2>1, <2>3, <2>4, <2>5
<1>11. CASE Exit(p)
  <2>1. /\ (p = "fg" /\ pc[p] = "user") \/ (pc[p] = "handle" /\ key[p] = "f2")
        /\ pc' = [pc EXCEPT ![p] = "gone"] /\ key' = [key EXCEPT ![p] = NoKey]
        /\ UNCHANGED <<actualKey, mayus, pstate>>
        /\ \A q \in Readers :
             q # p => buf'[q] = buf[q] /\ count'[q] = count[q] /\ typed'[q] = typed[q]
    <3>1. (p = "fg" /\ pc[p] = "user") \/ (pc[p] = "handle" /\ key[p] = "f2")
      BY <1>11 DEF Exit
    <3>2. /\ pc' = [pc EXCEPT ![p] = "gone"] /\ key' = [key EXCEPT ![p] = NoKey]
          /\ UNCHANGED <<actualKey, mayus, pstate>>
          /\ buf' = [buf EXCEPT ![p] = <<>>] /\ count' = [count EXCEPT ![p] = 0]
          /\ typed' = [typed EXCEPT ![p] = <<>>]
      BY <1>11 DEF Exit, Goto, Done
    <3> QED BY <1>0, <3>1, <3>2
  <2>2. p = Active /\ actualKey = NoKey /\ Pending(p) # "shift"
    <3>1. CASE pc[p] = "handle"
      BY <1>0, <1>7, <2>1, <3>1
    <3>2. CASE p = "fg" /\ pc[p] = "user"
      BY <1>0, <3>2 DEF Active, Pending, NoKey
    <3> QED BY <2>1, <3>1, <3>2
  <2>3. actualKey' = NoKey /\ mayus' = shift'
    BY <1>0, <2>1, <2>2
  <2>4. Active' = "shell"
    BY <1>0, <2>1, <2>2 DEF Active, Readers
  <2>5. Pending("shell")' = NoKey
    <3>1. CASE p = "shell"
      BY <1>0, <2>1, <3>1 DEF Pending
    <3>2. CASE p # "shell"
      <4>1. "shell" # Active /\ "shell" \in Readers /\ pc'["shell"] = pc["shell"]
        BY <1>0, <2>1, <2>2, <3>2 DEF Readers
      <4>2. pc["shell"] \in {"user", "wait", "gone"}
        BY <4>1, OthersIdle
      <4> QED BY <2>3, <4>1, <4>2 DEF Pending
    <3> QED BY <3>1, <3>2
  <2>6. ASSUME NEW q \in Readers, pc'[q] \notin {"user", "gone"}
        PROVE  Line(q, Pending(q))'
    <3>1. q # p /\ pc'[q] = pc[q] /\ q # Active
      BY <1>0, <2>1, <2>2, <2>6
    <3>2. Pending(q) = NoKey /\ pc[q] \in {"user", "wait", "gone"}
      BY <3>1, OthersIdle
    <3>3. Pending(q)' = NoKey
      BY <2>3, <3>1, <3>2 DEF Pending
    <3>4. \E z \in Seq(Letters) :
            buf'[q] = Shown(z) /\ count'[q] = Len(z) /\ typed'[q] = Edited(z, NoKey)
      BY <1>0, <2>1, <2>6, <3>1, <3>2 DEF Line
    <3> QED BY <1>0, <3>3, <3>4 DEF Line, Edited
  <2>7. mayus' = shift' <=> Pending(Active)' # "shift"
    BY <2>3, <2>4, <2>5 DEF NoKey
  <2> QED BY <2>3, <2>6, <2>7 DEF LineHolds
<1> QED
  BY <1>2, <1>3, <1>4, <1>5, <1>8, <1>9, <1>10, <1>11 DEF Reader

\* Every undisturbed step keeps the lines in order.
LEMMA LineStep ==
  ASSUME TypeOK, Dispatched, RingHolds, LineHolds, [Next]_vars
  PROVE  LineHolds'
<1> SUFFICES ASSUME seen' = {} PROVE LineHolds'
  BY DEF LineHolds
<1>0. seen = {} /\ pc \in [Readers -> Pcs]
  BY SeenGrows DEF TypeOK
<1>1. CASE UNCHANGED <<pc, buf, count, key, mayus, actualKey, pstate, seen, typed, shift>>
  BY <1>1 DEF LineHolds, Line, Pending, Active, Edited
<1>2. CASE Tick
  <2>1. UNCHANGED <<pc, buf, count, key, mayus, actualKey, pstate, seen, typed, shift>>
    BY <1>0, <1>2 DEF Tick, line, user
  <2> QED BY <1>1, <2>1
<1>3. CASE Keyboard
  BY <1>0, <1>3, LineKeyboard
<1>4. CASE StartFg
  <2>1. /\ pc["shell"] = "user" /\ pc["fg"] = "gone" /\ pc' = [pc EXCEPT !["fg"] = "user"]
        /\ UNCHANGED <<actualKey, mayus, shift>> /\ "fg" \in Readers /\ "shell" \in Readers
        /\ Readers = {"shell", "fg"}
    BY <1>4 DEF StartFg, Runs, Goto, user, Readers
  <2>2. Active = "shell" /\ Pending(Active) = NoKey
    BY <2>1 DEF Active, Pending
  <2>3. actualKey = NoKey /\ mayus = shift
    BY <1>0, <2>1, <2>2 DEF LineHolds, NoKey
  <2>4. pc'["fg"] = "user" /\ pc'["shell"] = "user"
    BY <1>0, <2>1
  <2>5. Pending(Active)' = NoKey
    BY <2>1, <2>4 DEF Active, Pending
  <2>6. \A q \in Readers : pc'[q] = "user"
    BY <2>1, <2>4
  <2> QED BY <2>1, <2>3, <2>5, <2>6 DEF LineHolds, NoKey
<1>5. ASSUME NEW p \in Readers, Reader(p) PROVE LineHolds'
  BY <1>0, <1>5, LineReader
<1>6. CASE UNCHANGED vars
  BY <1>1, <1>6 DEF vars, line, user
<1> QED BY <1>2, <1>3, <1>4, <1>5, <1>6 DEF Next

\* The inductive invariant of the terminal.
TerminalIInv ==
  TypeOK /\ BufferFills /\ Dispatched /\ ResumedRuns /\ RingHolds /\ LineHolds

\* Every key, every step of a reader and every interrupt keeps it (keyboard.c:21-35,
\* scheduler.c:373-387, syscalls.c:30-108).
THEOREM TerminalInvariance == Spec => []TerminalIInv
<1>1. Init => TerminalIInv
  <2> SUFFICES ASSUME Init PROVE TerminalIInv
    OBVIOUS
  <2>1. /\ <<>> \in Seq({"a", "A"}) /\ Len(<<>>) = 0 /\ 0 \in Nodes /\ 0 \in Nat
        /\ LineSize \in Nat /\ MaxCount \in Nat /\ MaxHits \in Nat
    BY SizeAssumption, BoundAssumption DEF Nodes
  <2>2. TypeOK
    <3>1. /\ buf \in [Readers -> Seq({"a", "A"})] /\ typed \in [Readers -> Seq({"a", "A"})]
          /\ \A p \in Readers : Len(buf[p]) <= LineSize /\ Len(typed[p]) <= MaxCount
      BY <2>1 DEF Init
    <3>2. /\ node \in [Nodes -> Readers \union {Other}] /\ pc \in [Readers -> Pcs]
          /\ current \in Readers /\ pstate \in [Readers -> {0, 1}]
      BY DEF Init, Pcs, Readers
    <3>3. 0 \in 0..MaxHits
      BY <2>1
    <3> QED BY <2>1, <3>1, <3>2, <3>3 DEF Init, TypeOK
  <2>3. BufferFills
    BY <2>1 DEF Init, BufferFills, Fills
  <2>4. Dispatched /\ ResumedRuns
    BY DEF Init, Dispatched, ResumedRuns, ResumedPcs, Readers
  <2>5. RingHolds
    <3>1. BlockedReaders = {} /\ size = 0 /\ head = 0 /\ tail = 0
          /\ \A p \in Readers : pc[p] \notin {"put", "size", "store"}
      BY DEF Init, BlockedReaders, Blocked
    <3>2. Slot(0, 0) = 0
      BY <2>1, SlotsAre
    <3> QED BY <3>1, <3>2 DEF RingHolds, Names
  <2>6. LineHolds
    BY DEF Init, LineHolds, Pending, Active, Readers, NoKey
  <2> QED BY <2>2, <2>3, <2>4, <2>5, <2>6 DEF TerminalIInv
<1>2. TerminalIInv /\ [Next]_vars => TerminalIInv'
  BY TypesStep, DispatchedStep, ResumedStep, RingStep, LineStep DEF TerminalIInv
<1> QED BY <1>1, <1>2, PTL DEF Spec

\* Until an interrupt splits waitForKeyboard the ring names exactly the blocked readers,
\* each once (scheduler.c:373-387).
THEOREM RingCorrect == Spec => []Inv
<1>1. TerminalIInv => Inv
  <2> SUFFICES ASSUME TerminalIInv PROVE RingIsRight
    BY DEF TerminalIInv, Inv
  <2> SUFFICES ASSUME Quiet
               PROVE  /\ size <= MAX_WAITING_KEYBOARD + 1
                      /\ \A p \in Readers : pc[p] = "wait" =>
                           /\ Places(p) = {} <=> pstate[p] = 1
                           /\ \A i, j \in Places(p) : i = j
    BY DEF RingIsRight, Quiet
  <2>1. Names(node, head, size, BlockedReaders) /\ pstate \in [Readers -> {0, 1}]
    BY DEF TerminalIInv, RingHolds, TypeOK
  <2>2. size <= MAX_WAITING_KEYBOARD + 1
    BY <2>1, SizeAssumption DEF Names
  <2>3. ASSUME NEW p \in Readers, pc[p] = "wait"
        PROVE  /\ Places(p) = {} <=> pstate[p] = 1
               /\ \A i, j \in Places(p) : i = j
    <3>1. Places(p) = {i \in 0..(size-1) : node[Slot(head, i)] = p}
      BY DEF Places, Slot
    <3>2. p \in BlockedReaders <=> pstate[p] = 0
      BY <2>3 DEF BlockedReaders, Blocked
    <3> HIDE DEF Places
    <3>3. Places(p) # {} <=> p \in BlockedReaders
      BY <2>1, <3>1 DEF Names
    <3>4. \A i, j \in Places(p) : i = j
      BY <2>1, <3>1 DEF Names
    <3> QED BY <2>1, <3>2, <3>3, <3>4
  <2> QED BY <2>2, <2>3
<1> QED BY <1>1, TerminalInvariance, PTL

\* While every key finds its reader waiting, the line that a reader has when it waits for
\* the next key is the one that was typed, and its letters follow the shift
\* (syscalls.c:30-108).
THEOREM LineCorrect == Spec => []LineIsRight
<1>1. TerminalIInv => LineIsRight
  <2> SUFFICES ASSUME TerminalIInv, seen = {}, Blocked(Active)
               PROVE  /\ buf[Active] = SubSeq(typed[Active], 1,
                           IF Len(typed[Active]) < LineSize THEN Len(typed[Active])
                           ELSE LineSize)
                      /\ mayus = shift
    BY DEF LineIsRight, LineIsTyped
  <2>1. Pending(Active) = NoKey /\ Active \in Readers /\ pc[Active] = "wait"
    BY DEF Pending, Blocked, Active, Readers
  <2>2. Line(Active, NoKey) /\ mayus = shift
    BY <2>1 DEF TerminalIInv, LineHolds, NoKey
  <2>3. PICK s \in Seq(Letters) : buf[Active] = Shown(s) /\ typed[Active] = Edited(s, NoKey)
    BY <2>2 DEF Line
  <2>4. typed[Active] = s
    BY <2>3, EditedIs DEF NoKey
  <2> QED BY <2>2, <2>3, <2>4 DEF Shown
<1> QED BY <1>1, TerminalInvariance, PTL
-----------------------------------------------------------------------------
(* The screen                                                              *)

\* The index of the last row, and of the row above it.
LastRow  == (height - 1) * width
RowAbove == (height - 2) * width

\* The screens on which nothing is written outside and at most one cursor is shown.
Consoles ==
  {c \in [video : [Cells -> Glyphs], current : 0..LastRow, cursor : BOOLEAN] :
     \A i \in Cells : c.video[i] = CursorMark => i = c.current}

\* The current position has not been moved back behind k, unless the screen scrolled.
Beyond(k) == {c \in Consoles : c.current >= k \/ c.current > RowAbove}

\* What stands in front of the cursor is the end of s.
Ends(c, s) ==
  \A i \in 1..Len(s) : i <= c.current => c.video[c.current - i] = s[Len(s) - i + 1]

\* No other character looks like the cursor.
LEMMA Characters ==
  /\ Blank \in Chars /\ Blank \in Glyphs \ {CursorMark} /\ NUL \in Glyphs \ {CursorMark}
  /\ CursorMark \in Glyphs /\ Newline # CursorMark
  /\ Chars \subseteq Glyphs \ {CursorMark}
<1>1. Blank \in Signs
  BY Zenon DEF Signs
<1>2. Signs \subseteq Chars
  BY DEF Chars
<1>3. NUL # CursorMark /\ Newline # CursorMark
  BY Zenon DEF NUL, CursorMark, Newline
<1> QED BY <1>1, <1>2, <1>3, CharsAssumption DEF Glyphs

\* The rows of the screen.
LEMMA Rows ==
  /\ width \in Nat \ {0} /\ RowAbove \in Nat
  /\ LastRow \in Nat /\ LastRow = RowAbove + width
  /\ Cells = 0..(LastRow + width - 1)
<1>1. width \in Nat \ {0} /\ height \in Nat \ {0, 1}
  BY ScreenAssumption
<1>2. height - 2 \in Nat
  BY <1>1
<1>3. (height - 2) * width \in Nat
  BY <1>1, <1>2
<1>4. (height - 1) * width = (height - 2) * width + width
  BY <1>1
<1>5. width * height = (height - 1) * width + width
  BY <1>1
<1> QED BY <1>1, <1>3, <1>4, <1>5 DEF LastRow, RowAbove, Cells

\* scrollDown scrolls when the last row is reached.
LEMMA RowReached ==
  ASSUME NEW x \in 0..LastRow
  PROVE  x \div width < height - 1 <=> x < LastRow
<1> DEFINE q == x \div width
           r == x % width
<1>1. width \in Nat \ {0} /\ height \in Nat \ {0, 1} /\ x \in Nat
  BY ScreenAssumption, Rows
<1>2. x = width * q + r /\ q \in Nat /\ r \in 0..(width - 1)
  BY <1>1
<1> HIDE DEF q, r
<1>3. CASE q < height - 1
  <2>1. width * (height - 2 - q) \in Nat
    BY <1>1, <1>2, <1>3
  <2>2. width * (height - 2 - q) = (height - 2) * width - width * q
    BY <1>1, <1>2
  <2> QED BY <1>1, <1>2, <1>3, <2>1, <2>2, Rows DEF RowAbove, q
<1>4. CASE ~(q < height - 1)
  <2>1. width * (q - (height - 1)) \in Nat
    BY <1>1, <1>2, <1>4
  <2>2. width * (q - (height - 1)) = width * q - (height - 1) * width
    BY <1>1, <1>2
  <2> QED BY <1>1, <1>2, <1>4, <2>1, <2>2, Rows DEF LastRow, q
<1> QED BY <1>3, <1>4

\* Scrolling leaves the position on the screen and what stands in front of it.
LEMMA ScrollIs ==
  ASSUME NEW c \in Consoles, NEW d, d = scrollDown(c)
  PROVE  /\ d \in Consoles /\ d.current < LastRow
         /\ d.current = IF c.current < LastRow THEN c.current ELSE RowAbove
         /\ \A i \in 1..d.current : d.video[d.current - i] = c.video[c.current - i]
<1>1. /\ c \in [video : [Cells -> Glyphs], current : 0..LastRow, cursor : BOOLEAN]
      /\ \A i \in Cells : c.video[i] = CursorMark => i = c.current
  BY DEF Consoles
<1>2. c.current \in 0..LastRow /\ c.video \in [Cells -> Glyphs] /\ c.cursor \in BOOLEAN
  BY <1>1
<1>3. c.current \div width < height - 1 <=> c.current < LastRow
  BY <1>2, RowReached
<1>4. CASE c.current < LastRow
  BY <1>2, <1>3, <1>4, Rows DEF scrollDown
<1>5. CASE ~(c.current < LastRow)
  <2> DEFINE v == [i \in Cells |-> IF i + width \in Cells THEN c.video[i + width] ELSE Blank]
  <2>1. c.current = LastRow /\ c.current - width = RowAbove
    BY <1>2, <1>5, Rows
  <2>2. d = [c EXCEPT !.video = v, !.current = @ - width]
    BY <1>3, <1>5 DEF scrollDown
  <2>3. v \in [Cells -> Glyphs]
    <3>1. \A i \in Cells : v[i] \in Glyphs
      <4>1. \A i \in Cells : c.video[i] \in Glyphs
        BY <1>2
      <4> QED BY <4>1, Characters
    <3> QED BY <3>1
  <2>4. \A i \in Cells : v[i] = IF i + width \in Cells THEN c.video[i + width] ELSE Blank
    OBVIOUS
  <2> HIDE DEF v
  <2>5. d.video = v /\ d.current = RowAbove /\ d.cursor = c.cursor
        /\ d \in [video : [Cells -> Glyphs], current : 0..LastRow, cursor : BOOLEAN]
    <3>1. RowAbove \in 0..LastRow
      BY Rows
    <3> QED BY <1>1, <2>1, <2>2, <2>3, <3>1
  <2>6. ASSUME NEW i \in Cells, v[i] = CursorMark PROVE i = RowAbove
    <3>1. i + width \in Cells /\ c.video[i + width] = CursorMark
      BY <2>4, <2>6, Characters
    <3>2. i + width = c.current
      BY <1>1, <3>1
    <3>3. i \in Int
      BY Rows
    <3> QED BY <2>1, <3>2, <3>3, Rows
  <2>7. ASSUME NEW i \in 1..RowAbove PROVE v[RowAbove - i] = c.video[c.current - i]
    <3>1. RowAbove - i \in Cells /\ RowAbove - i + width \in Cells
      BY Rows
    <3>2. RowAbove - i + width = c.current - i
      BY <2>1, Rows
    <3> QED BY <2>4, <3>1, <3>2
  <2>8. d \in Consoles
    BY <2>5, <2>6 DEF Consoles
  <2> QED BY <1>5, <2>5, <2>7, <2>8, Rows
<1> QED BY <1>4, <1>5

\* A character is written at the cursor's place.
LEMMA PutIs ==
  ASSUME NEW c \in Consoles, NEW char \in Glyphs \ {CursorMark}, NEW e, e = Put(c, char)
  PROVE  /\ e \in Consoles
         /\ e.current = (IF c.current < LastRow THEN c.current ELSE RowAbove) + 1
         /\ e.video[e.current - 1] = char
         /\ \A i \in 2..e.current : e.video[e.current - i] = c.video[c.current - (i - 1)]
<1> DEFINE d == scrollDown(c)
<1>1. /\ d \in Consoles /\ d.current < LastRow
      /\ d.current = IF c.current < LastRow THEN c.current ELSE RowAbove
      /\ \A i \in 1..d.current : d.video[d.current - i] = c.video[c.current - i]
  BY ScrollIs
<1>2. e = [d EXCEPT !.video[d.current] = char, !.current = @ + 1]
  BY DEF Put
<1> HIDE DEF d
<1>3. /\ d \in [video : [Cells -> Glyphs], current : 0..LastRow, cursor : BOOLEAN]
      /\ \A i \in Cells : d.video[i] = CursorMark => i = d.current
  BY <1>1 DEF Consoles
<1>4. d.current \in Nat /\ d.current + 1 \in 0..LastRow /\ d.current \in Cells
  <2>1. d.current \in 0..LastRow
    BY <1>3
  <2> QED BY <1>1, <2>1, Rows
<1>5. /\ e.video = [d.video EXCEPT ![d.current] = char] /\ e.current = d.current + 1
      /\ e \in [video : [Cells -> Glyphs], current : 0..LastRow, cursor : BOOLEAN]
  <2>1. [d.video EXCEPT ![d.current] = char] \in [Cells -> Glyphs]
    BY <1>3, <1>4
  <2> QED BY <1>2, <1>3, <1>4, <2>1
<1>6. ASSUME NEW i \in Cells PROVE e.video[i] # CursorMark
  BY <1>3, <1>5
<1>7. e.video[e.current - 1] = char
  BY <1>3, <1>4, <1>5
<1>8. ASSUME NEW i \in 2..e.current
      PROVE  e.video[e.current - i] = c.video[c.current - (i - 1)]
  <2>1. i - 1 \in 1..d.current /\ d.current - (i - 1) \in Cells /\ d.current - (i - 1) # d.current
    BY <1>4, <1>5, Rows
  <2>2. e.current - i = d.current - (i - 1)
    BY <1>4, <1>5
  <2> QED BY <1>1, <1>3, <1>5, <2>1, <2>2
<1>9. e \in Consoles
  BY <1>5, <1>6 DEF Consoles
<1> QED BY <1>1, <1>4, <1>5, <1>7, <1>8, <1>9

\* A character leaves the position on the screen, and further on or in the last row.
LEMMA PutBeyond ==
  ASSUME NEW c \in Consoles, NEW char \in Glyphs \ {CursorMark}
  PROVE  Put(c, char) \in Beyond(c.current + 1)
<1>1. c.current \in 0..LastRow
  BY DEF Consoles
<1> QED BY <1>1, PutIs, Rows DEF Beyond

\* What moves on from beyond k stays beyond k.
LEMMA StaysBeyond ==
  ASSUME NEW k \in Int, NEW c \in Beyond(k), NEW d \in Beyond(c.current + 1)
  PROVE  d \in Beyond(k)
<1>1. c.current \in 0..LastRow /\ d.current \in 0..LastRow
  BY DEF Beyond, Consoles
<1> QED BY <1>1, Rows DEF Beyond

\* The end of a row (naiveConsole.c:67-73) is at least one blank.
LEMMA NewlineBeyond ==
  ASSUME NEW c \in Consoles
  PROVE  ncNewline(c) \in Beyond(c.current + 1)
<1> DEFINE n == width - (c.current % width)
           Up(g) == [i \in 0..n |-> IF i = 0 THEN c ELSE Put(g[i-1], Blank)]
           step == [x \in (1..n) \X Consoles |-> Put(x[2], Blank)]
           after == CHOOSE g : g = Up(g)
<1>1. c.current \in Nat /\ n \in Nat \ {0}
  <2>1. c.current \in 0..LastRow
    BY DEF Consoles
  <2>2. c.current \in Nat /\ width \in Nat \ {0}
    BY <2>1, Rows
  <2>3. c.current % width \in 0..(width - 1)
    BY <2>2
  <2> QED BY <2>2, <2>3
<1>2. ncNewline(c) = after[n]
  BY DEF ncNewline
<1> HIDE DEF n
<1>3. step \in [(1..n) \X Consoles -> Consoles]
  <2>1. ASSUME NEW x \in (1..n) \X Consoles PROVE step[x] \in Consoles
    <3>1. x[2] \in Consoles
      OBVIOUS
    <3>2. Put(x[2], Blank) \in Consoles
      BY <3>1, PutBeyond, Characters DEF Beyond
    <3> QED BY <3>2
  <2> QED BY <2>1
<1> HIDE DEF step
<1>4. PICK f : Iteration(f, n, Consoles, c, step)
  BY <1>1, <1>3, Iterates, Zenon
<1>5. /\ f \in [0..n -> Consoles] /\ f[0] = c
      /\ \A i \in 1..n : f[i] = step[<<i, f[i-1]>>]
  BY <1>4 DEF Iteration
<1>6. \A i \in 1..n : i-1 \in 0..n /\ i \in 0..n /\ i # 0
  BY <1>1
<1>7. \A i \in 1..n : f[i] = Put(f[i-1], Blank)
  BY <1>5, <1>6 DEF step
<1>8. f = Up(f)
  <2>1. \A i \in 0..n : i = 0 \/ i \in 1..n
    BY <1>1
  <2>2. \A i \in 0..n : f[i] = IF i = 0 THEN c ELSE Put(f[i-1], Blank)
    BY <1>5, <1>7, <2>1
  <2> QED BY <1>5, <2>2
<1>9. after = Up(after)
  <2> HIDE DEF Up
  <2> QED BY <1>8, Zenon
<1> HIDE DEF after
<1>10. after[0] = c /\ \A i \in 1..n : after[i] = Put(after[i-1], Blank)
  <2>1. 0 \in 0..n
    BY <1>1
  <2>2. Up(after)[0] = c /\ \A i \in 1..n : Up(after)[i] = Put(after[i-1], Blank)
    BY <1>6, <2>1
  <2> HIDE DEF Up
  <2> QED BY <1>9, <2>2
<1> DEFINE P == {i \in 0..n : i = 0 \/ after[i] \in Beyond(c.current + 1)}
<1>11. ASSUME NEW i \in 1..n, i-1 \in P PROVE i \in P
  <2>1. CASE i = 1
    BY <1>6, <1>10, <2>1, PutBeyond, Characters
  <2>2. CASE i # 1
    <3>1. after[i-1] \in Beyond(c.current + 1) /\ after[i-1] \in Consoles
      BY <1>11, <2>2 DEF Beyond
    <3>2. after[i] \in Beyond(after[i-1].current + 1)
      BY <1>10, <3>1, PutBeyond, Characters
    <3> QED BY <1>1, <1>6, <3>1, <3>2, StaysBeyond
  <2> QED BY <2>1, <2>2
<1>12. 0 \in P
  BY <1>1
<1>13. \A i \in 0..n : i \in P
  <2> HIDE DEF P
  <2> QED BY <1>1, <1>11, <1>12, UpTo
<1> QED BY <1>1, <1>2, <1>13

\* Any character, the end of a row included, moves the position on.
LEMMA PrintCharBeyond ==
  ASSUME NEW c \in Consoles, NEW char \in Chars \union {Newline}
  PROVE  ncPrintChar(c, char) \in Beyond(c.current + 1)
<1>1. CASE char = Newline
  <2> DEFINE d == scrollDown(c)
  <2>1. d \in Consoles /\ d.current = IF c.current < LastRow THEN c.current ELSE RowAbove
    BY ScrollIs
  <2>2. ncNewline(d) \in Beyond(d.current + 1)
    BY <2>1, NewlineBeyond
  <2>3. ncPrintChar(c, char) = ncNewline(d)
    BY <1>1 DEF ncPrintChar
  <2> HIDE DEF d
  <2>4. c.current \in 0..LastRow
    BY DEF Consoles
  <2>5. CASE d.current = c.current
    BY <2>2, <2>3, <2>5
  <2>6. CASE d.current = RowAbove
    <3>1. ncNewline(d).current \in 0..LastRow
      BY <2>2 DEF Beyond, Consoles
    <3> QED BY <2>2, <2>3, <2>6, <3>1, Rows DEF Beyond
  <2> QED BY <2>1, <2>5, <2>6
<1>2. CASE char # Newline
  BY <1>2, PutBeyond, Characters DEF ncPrintChar
<1> QED BY <1>1, <1>2

\* ncPrint prints the characters of a string in their order.
LEMMA PrintUnfolds ==
  ASSUME NEW c \in Consoles, NEW s \in Seq(Chars \union {Newline})
  PROVE  \E after :
           /\ after[0] = c /\ ncPrint(c, s) = after[Len(s)]
           /\ \A i \in 1..Len(s) : after[i] = ncPrintChar(after[i-1], s[i])
<1> DEFINE n == Len(s)
           Up(g) == [i \in 0..n |-> IF i = 0 THEN c ELSE ncPrintChar(g[i-1], s[i])]
           step == [x \in (1..n) \X Consoles |-> ncPrintChar(x[2], s[x[1]])]
           after == CHOOSE g : g = Up(g)
<1>1. n \in Nat /\ \A i \in 1..n : s[i] \in Chars \union {Newline}
  OBVIOUS
<1>2. ncPrint(c, s) = after[n]
  BY DEF ncPrint
<1> HIDE DEF n
<1>3. step \in [(1..n) \X Consoles -> Consoles]
  <2>1. ASSUME NEW x \in (1..n) \X Consoles PROVE step[x] \in Consoles
    <3>1. x[2] \in Consoles /\ s[x[1]] \in Chars \union {Newline}
      BY <1>1
    <3>2. ncPrintChar(x[2], s[x[1]]) \in Consoles
      BY <3>1, PrintCharBeyond DEF Beyond
    <3> QED BY <3>2
  <2> QED BY <2>1
<1> HIDE DEF step
<1>4. PICK f : Iteration(f, n, Consoles, c, step)
  BY <1>1, <1>3, Iterates, Zenon
<1>5. /\ f \in [0..n -> Consoles] /\ f[0] = c
      /\ \A i \in 1..n : f[i] = step[<<i, f[i-1]>>]
  BY <1>4 DEF Iteration
<1>6. \A i \in 1..n : i-1 \in 0..n /\ i \in 0..n /\ i # 0
  BY <1>1
<1>7. \A i \in 1..n : f[i] = ncPrintChar(f[i-1], s[i])
  BY <1>5, <1>6 DEF step
<1>8. f = Up(f)
  <2>1. \A i \in 0..n : i = 0 \/ i \in 1..n
    BY <1>1
  <2>2. \A i \in 0..n : f[i] = IF i = 0 THEN c ELSE ncPrintChar(f[i-1], s[i])
    BY <1>5, <1>7, <2>1
  <2> QED BY <1>5, <2>2
<1>9. after = Up(after)
  <2> HIDE DEF Up
  <2> QED BY <1>8, Zenon
<1> HIDE DEF after
<1>10. after[0] = c /\ \A i \in 1..n : after[i] = ncPrintChar(after[i-1], s[i])
  <2>1. 0 \in 0..n
    BY <1>1
  <2>2. Up(after)[0] = c /\ \A i \in 1..n : Up(after)[i] = ncPrintChar(after[i-1], s[i])
    BY <1>6, <2>1
  <2> HIDE DEF Up
  <2> QED BY <1>9, <2>2
<1> QED BY <1>2, <1>10 DEF n

\* Printing stays on the screen and does not go back.
LEMMA PrintBeyond ==
  ASSUME NEW c \in Consoles, NEW s \in Seq(Chars \union {Newline})
  PROVE  ncPrint(c, s) \in Beyond(c.current)
<1>1. PICK after :
        /\ after[0] = c /\ ncPrint(c, s) = after[Len(s)]
        /\ \A i \in 1..Len(s) : after[i] = ncPrintChar(after[i-1], s[i])
  BY PrintUnfolds
<1>2. Len(s) \in Nat /\ \A i \in 1..Len(s) : s[i] \in Chars \union {Newline}
  OBVIOUS
<1>3. c.current \in Int
  BY Rows DEF Consoles
<1> DEFINE P == {i \in 0..Len(s) : after[i] \in Beyond(c.current)}
<1>4. 0 \in P
  BY <1>1, <1>2, <1>3 DEF Beyond
<1>5. ASSUME NEW i \in 1..Len(s), i-1 \in P PROVE i \in P
  <2>1. after[i-1] \in Beyond(c.current) /\ after[i-1] \in Consoles
    BY <1>5 DEF Beyond
  <2>2. after[i] \in Beyond(after[i-1].current + 1)
    BY <1>1, <1>2, <2>1, PrintCharBeyond
  <2>3. after[i] \in Beyond(c.current)
    BY <1>3, <2>1, <2>2, StaysBeyond
  <2> QED BY <2>3
<1>6. \A i \in 0..Len(s) : i \in P
  <2> HIDE DEF P
  <2> QED BY <1>2, <1>4, <1>5, UpTo
<1> QED BY <1>1, <1>2, <1>6

\* The digits of a number (libc.c:29-54) are characters.
LEMMA DigitsAre ==
  ASSUME NEW n \in Nat
  PROVE  uintToBase(n, 10) \in Seq(Range(Numeral))
<1> DEFINE D == Range(Numeral)
           Next10(g, v) == IF v < 10 THEN <<Numeral[v + 1]>>
                           ELSE Append(g[v \div 10], Numeral[(v % 10) + 1])
           Up(g, k) == [v \in 0..k |-> Next10(g, v)]
           Is(g, k) == g \in [0..k -> Seq(D)] /\ \A v \in 0..k : g[v] = Next10(g, v)
           Bad == {k \in Nat : k <= n /\ ~ \E g : Is(g, k)}
           digits == CHOOSE g : g = Up(g, n)
<1>1. \A d \in 1..10 : Numeral[d] \in D
  <2>1. DOMAIN Numeral = 1..10
    BY DEF Numeral
  <2> QED BY <2>1 DEF Range
<1> HIDE DEF D
<1>2. \A v \in Nat : /\ v % 10 \in 0..9 /\ v \div 10 \in Nat
                     /\ v >= 10 => v \div 10 <= v - 1
  OBVIOUS
<1>3. ASSUME NEW k \in 0..n, NEW g, k > 0 => Is(g, k-1) PROVE \E f : Is(f, k)
  <2> DEFINE f == [v \in 0..k |-> IF v = k THEN Next10(g, k) ELSE g[v]]
  <2>1. Next10(g, k) \in Seq(D)
    <3>1. CASE k < 10
      <4>1. Numeral[k + 1] \in D
        BY <1>1, <3>1
      <4> QED BY <3>1, <4>1
    <3>2. CASE ~(k < 10)
      <4>1. k \div 10 \in 0..(k-1) /\ (k % 10) + 1 \in 1..10
        BY <1>2, <3>2
      <4>2. g[k \div 10] \in Seq(D) /\ Numeral[(k % 10) + 1] \in D
        <5>1. k > 0
          BY <3>2
        <5>2. g \in [0..(k-1) -> Seq(D)]
          BY <1>3, <5>1 DEF Is
        <5> QED BY <1>1, <4>1, <5>2
      <4> QED BY <3>2, <4>2, AppendProperties
    <3> QED BY <3>1, <3>2
  <2>2. \A v \in 0..k : v # k => k > 0 /\ v \in 0..(k-1)
    OBVIOUS
  <2> HIDE DEF Next10
  <2>3. f \in [0..k -> Seq(D)]
    BY <1>3, <2>1, <2>2
  <2>4. ASSUME NEW v \in 0..k PROVE f[v] = Next10(g, v)
    BY <1>3, <2>2
  <2>5. ASSUME NEW v \in 0..k PROVE Next10(g, v) = Next10(f, v)
    <3>1. v >= 10 => v \div 10 \in 0..k /\ v \div 10 # k
      BY <1>2
    <3>2. v >= 10 => f[v \div 10] = g[v \div 10]
      BY <3>1
    <3> HIDE DEF f
    <3> QED BY <3>2 DEF Next10
  <2> HIDE DEF f
  <2> QED BY <2>3, <2>4, <2>5
<1> HIDE DEF Is
<1>4. Bad = {}
  <2> SUFFICES ASSUME Bad # {} PROVE FALSE
    OBVIOUS
  <2>1. PICK k \in Bad : \A m \in Bad : k <= m
    BY LeastNatural, Zenon
  <2>2. CASE k = 0
    <3>1. \A g : k > 0 => Is(g, k-1)
      BY <2>2
    <3> QED BY <1>3, <2>1, <3>1
  <2>3. CASE k # 0
    <3>1. k-1 \in Nat /\ k-1 <= n /\ ~(k <= k-1) /\ k \in 0..n
      BY <2>1, <2>3
    <3>2. PICK g : Is(g, k-1)
      BY <2>1, <3>1
    <3> QED BY <1>3, <2>1, <3>1, <3>2
  <2> QED BY <2>2, <2>3
<1>5. PICK f : Is(f, n)
  BY <1>4
<1>6. f = Up(f, n)
  <2> HIDE DEF Next10
  <2> QED BY <1>5 DEF Is
<1>7. digits = Up(digits, n)
  <2> HIDE DEF Up
  <2> QED BY <1>6, Zenon
<1>8. uintToBase(n, 10) = digits[n]
  BY DEF uintToBase
<1> HIDE DEF digits
<1>9. \A v \in 0..n : digits[v] = Next10(digits, v)
  <2> HIDE DEF Next10
  <2> QED BY <1>7
<1> DEFINE P == {v \in 0..n : \A u \in 0..v : digits[u] \in Seq(D)}
<1> HIDE DEF Next10
<1>10. 0 \in P
  <2>1. digits[0] = Next10(digits, 0) /\ Numeral[0 + 1] \in D
    BY <1>1, <1>9
  <2>2. digits[0] = <<Numeral[0 + 1]>>
    BY <2>1 DEF Next10
  <2>3. digits[0] \in Seq(D)
    <3>1. \A d \in D : <<d>> \in Seq(D)
      OBVIOUS
    <3> QED BY <2>1, <2>2, <3>1, Zenon
  <2>4. \A u \in 0..0 : u = 0
    OBVIOUS
  <2> HIDE DEF digits
  <2> QED BY <2>3, <2>4
<1>11. ASSUME NEW v \in 1..n, v-1 \in P PROVE v \in P
  <2>1. \A u \in 0..(v-1) : digits[u] \in Seq(D)
    BY <1>11
  <2>2. digits[v] \in Seq(D)
    <3>1. digits[v] = Next10(digits, v)
      BY <1>9
    <3>2. CASE v < 10
      <4>1. digits[v] = <<Numeral[v + 1]>> /\ v + 1 \in 1..10
        BY <3>1, <3>2 DEF Next10
      <4> QED BY <1>1, <4>1
    <3>3. CASE ~(v < 10)
      <4>1. v \div 10 \in 0..(v-1) /\ (v % 10) + 1 \in 1..10
        BY <1>2, <3>3
      <4>2. digits[v] = Append(digits[v \div 10], Numeral[(v % 10) + 1])
        BY <3>1, <3>3 DEF Next10
      <4> QED BY <1>1, <2>1, <4>1, <4>2, AppendProperties
    <3> QED BY <3>2, <3>3
  <2> QED BY <2>1, <2>2
<1>12. n \in P
  <2> HIDE DEF P
  <2>1. \A v \in 0..n : v \in P
    BY <1>10, <1>11, UpTo
  <2> QED BY <2>1
<1>13. digits[n] \in Seq(D)
  BY <1>12
<1> QED BY <1>8, <1>13 DEF D

\* The blinking cursor is shown and taken away at the current position.
LEMMA DisplayIs ==
  ASSUME NEW c \in Consoles
  PROVE  /\ displayCursor(c) \in Consoles /\ displayCursor(c).current = c.current
         /\ \A s : Ends(c, s) => Ends(displayCursor(c), s)
<1> DEFINE e == displayCursor(c)
           ch == IF c.cursor THEN Blank ELSE CursorMark
<1>1. /\ c \in [video : [Cells -> Glyphs], current : 0..LastRow, cursor : BOOLEAN]
      /\ \A i \in Cells : c.video[i] = CursorMark => i = c.current
  BY DEF Consoles
<1>2. e = [c EXCEPT !.video = [c.video EXCEPT ![c.current] = ch], !.cursor = ~c.cursor]
  BY <1>1 DEF displayCursor, deleteCursor
<1>3. c.current \in Cells /\ c.current \in Nat /\ ch \in Glyphs
  <2>1. c.current \in 0..LastRow
    BY <1>1
  <2> QED BY <2>1, Characters, Rows
<1> HIDE DEF e, ch
<1>4. [c.video EXCEPT ![c.current] = ch] \in [Cells -> Glyphs]
  BY <1>1, <1>3
<1>5. /\ e.video = [c.video EXCEPT ![c.current] = ch] /\ e.current = c.current
      /\ e \in [video : [Cells -> Glyphs], current : 0..LastRow, cursor : BOOLEAN]
  BY <1>1, <1>2, <1>4
<1>6. e \in Consoles
  <2>1. \A i \in Cells : e.video[i] = CursorMark => i = e.current
    BY <1>1, <1>3, <1>5
  <2> QED BY <1>5, <2>1 DEF Consoles
<1>7. ASSUME NEW s, Ends(c, s), NEW i \in 1..Len(s), i <= e.current
      PROVE  e.video[e.current - i] = s[Len(s) - i + 1]
  <2>1. c.current - i \in Cells /\ c.current - i # c.current
    BY <1>3, <1>5, <1>7, Rows
  <2>2. c.video[c.current - i] = s[Len(s) - i + 1]
    BY <1>5, <1>7 DEF Ends
  <2> QED BY <1>1, <1>5, <2>1, <2>2
<1> QED BY <1>5, <1>6, <1>7 DEF Ends, e

\* A printed character comes to the end of the line in front of the cursor.
LEMMA PutEnds ==
  ASSUME NEW c \in Consoles, NEW char \in Glyphs \ {CursorMark}, NEW T, NEW s \in Seq(T),
         Ends(c, s)
  PROVE  Ends(Put(c, char), Append(s, char))
<1> DEFINE e == Put(c, char)
           t == Append(s, char)
<1>1. /\ e \in Consoles
      /\ e.current = (IF c.current < LastRow THEN c.current ELSE RowAbove) + 1
      /\ e.video[e.current - 1] = char
      /\ \A i \in 2..e.current : e.video[e.current - i] = c.video[c.current - (i - 1)]
  BY PutIs
<1>2. /\ Len(t) = Len(s) + 1 /\ t[Len(s) + 1] = char /\ Len(s) \in Nat
      /\ \A i \in 1..Len(s) : t[i] = s[i]
  OBVIOUS
<1> HIDE DEF e, t
<1>3. c.current \in 0..LastRow /\ e.current \in 0..LastRow
  BY <1>1 DEF Consoles
<1>4. ASSUME NEW i \in 1..Len(t), i <= e.current
      PROVE  e.video[e.current - i] = t[Len(t) - i + 1]
  <2>1. CASE i = 1
    BY <1>1, <1>2, <2>1
  <2>2. CASE i # 1
    <3>1. i \in 2..e.current /\ i - 1 \in 1..Len(s) /\ i - 1 <= c.current
      BY <1>1, <1>2, <1>3, <1>4, <2>2, Rows
    <3>2. c.video[c.current - (i - 1)] = s[Len(s) - (i - 1) + 1]
      BY <3>1 DEF Ends
    <3>3. Len(s) - (i - 1) + 1 \in 1..Len(s) /\ Len(s) - (i - 1) + 1 = Len(t) - i + 1
      BY <1>2, <3>1
    <3> QED BY <1>1, <1>2, <3>1, <3>2, <3>3
  <2> QED BY <2>1, <2>2
<1> QED BY <1>4 DEF Ends, e, t

\* A backspace takes it off again.
LEMMA BackspaceIs ==
  ASSUME NEW c \in Consoles, CanBackspace(c)
  PROVE  /\ ncBackspace(c) \in Consoles
         /\ c.current \in Nat \ {0} /\ ncBackspace(c).current = c.current - 1
         /\ \A T : \A s \in Seq(T) : s # <<>> /\ Ends(c, s) => Ends(ncBackspace(c), Front(s))
<1> DEFINE v == [c.video EXCEPT ![c.current] = Blank]
           w == [v EXCEPT ![c.current - 1] = NUL]
           e == ncBackspace(c)
<1>1. /\ c \in [video : [Cells -> Glyphs], current : 0..LastRow, cursor : BOOLEAN]
      /\ \A i \in Cells : c.video[i] = CursorMark => i = c.current
  BY DEF Consoles
<1>2. c.current \in Cells /\ c.current - 1 \in Cells /\ c.current \in Nat \ {0}
  <2>1. c.current \in 0..LastRow
    BY <1>1
  <2> QED BY <2>1, Rows DEF CanBackspace
<1>3. w \in [Cells -> Glyphs] /\ v \in [Cells -> Glyphs]
  BY <1>1, <1>2, Characters
<1>4. e = [[c EXCEPT !.video = v, !.cursor = FALSE] EXCEPT !.video = w,
                                                           !.current = c.current - 1]
  BY <1>1 DEF ncBackspace, deleteCursor
<1>5. \A i \in Cells : w[i] = IF i = c.current - 1 THEN NUL
                              ELSE IF i = c.current THEN Blank ELSE c.video[i]
  BY <1>1, <1>2, <1>3
<1> HIDE DEF v, w, e
<1>6. /\ e.video = w /\ e.current = c.current - 1
      /\ e \in [video : [Cells -> Glyphs], current : 0..LastRow, cursor : BOOLEAN]
  <2>1. c.current - 1 \in 0..LastRow
    BY <1>1, <1>2, Rows
  <2> QED BY <1>1, <1>3, <1>4, <2>1
<1>7. e \in Consoles
  <2>1. \A i \in Cells : e.video[i] # CursorMark
    BY <1>1, <1>5, <1>6, Characters
  <2> QED BY <1>6, <2>1 DEF Consoles
<1>8. ASSUME NEW T, NEW s \in Seq(T), s # <<>>, Ends(c, s) PROVE Ends(e, Front(s))
  <2>1. /\ Len(s) \in Nat \ {0} /\ Len(Front(s)) = Len(s) - 1
        /\ \A i \in 1..(Len(s) - 1) : Front(s)[i] = s[i]
    BY <1>8, FrontIs
  <2>2. ASSUME NEW i \in 1..(Len(s) - 1), i <= e.current
        PROVE  e.video[e.current - i] = Front(s)[Len(s) - 1 - i + 1]
    <3>1. i + 1 \in 1..Len(s) /\ i + 1 <= c.current
      BY <1>2, <1>6, <2>1, <2>2
    <3>2. c.video[c.current - (i + 1)] = s[Len(s) - (i + 1) + 1]
      BY <1>8, <3>1 DEF Ends
    <3>3. /\ e.current - i = c.current - (i + 1) /\ c.current - (i + 1) \in Cells
          /\ c.current - (i + 1) # c.current - 1 /\ c.current - (i + 1) # c.current
      BY <1>2, <1>6, <3>1, Rows
    <3>4. Len(s) - 1 - i + 1 = Len(s) - (i + 1) + 1 /\ Len(s) - 1 - i + 1 \in 1..(Len(s) - 1)
      BY <2>1
    <3> QED BY <1>5, <1>6, <2>1, <3>2, <3>3, <3>4
  <2> QED BY <2>1, <2>2 DEF Ends
<1> QED BY <1>2, <1>6, <1>7, <1>8 DEF e

\* clear empties the screen.
LEMMA ClearIs ==
  ASSUME NEW c \in Consoles
  PROVE  Cleared \in Consoles /\ ncClear(c) \in Consoles
<1> DEFINE blank == [i \in Cells |-> Blank]
<1>1. c.cursor \in BOOLEAN /\ 0 \in 0..LastRow
  BY Rows DEF Consoles
<1>2. blank \in [Cells -> Glyphs] /\ \A i \in Cells : blank[i] # CursorMark
  BY Characters
<1>3. Cleared = [video |-> blank, current |-> 0, cursor |-> FALSE]
  BY DEF Cleared
<1> HIDE DEF blank
<1>4. ncClear(c) = [video |-> blank, current |-> 0, cursor |-> c.cursor]
  BY <1>3 DEF ncClear
<1> QED BY <1>1, <1>2, <1>3, <1>4 DEF Consoles
-----------------------------------------------------------------------------
(* The line and the commands                                               *)

\* The words of a line with single blanks between them.
LEMMA RenderIs ==
  ASSUME NEW words \in Seq(Words)
  PROVE  Render(words) \in Seq(Chars) /\ Len(Render(words)) <= 4 * Len(words)
<1> DEFINE m == Len(words)
           Up(g) == [n \in 0..m |-> CASE n = 0 -> <<>>
                                      [] n = 1 -> words[1]
                                      [] n > 1 -> g[n-1] \o <<Blank>> \o words[n]]
           step == [x \in (1..m) \X Seq(Chars) |->
                      IF x[1] = 1 THEN words[1] ELSE x[2] \o <<Blank>> \o words[x[1]]]
           joined == CHOOSE g : g = Up(g)
<1>1. m \in Nat /\ \A i \in 1..m : words[i] \in Seq(Chars) /\ Len(words[i]) \in 1..3
  BY WordsAssumption
<1>2. Render(words) = joined[m]
  BY DEF Render
<1> HIDE DEF m
<1>3. ASSUME NEW i \in 1..m, NEW s \in Seq(Chars)
      PROVE  /\ s \o <<Blank>> \o words[i] \in Seq(Chars)
             /\ Len(s \o <<Blank>> \o words[i]) = Len(s) + 1 + Len(words[i])
  <2>1. <<Blank>> \in Seq(Chars) /\ Len(<<Blank>>) = 1
    BY Characters
  <2>2. s \o <<Blank>> \in Seq(Chars) /\ Len(s \o <<Blank>>) = Len(s) + 1
    BY <2>1, ConcatProperties
  <2> QED BY <1>1, <2>2, ConcatProperties
<1>4. step \in [(1..m) \X Seq(Chars) -> Seq(Chars)]
  <2>1. ASSUME NEW x \in (1..m) \X Seq(Chars) PROVE step[x] \in Seq(Chars)
    <3>1. x[1] \in 1..m /\ x[2] \in Seq(Chars)
      OBVIOUS
    <3>2. words[x[1]] \in Seq(Chars) /\ x[2] \o <<Blank>> \o words[x[1]] \in Seq(Chars)
      BY <1>1, <1>3, <3>1
    <3> QED BY <3>1, <3>2
  <2> QED BY <2>1
<1> HIDE DEF step
<1>5. PICK f : Iteration(f, m, Seq(Chars), <<>>, step)
  <2>1. <<>> \in Seq(Chars)
    OBVIOUS
  <2> QED BY <1>1, <1>4, <2>1, Iterates, Zenon
<1>6. /\ f \in [0..m -> Seq(Chars)] /\ f[0] = <<>>
      /\ \A i \in 1..m : f[i] = step[<<i, f[i-1]>>]
  BY <1>5 DEF Iteration
<1>7. \A i \in 1..m : i-1 \in 0..m /\ i \in 0..m /\ i # 0 /\ (i # 1 => i > 1)
  BY <1>1
<1>8. \A i \in 1..m : f[i] = IF i = 1 THEN words[1] ELSE f[i-1] \o <<Blank>> \o words[i]
  BY <1>6, <1>7 DEF step
<1>9. f = Up(f)
  <2>1. ASSUME NEW n \in 0..m PROVE f[n] = Up(f)[n]
    <3>1. CASE n = 0
      BY <1>6, <3>1
    <3>2. CASE n # 0
      <4>1. n \in 1..m /\ (n # 1 => n > 1)
        BY <1>1, <3>2
      <4> QED BY <1>8, <3>2, <4>1
    <3> QED BY <3>1, <3>2
  <2> QED BY <1>6, <2>1
<1>10. joined = Up(joined)
  <2> HIDE DEF Up
  <2> QED BY <1>9, Zenon
<1> HIDE DEF joined
<1>11. /\ joined[0] = <<>>
       /\ \A i \in 1..m : joined[i] = IF i = 1 THEN words[1]
                                    ELSE joined[i-1] \o <<Blank>> \o words[i]
  <2>1. 0 \in 0..m
    BY <1>1
  <2>2. Up(joined)[0] = <<>>
    BY <2>1
  <2>3. ASSUME NEW i \in 1..m
        PROVE  Up(joined)[i] = IF i = 1 THEN words[1] ELSE joined[i-1] \o <<Blank>> \o words[i]
    BY <1>7
  <2> HIDE DEF Up
  <2> QED BY <1>10, <2>2, <2>3
<1> DEFINE P == {i \in 0..m : joined[i] \in Seq(Chars) /\ Len(joined[i]) <= 4 * i}
<1>12. 0 \in P
  <2>1. 0 \in 0..m /\ <<>> \in Seq(Chars) /\ Len(<<>>) <= 4 * 0
    BY <1>1
  <2>2. joined[0] = <<>>
    BY <1>11
  <2> QED BY <2>1, <2>2
<1>13. ASSUME NEW i \in 1..m, i-1 \in P PROVE i \in P
  <2>1. joined[i-1] \in Seq(Chars) /\ Len(joined[i-1]) <= 4 * (i-1) /\ Len(joined[i-1]) \in Nat
    BY <1>13
  <2>2. CASE i = 1
    <3>1. 1 \in 1..m /\ i \in 0..m
      BY <1>7, <2>2
    <3>2. words[1] \in Seq(Chars) /\ Len(words[1]) \in 1..3 /\ joined[i] = words[1]
      BY <1>1, <1>11, <2>2, <3>1
    <3>3. Len(joined[i]) <= 4 * i
      <4> DEFINE k == Len(joined[i])
      <4>1. k \in 1..3
        BY <3>2
      <4> HIDE DEF k
      <4>2. k <= 4 * i
        BY <2>2, <4>1
      <4> QED BY <4>2 DEF k
    <3> QED BY <3>1, <3>2, <3>3
  <2>3. CASE i # 1
    <3>1. joined[i] = joined[i-1] \o <<Blank>> \o words[i]
      BY <1>11, <2>3
    <3>2. joined[i] \in Seq(Chars) /\ Len(joined[i]) = Len(joined[i-1]) + 1 + Len(words[i])
      BY <1>3, <2>1, <3>1
    <3>3. Len(words[i]) \in 1..3 /\ i \in 0..m
      BY <1>1, <1>7
    <3>4. Len(joined[i]) <= 4 * i
      <4> DEFINE h == Len(joined[i-1])
                 k == Len(joined[i])
                 w == Len(words[i])
      <4>1. i \in Nat /\ h \in Nat /\ h <= 4 * (i-1) /\ k = h + 1 + w /\ w \in 1..3
        BY <1>1, <2>1, <3>2, <3>3
      <4> HIDE DEF h, k, w
      <4>2. k <= 4 * i
        BY <4>1
      <4> QED BY <4>2 DEF k
    <3> QED BY <3>2, <3>3, <3>4
  <2> QED BY <2>2, <2>3
<1>14. m \in P
  <2> HIDE DEF P
  <2>1. \A i \in 0..m : i \in P
    BY <1>1, <1>12, <1>13, UpTo
  <2> QED BY <1>1, <2>1
<1> QED BY <1>2, <1>14 DEF m

\* A command creates at most two processes, and none when it is a built-in one.
LEMMA CommandShape ==
  ASSUME NEW b, NEW stack
  PROVE  \E ps, f, ns : /\ executeCommand(b, stack) = Outcome(ps, f, ns)
                        /\ Len(ps) \in 0..2 /\ (f = "none" \/ ps = <<>>)
<1> DEFINE args == Args(b)
           bars == {i \in 2..(Len(args) - 1) : args[i] = <<"|">>}
           Shaped(o) == \E ps, f, ns : /\ o = Outcome(ps, f, ns) /\ Len(ps) \in 0..2
                                       /\ (f = "none" \/ ps = <<>>)
<1>1. Shaped(Unknown)
  <2>1. Len(<<>>) \in 0..2
    OBVIOUS
  <2> QED BY <2>1 DEF Unknown
<1>2. \A x, y : Shaped(Outcome(<<x, y>>, "none", <<>>)) /\ Shaped(Outcome(<<x>>, "none", <<>>))
  <2>1. \A x, y : Len(<<x, y>>) \in 0..2 /\ Len(<<x>>) \in 0..2
    OBVIOUS
  <2> QED BY <2>1, Zenon
<1>3. \A f, ns : Shaped(Outcome(<<>>, f, ns))
  <2>1. Len(<<>>) \in 0..2
    OBVIOUS
  <2> QED BY <2>1, Zenon
<1>4. \A as, bar : Shaped(managePipe(as, bar))
  <2> HIDE DEF Shaped
  <2> QED BY <1>1, <1>2 DEF managePipe
<1>5. executeCommand(b, stack) =
        CASE TooLong(b)         -> Unknown
          [] bars # {}          -> managePipe(args, Min(bars))
          [] IsProcess(args[1]) -> Outcome(<<createProcess(args, FALSE)>>, "none", <<>>)
          [] IsBuiltin(args[1]) -> Outcome(<<>>, args[1][1], Numbers(args, stack))
          [] OTHER              -> Unknown
  BY DEF executeCommand
<1> HIDE DEF args, bars
<1>6. Shaped(executeCommand(b, stack))
  <2> HIDE DEF Shaped
  <2>1. TooLong(b) \in BOOLEAN /\ IsProcess(args[1]) \in BOOLEAN /\ IsBuiltin(args[1]) \in BOOLEAN
    BY DEF TooLong, IsProcess, IsBuiltin
  <2> QED BY <1>1, <1>2, <1>3, <1>4, <1>5, <2>1
<1> QED BY <1>6
-----------------------------------------------------------------------------
(* The invariant of a session                                              *)

\* All but the last x characters of s begin t.
Within(s, x, t) ==
  /\ x <= Len(s) /\ Len(s) - x <= Len(t)
  /\ \A i \in 1..(Len(s) - x) : s[i] = t[i]

\* The user can take back his slips: when no more characters are in front of the cursor
\* than he has typed, the screen has scrolled since.
InReach ==
  stage = "read" =>
    \E x \in 0..slips : /\ Within(entered, x, Render(meant))
                        /\ \/ console.current >= Len(entered)
                           \/ console.current >= RowAbove - (slips - x)

\* What read has stored is the line, as far as there is room for it.
LineStored == \A i \in 1..Len(entered) : i <= LINE => memory[i-1] = entered[i]

\* The prompt and the line are in front of the cursor unless somebody else has printed.
LineShown ==
  stage = "read" => LineStored /\ (~mixed => Ends(console, Prompt \o entered))

\* The processes: nobody is in the foreground while the shell executes a command.
ProcessesOK ==
  /\ running \subseteq 2..(nextPid - 1) /\ nextPid \in Nat \ {0, 1}
  /\ fg \in running \union {0} /\ (stage = "execute" => fg = 0)

\* The line and the screen.
LineOK ==
  /\ console \in Consoles /\ memory \in [Memory -> Chars \union {End, "clear"}]
  /\ stage \in {"prompt", "read", "execute"}
  /\ meant \in Seq(Words) /\ entered \in Seq(Chars)
  /\ wordsLeft \in Nat /\ slips \in 0..MaxSlips
  /\ Len(meant) + wordsLeft <= MaxWords
  /\ Len(entered) <= Len(Render(meant)) + slips
  /\ length = Len(entered)

\* The inductive invariant of a session.
SessionIInv == LineOK /\ ProcessesOK /\ InReach /\ LineShown

\* A prefix is a sequence whose characters all begin the other.
LEMMA PrefixWithin ==
  ASSUME NEW T, NEW s \in Seq(T), NEW t \in Seq(T)
  PROVE  IsPrefix(s, t) <=> Within(s, 0, t)
<1>1. Len(s) \in Nat /\ Len(t) \in Nat /\ Len(s) - 0 = Len(s)
  OBVIOUS
<1>2. SubSeq(s, 1, Len(s)) = s
  BY SubSeqFull
<1>3. ASSUME Len(s) <= Len(t) PROVE SubSeq(t, 1, Len(s)) = s <=> \A i \in 1..Len(s) : s[i] = t[i]
  <2>1. \A i \in 1..Len(s) : t[i] \in T
    BY <1>1, <1>3
  <2>2. /\ SubSeq(t, 1, Len(s)) \in Seq(T)
        /\ Len(SubSeq(t, 1, Len(s))) = IF 1 <= Len(s) THEN Len(s) - 1 + 1 ELSE 0
        /\ \A i \in 1..(Len(s) - 1 + 1) : SubSeq(t, 1, Len(s))[i] = t[1 + i - 1]
    BY <1>1, <2>1, SubSeqProperties
  <2> DEFINE u == SubSeq(t, 1, Len(s))
  <2>3. u \in Seq(T) /\ Len(u) = Len(s) /\ \A i \in 1..Len(s) : u[i] = t[i]
    BY <1>1, <2>2
  <2> HIDE DEF u
  <2>4. (\A i \in 1..Len(s) : s[i] = t[i]) => u = s
    BY <2>3, SeqEqual
  <2> QED BY <2>3, <2>4 DEF u
<1>4. CASE Len(s) <= Len(t)
  BY <1>1, <1>2, <1>3, <1>4 DEF IsPrefix, Within
<1>5. CASE ~(Len(s) <= Len(t))
  BY <1>1, <1>5 DEF IsPrefix, Within
<1> QED BY <1>4, <1>5

\* The prompt with a line behind it.
LEMMA PromptIs ==
  /\ \E a, b \in Chars : Prompt = <<a, b>>
  /\ Prompt \in Seq(Chars) /\ Len(Prompt) = 2
<1>1. ">" \in Signs /\ Signs \subseteq Chars
  <2>1. ">" \in Signs
    BY Zenon DEF Signs
  <2>2. Signs \subseteq Chars
    BY DEF Chars
  <2> QED BY <2>1, <2>2
<1>2. PICK a, b \in Chars : Prompt = <<a, b>>
  BY <1>1, Characters, Zenon DEF Prompt
<1>3. <<a, b>> \in Seq(Chars) /\ Len(<<a, b>>) = 2
  OBVIOUS
<1> QED BY <1>2, <1>3

\* The line behind the prompt grows and shrinks at its end.
LEMMA PromptedLine ==
  ASSUME NEW s \in Seq(Chars)
  PROVE  /\ Prompt \o s \in Seq(Chars) /\ Len(Prompt \o s) = Len(s) + 2
         /\ \A char \in Chars : Append(Prompt \o s, char) = Prompt \o Append(s, char)
         /\ s # <<>> => Prompt \o s # <<>> /\ Front(Prompt \o s) = Prompt \o Front(s)
<1>1. /\ Prompt \o s \in Seq(Chars) /\ Len(Prompt \o s) = Len(s) + 2 /\ Len(s) \in Nat
      /\ \A i \in 1..Len(Prompt \o s) : (Prompt \o s)[i] = IF i <= 2 THEN Prompt[i] ELSE s[i-2]
  BY PromptIs, ConcatProperties
<1>2. ASSUME NEW char \in Chars PROVE Append(Prompt \o s, char) = Prompt \o Append(s, char)
  <2>1. /\ <<char>> \in Seq(Chars)
        /\ Append(s, char) = s \o <<char>>
        /\ Append(Prompt \o s, char) = (Prompt \o s) \o <<char>>
    BY <1>1, AppendIsConcat
  <2> QED BY <2>1, PromptIs, ConcatAssociative
<1>3. ASSUME s # <<>> PROVE Prompt \o s # <<>> /\ Front(Prompt \o s) = Prompt \o Front(s)
  <2>1. Prompt \o s # <<>>
    BY <1>1
  <2>2. /\ Len(s) \in Nat \ {0} /\ Front(s) \in Seq(Chars) /\ Len(Front(s)) = Len(s) - 1
        /\ \A i \in 1..(Len(s) - 1) : Front(s)[i] = s[i]
    BY <1>3, FrontIs
  <2>3. /\ Front(Prompt \o s) \in Seq(Chars) /\ Len(Front(Prompt \o s)) = Len(s) + 1
        /\ \A i \in 1..(Len(s) + 1) : Front(Prompt \o s)[i] = (Prompt \o s)[i]
    <3> DEFINE w == Prompt \o s
    <3>1. w \in Seq(Chars) /\ w # <<>> /\ Len(w) - 1 = Len(s) + 1
      BY <1>1, <2>1
    <3> HIDE DEF w
    <3>2. /\ Front(w) \in Seq(Chars) /\ Len(Front(w)) = Len(w) - 1
          /\ \A i \in 1..(Len(w) - 1) : Front(w)[i] = w[i]
      BY <3>1, FrontIs
    <3> QED BY <3>1, <3>2 DEF w
  <2>4. /\ Prompt \o Front(s) \in Seq(Chars) /\ Len(Prompt \o Front(s)) = Len(s) + 1
        /\ \A i \in 1..(Len(s) + 1) :
             (Prompt \o Front(s))[i] = IF i <= 2 THEN Prompt[i] ELSE Front(s)[i-2]
    BY <2>2, PromptIs, ConcatProperties
  <2>5. ASSUME NEW i \in 1..(Len(s) + 1) PROVE Front(Prompt \o s)[i] = (Prompt \o Front(s))[i]
    <3>1. i \in 1..Len(Prompt \o s) /\ (i > 2 => i - 2 \in 1..(Len(s) - 1))
      BY <1>1, <2>2
    <3>2. Front(Prompt \o s)[i] = IF i <= 2 THEN Prompt[i] ELSE s[i-2]
      <4>1. Front(Prompt \o s)[i] = (Prompt \o s)[i]
        BY <2>3
      <4>2. (Prompt \o s)[i] = IF i <= 2 THEN Prompt[i] ELSE s[i-2]
        BY <1>1, <3>1
      <4> QED BY <4>1, <4>2, Zenon
    <3>3. (Prompt \o Front(s))[i] = IF i <= 2 THEN Prompt[i] ELSE Front(s)[i-2]
      BY <2>4, Zenon
    <3>4. i <= 2 \/ i > 2
      OBVIOUS
    <3>5. i > 2 => Front(s)[i-2] = s[i-2] /\ ~(i <= 2)
      BY <2>2, <3>1
    <3> QED BY <3>2, <3>3, <3>4, <3>5, Zenon
  <2>6. Front(Prompt \o s) = Prompt \o Front(s)
    BY <2>3, <2>4, <2>5, SeqEqual
  <2> QED BY <2>1, <2>6
<1> QED BY <1>1, <1>2, <1>3

\* The prompt is in front of the cursor when it is printed.
LEMMA PromptShown ==
  ASSUME NEW c \in Consoles
  PROVE  ncPrint(c, Prompt) \in Consoles /\ Ends(ncPrint(c, Prompt), Prompt)
<1>1. PICK a \in Chars, b \in Chars : Prompt = <<a, b>>
  BY PromptIs
<1>2. PICK after :
        /\ after[0] = c /\ ncPrint(c, Prompt) = after[Len(Prompt)]
        /\ \A i \in 1..Len(Prompt) : after[i] = ncPrintChar(after[i-1], Prompt[i])
  <2>1. Prompt \in Seq(Chars \union {Newline})
    BY <1>1
  <2> QED BY <2>1, PrintUnfolds
<1>3. after[1] = ncPrintChar(c, a) /\ after[2] = ncPrintChar(after[1], b) /\ Len(Prompt) = 2
  <2>1. 1 \in 1..Len(Prompt) /\ 2 \in 1..Len(Prompt) /\ Len(Prompt) = 2
        /\ Prompt[1] = a /\ Prompt[2] = b
    BY <1>1
  <2> QED BY <1>2, <2>1
<1>4. after[1] = Put(c, a) /\ after[2] = Put(after[1], b)
  BY <1>3, CharsAssumption DEF ncPrintChar
<1>5. <<>> \in Seq(Chars) /\ <<a>> \in Seq(Chars) /\ Append(<<>>, a) = <<a>>
      /\ Append(<<a>>, b) = <<a, b>> /\ Ends(c, <<>>)
  <2>1. Ends(c, <<>>)
    BY Len(<<>>) = 0 DEF Ends
  <2>2. Append(<<>>, a) = <<a>>
    OBVIOUS
  <2>3. <<>> \in Seq(Chars) /\ <<a>> \in Seq(Chars)
    OBVIOUS
  <2>4. Append(<<a>>, b) = <<a, b>>
    <3> DEFINE s == Append(<<a>>, b)
               t == <<a, b>>
    <3>1. s \in Seq(Chars) /\ Len(s) = 2 /\ s[1] = a /\ s[2] = b
      OBVIOUS
    <3>2. t \in Seq(Chars) /\ Len(t) = 2 /\ t[1] = a /\ t[2] = b
      OBVIOUS
    <3> HIDE DEF s, t
    <3>3. \A i \in 1..2 : s[i] = t[i]
      <4>1. \A i \in 1..2 : i = 1 \/ i = 2
        OBVIOUS
      <4> QED BY <3>1, <3>2, <4>1
    <3>4. s = t
      BY <3>1, <3>2, <3>3, SeqEqual
    <3> QED BY <3>4 DEF s, t
  <2> QED BY <2>1, <2>2, <2>3, <2>4
<1>6. a \in Glyphs \ {CursorMark} /\ b \in Glyphs \ {CursorMark}
  BY Characters
<1>7. after[1] \in Consoles /\ Ends(after[1], <<a>>)
  BY <1>4, <1>5, <1>6, PutBeyond, PutEnds DEF Beyond
<1>8. after[2] \in Consoles /\ Ends(after[2], <<a, b>>)
  BY <1>4, <1>5, <1>6, <1>7, PutBeyond, PutEnds DEF Beyond
<1> QED BY <1>1, <1>2, <1>3, <1>8
-----------------------------------------------------------------------------
(* Every step keeps the invariant                                          *)

\* The end of the line is in the memory of the model.
LEMMA LengthFits ==
  ASSUME LineOK
  PROVE  length \in Memory /\ Len(entered) \in Nat /\ Len(Render(meant)) \in Nat
<1>1. /\ Len(Render(meant)) <= 4 * Len(meant) /\ Len(meant) \in Nat
      /\ Render(meant) \in Seq(Chars) /\ entered \in Seq(Chars)
  BY RenderIs DEF LineOK
<1>2. Len(Render(meant)) \in Nat /\ Len(entered) \in Nat
  BY <1>1
<1>3. MaxWords \in Nat /\ MaxSlips \in Nat
  BY SessionBounds
<1>4. /\ Len(meant) + wordsLeft <= MaxWords /\ wordsLeft \in Nat /\ slips \in 0..MaxSlips
      /\ Len(entered) <= Len(Render(meant)) + slips /\ length = Len(entered)
  BY DEF LineOK
<1>5. Len(entered) <= 4 * MaxWords + MaxSlips
  <2> DEFINE e == Len(entered)
             r == Len(Render(meant))
             m == Len(meant)
  <2>1. e \in Nat /\ r \in Nat /\ m \in Nat /\ r <= 4 * m /\ m <= MaxWords
        /\ e <= r + slips /\ slips <= MaxSlips /\ slips \in Nat
    BY <1>1, <1>2, <1>3, <1>4
  <2> HIDE DEF e, r, m
  <2>2. e <= 4 * MaxWords + MaxSlips
    BY <1>3, <2>1
  <2> QED BY <2>2 DEF e
<1> QED BY <1>2, <1>3, <1>4, <1>5 DEF Memory, MaxLen

\* A key that read stores and echoes.
LEMMA KeyTyped ==
  ASSUME SessionIInv, NEW k \in Chars, TypeKey(k)
  PROVE  /\ stage = "read" /\ stage' = "read"
         /\ console' \in Beyond(console.current + 1)
         /\ memory' \in [Memory -> Chars \union {End, "clear"}]
         /\ entered' \in Seq(Chars) /\ Len(entered') = Len(entered) + 1
         /\ length' = Len(entered')
         /\ \A i \in 1..Len(entered) : entered'[i] = entered[i]
         /\ entered'[Len(entered) + 1] = k
         /\ LineShown' /\ ProcessesOK'
<1>1. /\ stage = "read" /\ stage' = "read" /\ entered' = Append(entered, k)
      /\ memory' = StoredKey(k) /\ length' = length + 1
      /\ console' = ncPrintChar(console, k)
      /\ UNCHANGED <<running, fg, nextPid, mixed>>
  BY DEF TypeKey, Reads
<1>2. /\ console \in Consoles /\ memory \in [Memory -> Chars \union {End, "clear"}]
      /\ entered \in Seq(Chars) /\ length = Len(entered)
      /\ length \in Memory /\ Len(entered) \in Nat
  BY LengthFits DEF SessionIInv, LineOK
<1>3. k # Newline /\ k \in Glyphs \ {CursorMark} /\ console' = Put(console, k)
  BY <1>1, Characters, CharsAssumption DEF ncPrintChar
<1>4. console' \in Beyond(console.current + 1)
  BY <1>2, <1>3, PutBeyond
<1>5. memory' \in [Memory -> Chars \union {End, "clear"}]
  BY <1>1, <1>2 DEF StoredKey
<1>6. /\ entered' \in Seq(Chars) /\ Len(entered') = Len(entered) + 1
      /\ \A i \in 1..Len(entered) : entered'[i] = entered[i]
      /\ entered'[Len(entered) + 1] = k
  BY <1>1, <1>2
<1>7. LineStored'
  <2>1. LineStored
    BY <1>1 DEF SessionIInv, LineShown
  <2>2. LINE \in Nat /\ Memory \subseteq Int
    BY SessionBounds DEF Memory
  <2>3. ASSUME NEW i \in 1..(Len(entered) + 1), i <= LINE PROVE memory'[i-1] = entered'[i]
    <3>1. CASE i = Len(entered) + 1
      <4>1. i - 1 = length /\ length < LINE
        BY <1>2, <2>2, <2>3, <3>1
      <4>2. memory' = [memory EXCEPT ![length] = k]
        BY <1>1, <4>1 DEF StoredKey
      <4> QED BY <1>2, <1>6, <3>1, <4>1, <4>2
    <3>2. CASE i # Len(entered) + 1
      <4>1. i \in 1..Len(entered) /\ i - 1 # length
        BY <1>2, <3>2
      <4>2. memory[i-1] = entered[i] /\ entered'[i] = entered[i]
        BY <1>6, <2>1, <2>3, <4>1 DEF LineStored
      <4>3. memory'[i-1] = memory[i-1]
        BY <1>1, <1>2, <4>1 DEF StoredKey
      <4> QED BY <4>2, <4>3
    <3> QED BY <3>1, <3>2
  <2>4. \A i \in 1..Len(entered') : i <= LINE => memory'[i-1] = entered'[i]
    BY <1>6, <2>3
  <2> QED BY <2>4 DEF LineStored
<1>8. ASSUME ~mixed' PROVE Ends(console', Prompt \o entered')
  <2>1. Ends(console, Prompt \o entered)
    BY <1>1, <1>8 DEF SessionIInv, LineShown
  <2>2. Prompt \o entered \in Seq(Chars) /\ Append(Prompt \o entered, k) = Prompt \o entered'
    BY <1>1, <1>2, PromptedLine
  <2>3. Ends(Put(console, k), Append(Prompt \o entered, k))
    BY <1>2, <1>3, <2>1, <2>2, PutEnds
  <2> QED BY <1>3, <2>2, <2>3
<1>9. ProcessesOK'
  BY <1>1 DEF SessionIInv, ProcessesOK
<1> QED BY <1>1, <1>2, <1>4, <1>5, <1>6, <1>7, <1>8, <1>9 DEF LineShown

\* A character of the line the user means.
LEMMA NextTyped ==
  ASSUME SessionIInv, TypeNext
  PROVE  SessionIInv'
<1> DEFINE r == Render(meant')
<1>1. /\ meant' \in Seq(Words) /\ wordsLeft' \in Nat
      /\ Len(meant') + wordsLeft' <= MaxWords
  <2>1. /\ meant \in Seq(Words) /\ wordsLeft \in Nat
        /\ Len(meant) + wordsLeft <= MaxWords /\ Len(meant) \in Nat
    BY DEF SessionIInv, LineOK
  <2>2. CASE UNCHANGED <<meant, wordsLeft>>
    BY <2>1, <2>2
  <2>3. CASE wordsLeft > 0 /\ wordsLeft' = wordsLeft - 1 /\ \E w \in Words : meant' = Append(meant, w)
    <3>1. PICK w \in Words : meant' = Append(meant, w)
      BY <2>3
    <3>2. meant' \in Seq(Words) /\ Len(meant') = Len(meant) + 1
      BY <2>1, <3>1, AppendProperties
    <3> QED BY <2>1, <2>3, <3>2, SessionBounds
  <2> QED BY <2>2, <2>3 DEF TypeNext
<1>2. r \in Seq(Chars) /\ Len(r) \in Nat
  BY <1>1, RenderIs
<1>3. IsPrefix(entered, r) /\ entered # r /\ TypeKey(r[Len(entered) + 1]) /\ slips' = slips
  BY DEF TypeNext, IsStrictPrefix
<1> HIDE DEF r
<1>4. entered \in Seq(Chars) /\ Len(entered) \in Nat /\ slips \in 0..MaxSlips
  BY DEF SessionIInv, LineOK
<1>5. /\ Len(entered) <= Len(r) /\ \A i \in 1..Len(entered) : entered[i] = r[i]
  BY <1>2, <1>3, <1>4, PrefixWithin DEF Within
<1>6. Len(entered) + 1 \in 1..Len(r)
  <2>1. Len(entered) # Len(r)
    BY <1>2, <1>3, <1>4, <1>5, SeqEqual
  <2> QED BY <1>2, <1>4, <1>5, <2>1
<1>7. r[Len(entered) + 1] \in Chars
  BY <1>2, <1>6
<1>8. /\ stage = "read" /\ stage' = "read"
      /\ console' \in Beyond(console.current + 1)
      /\ memory' \in [Memory -> Chars \union {End, "clear"}]
      /\ entered' \in Seq(Chars) /\ Len(entered') = Len(entered) + 1
      /\ length' = Len(entered')
      /\ \A i \in 1..Len(entered) : entered'[i] = entered[i]
      /\ entered'[Len(entered) + 1] = r[Len(entered) + 1]
      /\ LineShown' /\ ProcessesOK'
  BY <1>3, <1>7, KeyTyped
<1>9. Within(entered', 0, r)
  <2>1. \A i \in 1..(Len(entered) + 1) : i \in 1..Len(entered) \/ i = Len(entered) + 1
    BY <1>4
  <2>2. \A i \in 1..(Len(entered) + 1) : entered'[i] = r[i]
    BY <1>5, <1>8, <2>1
  <2> QED BY <1>4, <1>6, <1>8, <2>2 DEF Within
<1>10. /\ console \in Consoles /\ console' \in Consoles
       /\ console.current \in 0..LastRow /\ console'.current \in 0..LastRow
  BY <1>8 DEF SessionIInv, LineOK, Beyond, Consoles
<1>11. InReach'
  <2>1. PICK x \in 0..slips : \/ console.current >= Len(entered)
                              \/ console.current >= RowAbove - (slips - x)
    BY <1>8 DEF SessionIInv, InReach
  <2>2. \/ console'.current >= Len(entered')
        \/ console'.current >= RowAbove - (slips' - 0)
    BY <1>3, <1>4, <1>8, <1>10, <2>1, Rows DEF Beyond
  <2>3. 0 \in 0..slips'
    BY <1>3, <1>4
  <2> QED BY <1>9, <2>2, <2>3 DEF InReach, r
<1>12. LineOK'
  <2>1. Len(entered') <= Len(Render(meant')) + slips'
    BY <1>2, <1>3, <1>4, <1>6, <1>8 DEF r
  <2> QED BY <1>1, <1>3, <1>4, <1>8, <1>10, <2>1 DEF LineOK
<1> QED BY <1>8, <1>11, <1>12 DEF SessionIInv

\* A wrong character.
LEMMA SlipTyped ==
  ASSUME SessionIInv, TypeSlip
  PROVE  SessionIInv'
<1>1. slips < MaxSlips /\ slips' = slips + 1 /\ TypeKey(Slip) /\ UNCHANGED <<meant, wordsLeft>>
  BY DEF TypeSlip
<1>2. Slip \in Chars
  <2>1. Slip \in Signs
    BY Zenon DEF Signs
  <2> QED BY <2>1 DEF Chars
<1>3. /\ stage = "read" /\ stage' = "read"
      /\ console' \in Beyond(console.current + 1)
      /\ memory' \in [Memory -> Chars \union {End, "clear"}]
      /\ entered' \in Seq(Chars) /\ Len(entered') = Len(entered) + 1
      /\ length' = Len(entered')
      /\ \A i \in 1..Len(entered) : entered'[i] = entered[i]
      /\ LineShown' /\ ProcessesOK'
  BY <1>1, <1>2, KeyTyped
<1>4. /\ entered \in Seq(Chars) /\ Len(entered) \in Nat /\ slips \in 0..MaxSlips
      /\ Len(entered) <= Len(Render(meant)) + slips /\ Len(Render(meant)) \in Nat
      /\ meant \in Seq(Words) /\ wordsLeft \in Nat /\ Len(meant) + wordsLeft <= MaxWords
  BY LengthFits DEF SessionIInv, LineOK
<1>5. slips' \in 0..MaxSlips /\ MaxSlips \in Nat
  BY <1>1, <1>4, SessionBounds
<1>6. /\ console' \in Consoles
      /\ console.current \in 0..LastRow /\ console'.current \in 0..LastRow
  BY <1>3 DEF SessionIInv, LineOK, Beyond, Consoles
<1>7. InReach'
  <2>1. PICK x \in 0..slips : /\ Within(entered, x, Render(meant))
                              /\ \/ console.current >= Len(entered)
                                 \/ console.current >= RowAbove - (slips - x)
    BY <1>3 DEF SessionIInv, InReach
  <2>2. Within(entered', x + 1, Render(meant))
    <3>1. Len(entered') - (x + 1) = Len(entered) - x /\ x + 1 <= Len(entered')
      BY <1>3, <1>4, <2>1 DEF Within
    <3>2. \A i \in 1..(Len(entered) - x) : i \in 1..Len(entered)
      BY <1>4
    <3> QED BY <1>3, <2>1, <3>1, <3>2 DEF Within
  <2>3. \/ console'.current >= Len(entered')
        \/ console'.current >= RowAbove - (slips' - (x + 1))
    <3> DEFINE now == console.current
               next == console'.current
               n    == Len(entered)
               few  == RowAbove - (slips - x)
    <3>1. now \in Nat /\ n \in Nat /\ few \in Int /\ (now >= n \/ now >= few)
      BY <1>4, <1>6, <2>1, Rows
    <3>2. Len(entered') = n + 1 /\ RowAbove - (slips' - (x + 1)) = few
      BY <1>1, <1>3, <1>4, <2>1, Rows
    <3>3. next \in Nat /\ (next >= now + 1 \/ (next >= RowAbove /\ RowAbove >= few))
      BY <1>3, <1>4, <1>6, <2>1, Rows DEF Beyond
    <3> HIDE DEF now, next, n, few
    <3>4. next >= n + 1 \/ next >= few
      BY <3>1, <3>3, Rows
    <3> QED BY <3>2, <3>4 DEF next
  <2>4. x + 1 \in 0..slips'
    BY <1>1, <1>4
  <2> QED BY <1>1, <2>2, <2>3, <2>4 DEF InReach
<1>8. LineOK'
  BY <1>1, <1>3, <1>4, <1>5, <1>6 DEF LineOK
<1> QED BY <1>3, <1>7, <1>8 DEF SessionIInv

\* A character is taken back.
LEMMA KeyErased ==
  ASSUME SessionIInv, EraseKey
  PROVE  SessionIInv'
<1>1. /\ stage = "read" /\ entered # <<>> /\ entered' = Front(entered)
      /\ slips' = IF IsPrefix(entered, Render(meant)) THEN slips + 1 ELSE slips
      /\ IsPrefix(entered, Render(meant)) => slips < MaxSlips
      /\ UNCHANGED <<memory, stage, running, fg, nextPid, meant, wordsLeft, mixed>>
  BY DEF EraseKey, Reads
<1>2. /\ console \in Consoles /\ memory \in [Memory -> Chars \union {End, "clear"}]
      /\ entered \in Seq(Chars) /\ Len(entered) \in Nat /\ slips \in 0..MaxSlips
      /\ Len(entered) <= Len(Render(meant)) + slips /\ Len(Render(meant)) \in Nat
      /\ meant \in Seq(Words) /\ wordsLeft \in Nat /\ Len(meant) + wordsLeft <= MaxWords
      /\ length = Len(entered) /\ MaxSlips \in Nat /\ Render(meant) \in Seq(Chars)
  BY LengthFits, RenderIs, SessionBounds DEF SessionIInv, LineOK
<1>3. /\ Len(entered) \in Nat \ {0} /\ entered' \in Seq(Chars) /\ Len(entered') = Len(entered) - 1
      /\ \A i \in 1..(Len(entered) - 1) : entered'[i] = entered[i]
  BY <1>1, <1>2, FrontIs
<1>4. console.current \in 0..LastRow
  BY <1>2 DEF Consoles
<1>5. PICK x \in 0..slips : /\ Within(entered, x, Render(meant))
                            /\ \/ console.current >= Len(entered)
                               \/ console.current >= RowAbove - (slips - x)
  BY <1>1 DEF SessionIInv, InReach
<1>6. IsPrefix(entered, Render(meant)) \/ x > 0
  <2>1. x = 0 => IsPrefix(entered, Render(meant))
    BY <1>2, <1>5, PrefixWithin
  <2> QED BY <1>2, <2>1
<1>7. CanBackspace(console)
  <2>1. MaxSlips <= RowAbove
    BY SlipsAssumption DEF RowAbove
  <2>2. slips - x < MaxSlips
    BY <1>1, <1>2, <1>6
  <2> QED BY <1>2, <1>3, <1>4, <1>5, <2>1, <2>2, Rows DEF CanBackspace
<1>8. console' = ncBackspace(console) /\ length' = length - 1
  BY <1>2, <1>3, <1>7 DEF EraseKey
<1>9. /\ console' \in Consoles /\ console.current \in Nat \ {0}
      /\ console'.current = console.current - 1
      /\ \A T : \A s \in Seq(T) : s # <<>> /\ Ends(console, s) => Ends(console', Front(s))
  BY <1>2, <1>7, <1>8, BackspaceIs
<1>10. InReach'
  <2> DEFINE n    == Len(entered)
             now  == console.current
             next == console'.current
             few  == RowAbove - (slips - x)
  <2>1. next >= n - 1 \/ next >= few - 1
    <3>1. n \in Nat /\ now \in Nat /\ next = now - 1 /\ few \in Int /\ (now >= n \/ now >= few)
      BY <1>2, <1>5, <1>9, Rows
    <3> HIDE DEF n, now, next, few
    <3> QED BY <3>1
  <2> HIDE DEF next
  <2>2. CASE IsPrefix(entered, Render(meant))
    <3>1. Within(entered, 0, Render(meant))
      BY <1>2, <2>2, PrefixWithin
    <3>2. \A i \in 1..(Len(entered) - 1) : i \in 1..Len(entered)
      BY <1>2
    <3>3. Within(entered', 0, Render(meant))
      BY <1>2, <1>3, <3>1, <3>2 DEF Within
    <3>4. slips' = slips + 1 /\ 0 \in 0..slips'
      BY <1>1, <1>2, <2>2
    <3>5. next >= Len(entered') \/ next >= RowAbove - (slips' - 0)
      <4>1. Len(entered') = n - 1
        BY <1>3
      <4>2. few - 1 \in Int /\ RowAbove - (slips' - 0) \in Int /\ few - 1 >= RowAbove - (slips' - 0)
        BY <1>2, <3>4, Rows
      <4>3. next \in Int
        BY <1>9 DEF next
      <4> HIDE DEF n, few
      <4> QED BY <2>1, <4>1, <4>2, <4>3
    <3> QED BY <1>1, <3>3, <3>4, <3>5 DEF InReach, next
  <2>3. CASE ~IsPrefix(entered, Render(meant))
    <3>1. slips' = slips /\ x > 0 /\ x - 1 \in 0..slips'
      BY <1>1, <1>2, <1>6, <2>3
    <3>2. Len(entered') - (x - 1) = Len(entered) - x
      BY <1>3
    <3>3. \A i \in 1..(Len(entered) - x) : i \in 1..(Len(entered) - 1)
      BY <1>2, <3>1
    <3>4. Within(entered', x - 1, Render(meant))
      BY <1>2, <1>3, <1>5, <3>1, <3>2, <3>3 DEF Within
    <3>5. next >= Len(entered') \/ next >= RowAbove - (slips' - (x - 1))
      <4>1. Len(entered') = n - 1
        BY <1>3
      <4>2. RowAbove - (slips' - (x - 1)) = few - 1
        BY <1>2, <3>1, Rows
      <4> QED BY <2>1, <4>1, <4>2
    <3> QED BY <1>1, <3>1, <3>4, <3>5 DEF InReach, next
  <2> QED BY <2>2, <2>3
<1>11. LineShown'
  <2>1. LineStored'
    <3>1. \A i \in 1..Len(entered') : i \in 1..Len(entered) /\ entered'[i] = entered[i]
      BY <1>2, <1>3
    <3>2. LineStored
      BY <1>1 DEF SessionIInv, LineShown
    <3> QED BY <1>1, <3>1, <3>2 DEF LineStored
  <2>2. ASSUME ~mixed' PROVE Ends(console', Prompt \o entered')
    <3>1. Ends(console, Prompt \o entered)
      BY <1>1, <2>2 DEF SessionIInv, LineShown
    <3>2. /\ Prompt \o entered \in Seq(Chars) /\ Prompt \o entered # <<>>
          /\ Front(Prompt \o entered) = Prompt \o entered'
      BY <1>1, <1>2, PromptedLine
    <3> QED BY <1>9, <3>1, <3>2
  <2> QED BY <2>1, <2>2 DEF LineShown
<1>12. LineOK'
  <2>1. slips' \in 0..MaxSlips /\ slips' >= slips
    BY <1>1, <1>2
  <2>2. Len(entered') <= Len(Render(meant)) + slips'
    BY <1>2, <1>3, <2>1
  <2> QED BY <1>1, <1>2, <1>3, <1>8, <1>9, <2>1, <2>2 DEF SessionIInv, LineOK
<1>13. ProcessesOK'
  BY <1>1 DEF SessionIInv, ProcessesOK
<1> QED BY <1>10, <1>11, <1>12, <1>13 DEF SessionIInv

\* A new prompt.
LEMMA PromptPrinted ==
  ASSUME SessionIInv, PrintPrompt
  PROVE  SessionIInv'
<1>1. /\ stage' = "read" /\ console' = ncPrint(console, Prompt)
      /\ length' = 0 /\ entered' = <<>> /\ meant' = <<>>
      /\ UNCHANGED <<memory, running, fg, nextPid, wordsLeft, slips>>
  BY DEF PrintPrompt
<1>2. /\ console \in Consoles /\ memory \in [Memory -> Chars \union {End, "clear"}]
      /\ meant \in Seq(Words) /\ wordsLeft \in Nat /\ slips \in 0..MaxSlips
      /\ Len(meant) + wordsLeft <= MaxWords
  BY DEF SessionIInv, LineOK
<1>3. console' \in Consoles /\ Ends(console', Prompt)
  BY <1>1, <1>2, PromptShown
<1>4. /\ <<>> \in Seq(Words) /\ <<>> \in Seq(Chars) /\ Len(<<>>) = 0
      /\ Len(meant) \in Nat /\ MaxWords \in Nat /\ MaxSlips \in Nat
  BY <1>2, SessionBounds
<1>5. Render(meant') \in Seq(Chars) /\ Len(Render(meant')) \in Nat
  <2>1. Render(<<>>) \in Seq(Chars)
    BY <1>4, RenderIs
  <2> QED BY <1>1, <2>1
<1>6. LineOK'
  <2>1. Len(entered') = 0 /\ Len(meant') = 0 /\ slips' \in Nat
    BY <1>1, <1>2, <1>4
  <2>2. Len(entered') <= Len(Render(meant')) + slips' /\ Len(meant') + wordsLeft' <= MaxWords
    BY <1>1, <1>2, <1>4, <1>5, <2>1
  <2>3. entered' \in Seq(Chars) /\ meant' \in Seq(Words) /\ length' = Len(entered')
    BY <1>1, <1>4
  <2> QED BY <1>1, <1>2, <1>3, <2>2, <2>3 DEF LineOK
<1>7. InReach'
  <2>1. Within(entered', 0, Render(meant'))
    BY <1>1, <1>4, <1>5 DEF Within
  <2>2. console'.current >= Len(entered')
    <3>1. console'.current \in 0..LastRow
      BY <1>3 DEF Consoles
    <3> QED BY <1>1, <1>4, <3>1, Rows
  <2>3. 0 \in 0..slips'
    BY <1>1, <1>2
  <2> QED BY <2>1, <2>2, <2>3 DEF InReach
<1>8. LineShown'
  <2>1. LineStored'
    BY <1>1, <1>4 DEF LineStored
  <2>2. Prompt \o entered' = Prompt
    BY <1>1, PromptIs, ConcatEmptySeq
  <2> QED BY <1>3, <2>1, <2>2 DEF LineShown
<1>9. ProcessesOK'
  BY <1>1 DEF SessionIInv, ProcessesOK
<1> QED BY <1>6, <1>7, <1>8, <1>9 DEF SessionIInv

\* The end of a line, or of the input.
LEMMA LineEnded ==
  ASSUME SessionIInv, Enter \/ EndOfFile
  PROVE  SessionIInv'
<1>1. /\ fg = 0 /\ stage' = "execute" /\ UNCHANGED <<length, running, fg, nextPid, meant, slips, entered>>
      /\ console' \in {console, ncNewline(console)}
      /\ memory' \in {memory, [memory EXCEPT ![length] = End]}
  BY DEF Enter, EndOfFile, Reads, typist
<1>2. wordsLeft' = wordsLeft \/ (wordsLeft > 1 /\ wordsLeft' = wordsLeft - 2)
  BY DEF Enter, EndOfFile, typist
<1>3. /\ console \in Consoles /\ memory \in [Memory -> Chars \union {End, "clear"}]
      /\ meant \in Seq(Words) /\ wordsLeft \in Nat /\ Len(meant) + wordsLeft <= MaxWords
  BY DEF SessionIInv, LineOK
<1>4. console' \in Consoles
  BY <1>1, <1>3, NewlineBeyond DEF Beyond
<1>5. memory' \in [Memory -> Chars \union {End, "clear"}]
  BY <1>1, <1>3
<1>6. wordsLeft' \in Nat /\ Len(meant) + wordsLeft' <= MaxWords
  <2>1. Len(meant) \in Nat /\ MaxWords \in Nat
    BY <1>3, SessionBounds
  <2> QED BY <1>2, <1>3, <2>1
<1>7. LineOK'
  BY <1>1, <1>4, <1>5, <1>6 DEF SessionIInv, LineOK
<1>8. ProcessesOK'
  BY <1>1 DEF SessionIInv, ProcessesOK
<1>9. InReach' /\ LineShown'
  BY <1>1 DEF InReach, LineShown
<1> QED BY <1>7, <1>8, <1>9 DEF SessionIInv

\* The shell executes the command.
LEMMA CommandExecuted ==
  ASSUME SessionIInv, Execute
  PROVE  SessionIInv'
<1>1. /\ stage = "execute" /\ stage' = "prompt" /\ console' = Printed
      /\ \E stack \in {<<>>, <<"2">>} : outcome' = executeCommand(memory, stack)
      /\ UNCHANGED <<memory, length, meant, wordsLeft, slips, entered>>
  BY DEF Execute, typist
<1>2. PICK ps, f, ns : /\ outcome' = Outcome(ps, f, ns)
                       /\ Len(ps) \in 0..2 /\ (f = "none" \/ ps = <<>>)
  BY <1>1, CommandShape
<1>3. outcome'.processes = ps /\ outcome'.builtin = f
  BY <1>2 DEF Outcome
<1>4. console' \in Consoles
  <2>1. console \in Consoles
    BY DEF SessionIInv, LineOK
  <2>2. ncClear(console) \in Consoles
    BY <2>1, ClearIs
  <2>3. ncPrint(console, <<"?", Newline>>) \in Consoles
    <3>1. "?" \in Signs /\ Signs \subseteq Chars
      <4>1. "?" \in Signs
        BY Zenon DEF Signs
      <4> QED BY <4>1 DEF Chars
    <3>2. \A x \in Chars : <<x, Newline>> \in Seq(Chars \union {Newline})
      OBVIOUS
    <3>3. <<"?", Newline>> \in Seq(Chars \union {Newline})
      BY <3>1, <3>2, Zenon
    <3> QED BY <2>1, <3>3, PrintBeyond DEF Beyond
  <2> QED BY <1>1, <2>1, <2>2, <2>3 DEF Printed
<1>5. LineOK'
  BY <1>1, <1>4 DEF SessionIInv, LineOK
<1>6. ProcessesOK'
  <2> DEFINE n == Len(ps)
             born == nextPid..(nextPid + n - 1)
  <2>1. /\ nextPid' = nextPid + n
        /\ running' = (running \union born) \ Killed(outcome')
        /\ fg' = IF n > 0 /\ ps[1].foreground THEN nextPid ELSE fg
    BY <1>3 DEF Execute
  <2>2. /\ running \subseteq 2..(nextPid - 1) /\ nextPid \in Nat \ {0, 1} /\ fg = 0
    BY <1>1 DEF SessionIInv, ProcessesOK
  <2>3. n \in 0..2
    BY <1>2
  <2>4. n > 0 => Killed(outcome') = {}
    <3>1. ps = <<>> => n = 0
      OBVIOUS
    <3>2. n > 0 => f = "none"
      BY <1>2, <2>3, <3>1
    <3> QED BY <1>3, <3>2 DEF Killed
  <2> HIDE DEF n
  <2>5. running' \subseteq 2..(nextPid' - 1) /\ nextPid' \in Nat \ {0, 1}
    <3>1. nextPid' \in Nat \ {0, 1}
      BY <2>1, <2>2, <2>3
    <3>2. ASSUME NEW p \in running' PROVE p \in 2..(nextPid' - 1)
      <4>1. p \in running \/ p \in born
        BY <2>1
      <4> QED BY <2>1, <2>2, <2>3, <4>1
    <3> QED BY <3>1, <3>2
  <2>6. fg' \in running' \union {0}
    <3>1. CASE n > 0
      <4>1. nextPid \in born
        BY <2>2, <2>3, <3>1
      <4>2. nextPid \in running'
        BY <2>1, <2>4, <3>1, <4>1
      <4> QED BY <2>1, <2>2, <4>2
    <3>2. CASE ~(n > 0)
      BY <2>1, <2>2, <3>2
    <3> QED BY <3>1, <3>2
  <2> QED BY <1>1, <2>5, <2>6 DEF ProcessesOK
<1>7. InReach' /\ LineShown'
  BY <1>1 DEF InReach, LineShown
<1> QED BY <1>5, <1>6, <1>7 DEF SessionIInv

\* Another process prints.
LEMMA OtherPrints ==
  ASSUME SessionIInv, NEW p \in running, Write(p)
  PROVE  SessionIInv'
<1>1. /\ mixed' = TRUE
      /\ \E end \in {<<>>, <<Newline>>} : console' = ncPrint(console, uintToBase(p, 10) \o end)
      /\ UNCHANGED <<memory, length, stage, running, fg, nextPid, meant, wordsLeft, slips, entered>>
  BY DEF Write, typist
<1>2. /\ console \in Consoles /\ entered \in Seq(Chars) /\ Len(entered) \in Nat
      /\ slips \in 0..MaxSlips /\ p \in Nat
  BY DEF SessionIInv, LineOK, ProcessesOK
<1>3. console' \in Beyond(console.current)
  <2>1. uintToBase(p, 10) \in Seq(Chars \union {Newline})
    <3>1. uintToBase(p, 10) \in Seq(Range(Numeral))
      BY <1>2, DigitsAre
    <3>2. Range(Numeral) \subseteq Chars \union {Newline}
      BY DEF Chars
    <3> QED BY <3>1, <3>2, SeqMonotonic
  <2>2. <<>> \in Seq(Chars \union {Newline}) /\ <<Newline>> \in Seq(Chars \union {Newline})
    OBVIOUS
  <2>3. PICK end \in {<<>>, <<Newline>>} : console' = ncPrint(console, uintToBase(p, 10) \o end)
    BY <1>1
  <2>4. uintToBase(p, 10) \o end \in Seq(Chars \union {Newline})
    BY <2>1, <2>2, ConcatProperties
  <2> QED BY <1>2, <2>3, <2>4, PrintBeyond
<1>4. /\ console' \in Consoles
      /\ console.current \in 0..LastRow /\ console'.current \in 0..LastRow
  BY <1>2, <1>3 DEF Beyond, Consoles
<1>5. InReach'
  <2> SUFFICES ASSUME stage = "read" PROVE InReach'
    BY <1>1 DEF InReach
  <2>1. PICK x \in 0..slips : /\ Within(entered, x, Render(meant))
                              /\ \/ console.current >= Len(entered)
                                 \/ console.current >= RowAbove - (slips - x)
    BY DEF SessionIInv, InReach
  <2>2. \/ console'.current >= Len(entered)
        \/ console'.current >= RowAbove - (slips - x)
    BY <1>2, <1>3, <1>4, <2>1, Rows DEF Beyond
  <2> QED BY <1>1, <2>1, <2>2 DEF InReach
<1>6. LineOK' /\ ProcessesOK' /\ LineShown'
  BY <1>1, <1>4 DEF SessionIInv, LineOK, ProcessesOK, LineShown, LineStored
<1> QED BY <1>5, <1>6 DEF SessionIInv

\* A process ends, and the cursor blinks.
LEMMA EndsAndBlinks ==
  ASSUME SessionIInv, Blink \/ \E p \in running : ExitProcess(p)
  PROVE  SessionIInv'
<1>1. CASE Blink
  <2>1. /\ stage = "read" /\ console' = displayCursor(console)
        /\ UNCHANGED <<memory, length, stage, running, fg, nextPid, meant, wordsLeft, slips,
                       entered, mixed>>
    BY <1>1 DEF Blink, typist
  <2>2. /\ console' \in Consoles /\ console'.current = console.current
        /\ \A s : Ends(console, s) => Ends(console', s)
    BY <2>1, DisplayIs DEF SessionIInv, LineOK
  <2>3. LineOK' /\ ProcessesOK'
    BY <2>1, <2>2 DEF SessionIInv, LineOK, ProcessesOK
  <2>4. InReach'
    BY <2>1, <2>2 DEF SessionIInv, InReach
  <2>5. LineShown'
    BY <2>1, <2>2 DEF SessionIInv, LineShown, LineStored
  <2> QED BY <2>3, <2>4, <2>5 DEF SessionIInv
<1>2. ASSUME NEW p \in running, ExitProcess(p) PROVE SessionIInv'
  <2>1. /\ running' = running \ {p} /\ fg' = IF fg = p THEN 0 ELSE fg
        /\ UNCHANGED <<console, memory, length, stage, nextPid, meant, wordsLeft, slips,
                       entered, mixed>>
    BY <1>2 DEF ExitProcess, typist
  <2>2. ProcessesOK'
    BY <2>1 DEF SessionIInv, ProcessesOK
  <2>3. LineOK' /\ InReach' /\ LineShown'
    BY <2>1 DEF SessionIInv, LineOK, InReach, LineShown, LineStored
  <2> QED BY <2>2, <2>3 DEF SessionIInv
<1> QED BY <1>1, <1>2

\* The inductive invariant of a session: the line is in reach of its user, shown where
\* it was printed and stored as it was typed.
THEOREM SessionInvariance == SessionSpec => []SessionIInv
<1>1. SessionInit => SessionIInv
  <2> SUFFICES ASSUME SessionInit PROVE SessionIInv
    OBVIOUS
  <2>1. /\ console = Cleared /\ memory \in Stale /\ length = 0 /\ stage = "prompt"
        /\ running = {} /\ fg = 0 /\ nextPid = 2
        /\ meant = <<>> /\ entered = <<>> /\ wordsLeft = MaxWords /\ slips = 0
    BY DEF SessionInit
  <2>2. /\ MaxWords \in Nat /\ MaxSlips \in Nat /\ Len(<<>>) = 0
        /\ <<>> \in Seq(Words) /\ <<>> \in Seq(Chars)
    BY SessionBounds
  <2>3. Cleared \in Consoles
    <3> DEFINE blank == [i \in Cells |-> Blank]
    <3>1. blank \in [Cells -> Glyphs] /\ \A i \in Cells : blank[i] # CursorMark
      BY Characters
    <3>2. Cleared = [video |-> blank, current |-> 0, cursor |-> FALSE]
      BY DEF Cleared
    <3> HIDE DEF blank
    <3>3. 0 \in 0..LastRow
      BY Rows
    <3> QED BY <3>1, <3>2, <3>3 DEF Consoles
  <2>4. memory \in [Memory -> Chars \union {End, "clear"}]
    BY <2>1 DEF Stale
  <2>5. Render(<<>>) \in Seq(Chars) /\ Len(Render(<<>>)) \in Nat
    <3>1. Render(<<>>) \in Seq(Chars)
      BY <2>2, RenderIs
    <3> QED BY <3>1
  <2>6. LineOK
    BY <2>1, <2>2, <2>3, <2>4, <2>5 DEF LineOK
  <2>7. ProcessesOK /\ InReach /\ LineShown
    BY <2>1 DEF ProcessesOK, InReach, LineShown
  <2> QED BY <2>6, <2>7 DEF SessionIInv
<1>2. SessionIInv /\ [SessionNext]_sessionVars => SessionIInv'
  <2> SUFFICES ASSUME SessionIInv, [SessionNext]_sessionVars PROVE SessionIInv'
    OBVIOUS
  <2>1. CASE UNCHANGED sessionVars
    BY <2>1 DEF sessionVars, typist, SessionIInv, LineOK, ProcessesOK, InReach, LineShown,
                LineStored
  <2>2. CASE SessionNext
    BY <2>2, PromptPrinted, NextTyped, SlipTyped, KeyErased, LineEnded, CommandExecuted,
       OtherPrints, EndsAndBlinks DEF SessionNext
  <2> QED BY <2>1, <2>2
<1> QED BY <1>1, <1>2, PTL DEF SessionSpec

\* SessionInv: nothing is written outside the screen (naiveConsole.c:28-73, 134-142), the
\* cursor leaves no copy of itself behind (14-26), and the shell's lines and processes keep
\* their types; for a screen of any size of two rows or more.
THEOREM ScreenCorrect == SessionSpec => []SessionInv
<1>1. SessionIInv => SessionInv
  <2> SUFFICES ASSUME SessionIInv PROVE SessionInv
    OBVIOUS
  <2>1. /\ console.video \in [Cells -> Glyphs] /\ console.cursor \in BOOLEAN
        /\ console.current \in 0..LastRow
        /\ \A i \in Cells : console.video[i] = CursorMark => i = console.current
    BY DEF SessionIInv, LineOK, Consoles
  <2>2. DOMAIN memory = Memory /\ length \in Memory /\ stage \in {"prompt", "read", "execute"}
    BY LengthFits DEF SessionIInv, LineOK
  <2>3. running \subseteq 2..(nextPid - 1) /\ fg \in running \union {0}
    BY DEF SessionIInv, ProcessesOK
  <2> QED BY <2>1, <2>2, <2>3 DEF SessionInv, SessionTypeOK, StaysOnScreen, OneCursor, LastRow
<1> QED BY <1>1, SessionInvariance, PTL

\* LineOnScreen: what stands in front of the cursor is the prompt and the line, and the
\* line is what read has stored (syscalls.c:40-102), over the ends of rows, scrolling and
\* corrections; for every size of the screen and of read's buffer.
THEOREM ScreenShowsLine == SessionSpec => []LineOnScreen
<1>1. SessionIInv => LineOnScreen
  <2> SUFFICES ASSUME SessionIInv, stage = "read", ~mixed
               PROVE  LET shown == Prompt \o entered
                          n     == Min({Len(shown), console.current})
                      IN  /\ \A i \in 0..(n - 1) :
                               console.video[console.current - n + i]
                                 = shown[Len(shown) - n + i + 1]
                          /\ \A i \in DOMAIN entered : i <= LINE => memory[i - 1] = entered[i]
                          /\ length = Len(entered)
    BY DEF LineOnScreen
  <2> DEFINE shown == Prompt \o entered
             n     == Min({Len(shown), console.current})
  <2>1. entered \in Seq(Chars) /\ length = Len(entered) /\ console.current \in 0..LastRow
    BY DEF SessionIInv, LineOK, Consoles
  <2>2. Ends(console, shown) /\ LineStored
    BY DEF SessionIInv, LineShown
  <2>3. Len(shown) \in Nat /\ console.current \in Nat
    BY <2>1, PromptedLine, Rows
  <2> HIDE DEF shown
  <2>4. n \in Nat /\ n <= Len(shown) /\ n <= console.current
    BY <2>3, MinOfTwo
  <2> HIDE DEF n
  <2>5. ASSUME NEW i \in 0..(n - 1)
        PROVE  console.video[console.current - n + i] = shown[Len(shown) - n + i + 1]
    <3>1. /\ n - i \in 1..Len(shown) /\ n - i <= console.current
          /\ console.current - n + i = console.current - (n - i)
          /\ Len(shown) - n + i + 1 = Len(shown) - (n - i) + 1
      BY <2>3, <2>4
    <3> QED BY <2>2, <3>1 DEF Ends
  <2>6. ASSUME NEW i \in DOMAIN entered, i <= LINE PROVE memory[i - 1] = entered[i]
    BY <2>1, <2>2, <2>6 DEF LineStored
  <2> QED BY <2>1, <2>5, <2>6 DEF shown, n
<1> QED BY <1>1, SessionInvariance, PTL
-----------------------------------------------------------------------------
(* The directory of a disk                                                 *)

\* The directories of the disk.
Entry == [FileName : Files \union {EndOfDirectory, Deleted}, StartingBlock : Nat,
          ReservedBlocks : Nat, FileSize : Nat]
Directories == [Slots -> Entry]

\* The first entry with one of the names s is behind others; ENTRIES when there is none.
LEMMA FirstIs ==
  ASSUME NEW D, NEW s
  PROVE  /\ FirstWith(D, s) \in 0..ENTRIES
         /\ \A i \in Slots : i < FirstWith(D, s) => D[i].FileName \notin s
         /\ FirstWith(D, s) < ENTRIES =>
              FirstWith(D, s) \in Slots /\ D[FirstWith(D, s)].FileName \in s
<1> DEFINE S == {i \in Slots : D[i].FileName \in s} \union {ENTRIES}
<1>1. ENTRIES \in Nat \ {0}
  BY BmfsAssumption
<1>2. S \in SUBSET Nat /\ S # {} /\ S \subseteq 0..ENTRIES /\ ENTRIES \in S
  BY <1>1 DEF Slots
<1>3. FirstWith(D, s) = Min(S)
  BY DEF FirstWith
<1>4. Min(S) \in S /\ \A y \in S : Min(S) <= y
  <2> HIDE DEF S
  <2> QED BY <1>2, MinIs
<1>5. \A i \in Slots : i < Min(S) => D[i].FileName \notin s
  <2> SUFFICES ASSUME NEW i \in Slots, i < Min(S), D[i].FileName \in s PROVE FALSE
    OBVIOUS
  <2>1. i \in S
    OBVIOUS
  <2>2. Min(S) <= i /\ Min(S) \in Nat /\ i \in Nat
    BY <1>1, <1>2, <1>4, <2>1 DEF Slots
  <2> HIDE DEF S
  <2> QED BY <2>2
<1>6. Min(S) < ENTRIES => Min(S) \in {i \in Slots : D[i].FileName \in s}
  BY <1>1, <1>4
<1> HIDE DEF S
<1> QED BY <1>2, <1>3, <1>4, <1>5, <1>6

\* It is the only one of which that is true.
LEMMA FirstFound ==
  ASSUME NEW D, NEW s, NEW n \in 0..ENTRIES, \A i \in 0..(n-1) : D[i].FileName \notin s,
         n < ENTRIES => D[n].FileName \in s
  PROVE  FirstWith(D, s) = n
<1> DEFINE f == FirstWith(D, s)
<1>1. ENTRIES \in Nat \ {0} /\ n \in Nat
  BY BmfsAssumption
<1>2. f \in 0..ENTRIES /\ (f < ENTRIES => D[f].FileName \in s)
      /\ \A i \in Slots : i < f => D[i].FileName \notin s
  BY FirstIs
<1> HIDE DEF f
<1>3. ~(f < n)
  BY <1>1, <1>2
<1>4. ~(n < f)
  <2>1. n < f => n \in Slots /\ n < ENTRIES
    BY <1>1, <1>2 DEF Slots
  <2> QED BY <1>2, <2>1
<1> QED BY <1>1, <1>2, <1>3, <1>4 DEF f

\* The entries in front of the end, deleted ones included.
Used(D) == 0..(FirstWith(D, {EndOfDirectory}) - 1)

\* What list prints are the used entries with a name.
LEMMA ListIs ==
  ASSUME NEW D \in Directories
  PROVE  /\ Used(D) \subseteq Slots /\ list(D) \subseteq Used(D)
         /\ list(D) = {i \in Used(D) : D[i].FileName # Deleted}
         /\ \A i \in list(D) : D[i].FileName \in Files
         /\ IsFiniteSet(list(D)) /\ list(D) \subseteq Nat
<1>1. ENTRIES \in Nat \ {0} /\ FirstWith(D, {EndOfDirectory}) \in 0..ENTRIES
  BY BmfsAssumption, FirstIs
<1>2. Used(D) \subseteq Slots /\ Used(D) \subseteq Nat
  BY <1>1 DEF Used, Slots
<1>3. list(D) = {i \in Used(D) : D[i].FileName # Deleted}
  BY DEF list, Used
<1>4. ASSUME NEW i \in list(D) PROVE D[i].FileName \in Files
  <2>1. i \in Slots /\ i < FirstWith(D, {EndOfDirectory}) /\ D[i].FileName # Deleted
    <3>1. i \in Used(D) /\ D[i].FileName # Deleted
      BY <1>3
    <3>2. \A n \in 0..ENTRIES : \A k \in 0..(n-1) : k < n
      BY <1>1
    <3> QED BY <1>1, <1>2, <3>1, <3>2 DEF Used
  <2>2. D[i].FileName \notin {EndOfDirectory}
    BY <2>1, FirstIs
  <2>3. D[i] \in Entry
    BY <2>1 DEF Directories
  <2> QED BY <2>1, <2>2, <2>3 DEF Entry
<1>5. IsFiniteSet(Used(D))
  <2>1. 0 \in Int /\ FirstWith(D, {EndOfDirectory}) - 1 \in Int
    BY <1>1
  <2> QED BY <2>1, FS_Interval DEF Used
<1>6. list(D) \subseteq Used(D)
  BY <1>3
<1> QED BY <1>2, <1>3, <1>4, <1>5, <1>6, FS_Subset

\* Used entries are behind the system and hold no more than was reserved for them, and
\* a name occurs once.
DirectoryOK(D) ==
  /\ D \in Directories
  /\ \A i \in Used(D) : D[i].StartingBlock >= 1 /\ D[i].FileSize <= D[i].ReservedBlocks
  /\ \A i, j \in list(D) : D[i].FileName = D[j].FileName => i = j

Separate(e, f) == FileEnd(e) <= f.StartingBlock \/ FileEnd(f) <= e.StartingBlock

\* The files have room in front of the last block, and lie apart.
Placed(D, last) ==
  /\ \A i \in list(D) : D[i].ReservedBlocks >= 1 /\ FileEnd(D[i]) <= last
  /\ \A i, j \in list(D) : i # j => Separate(D[i], D[j])

\* The names that mark an entry are none of a file.
LEMMA Marks ==
  \A name \in Files : name # EndOfDirectory /\ name # Deleted
BY FilesAssumption

\* An empty directory.
LEMMA EmptyIs ==
  /\ EmptyDirectory \in Directories /\ Used(EmptyDirectory) = {} /\ list(EmptyDirectory) = {}
  /\ DirectoryOK(EmptyDirectory) /\ \A last : Placed(EmptyDirectory, last)
<1>1. ENTRIES \in Nat \ {0} /\ 0 \in Slots
  BY BmfsAssumption DEF Slots
<1>2. EmptyDirectory \in Directories
  BY DEF EmptyDirectory, BMFSEntry, Directories, Entry
<1>3. FirstWith(EmptyDirectory, {EndOfDirectory}) = 0
  <2>1. EmptyDirectory[0].FileName \in {EndOfDirectory}
    BY <1>1 DEF EmptyDirectory, BMFSEntry
  <2>2. 0 \in 0..ENTRIES /\ 0..(0-1) = {}
    BY <1>1
  <2> QED BY <2>1, <2>2, FirstFound
<1>4. Used(EmptyDirectory) = {}
  BY <1>3 DEF Used
<1>5. list(EmptyDirectory) = {}
  BY <1>2, <1>4, ListIs
<1> QED BY <1>2, <1>4, <1>5 DEF DirectoryOK, Placed

\* Where create enters a file: the entry is not used by another one, and behind it may
\* come a new end.
LEMMA EnteredFirst ==
  ASSUME NEW D \in Directories, NEW entry \in Entry, entry.FileName \in Files,
         NEW slot, slot = first_free_entry(D), slot # ENTRIES, NEW E, E = Entered(D, slot, entry)
  PROVE  /\ slot \in Slots /\ slot \notin list(D)
         /\ E \in Directories /\ E[slot] = entry /\ slot \in Used(E)
         /\ \A i \in Used(E) \ {slot} : i \in Used(D) /\ E[i] = D[i]
         /\ FirstWith(D, {EndOfDirectory}) < ENTRIES => Used(E) = Used(D) \union {slot}
<1> DEFINE e == FirstWith(D, {EndOfDirectory})
<1>1. ENTRIES \in Nat \ {0} /\ Slots = 0..(ENTRIES-1)
  BY BmfsAssumption DEF Slots
<1>2. /\ e \in 0..ENTRIES /\ \A i \in Slots : i < e => D[i].FileName # EndOfDirectory
      /\ e < ENTRIES => D[e].FileName = EndOfDirectory
  BY FirstIs
<1>3. /\ slot \in 0..ENTRIES
      /\ \A i \in Slots : i < slot => D[i].FileName \notin {EndOfDirectory, Deleted}
      /\ slot < ENTRIES => slot \in Slots /\ D[slot].FileName \in {EndOfDirectory, Deleted}
  BY FirstIs DEF first_free_entry
<1>4. num_used_entries(D) = IF e = ENTRIES THEN 0 ELSE e
  BY DEF num_used_entries
<1>5. Used(D) = 0..(e-1)
  BY DEF Used
<1> HIDE DEF e
<1>6. slot < ENTRIES /\ slot \in Slots /\ slot \in Nat /\ slot <= e
  BY <1>1, <1>2, <1>3
<1>7. slot \notin list(D)
  <2>1. slot \in list(D) => D[slot].FileName \in Files
    BY ListIs
  <2> QED BY <1>3, <1>6, <2>1, Marks
<1>8. /\ E[slot] = entry
      /\ \A i \in Slots : i # slot /\ ~(i = slot + 1 /\ slot = num_used_entries(D)) => E[i] = D[i]
      /\ slot + 1 \in Slots /\ slot = num_used_entries(D) =>
           E[slot+1] = [D[slot+1] EXCEPT !.FileName = EndOfDirectory]
  <2>1. slot + 1 # slot
    BY <1>6
  <2> QED BY <1>6, <2>1 DEF Entered
<1>9. \A i \in Slots : D[i] \in Entry /\ [D[i] EXCEPT !.FileName = EndOfDirectory] \in Entry
                       /\ [D[i] EXCEPT !.FileName = EndOfDirectory].FileName = EndOfDirectory
  BY DEF Directories, Entry
<1>10. E[slot] = entry /\ \A i \in Slots : E[i] \in Entry
  <2>1. ASSUME NEW i \in Slots PROVE E[i] \in Entry
    <3>1. CASE i = slot
      BY <1>8, <3>1
    <3>2. CASE i = slot + 1 /\ slot = num_used_entries(D)
      BY <1>8, <1>9, <3>2
    <3>3. CASE i # slot /\ ~(i = slot + 1 /\ slot = num_used_entries(D))
      BY <1>8, <1>9, <3>3
    <3> QED BY <3>1, <3>2, <3>3
  <2> QED BY <1>8, <2>1
<1>11. E \in Directories
  <2>1. E = [i \in Slots |-> E[i]]
    BY DEF Entered
  <2> QED BY <1>10, <2>1 DEF Directories
<1>12. entry.FileName # EndOfDirectory
  BY Marks
<1>13. PICK f \in 0..ENTRIES :
         /\ f = FirstWith(E, {EndOfDirectory}) /\ slot < f
         /\ \A i \in 0..(f-1) : i # slot => i < e /\ E[i] = D[i]
         /\ e < ENTRIES => f = IF slot = e THEN slot + 1 ELSE e
  <2>1. CASE slot = num_used_entries(D)
    <3>1. ASSUME NEW i \in 0..slot PROVE i \in Slots /\ (i # slot => i < e /\ E[i] = D[i])
      <4>1. i \in Slots /\ i # slot + 1 /\ (i # slot => i < e)
        BY <1>1, <1>2, <1>6
      <4> QED BY <1>8, <4>1
    <3>2. \A i \in 0..slot : E[i].FileName # EndOfDirectory
      BY <1>2, <1>10, <1>12, <3>1
    <3>3. slot + 1 < ENTRIES => E[slot+1].FileName = EndOfDirectory
      <4> SUFFICES ASSUME slot + 1 < ENTRIES PROVE E[slot+1].FileName = EndOfDirectory
        OBVIOUS
      <4>1. slot + 1 \in Slots /\ slot + 1 # slot
        BY <1>1, <1>6
      <4> QED BY <1>8, <1>9, <2>1, <4>1
    <3>4. slot + 1 \in 0..ENTRIES /\ slot + 1 - 1 = slot
      BY <1>1, <1>6
    <3>5. FirstWith(E, {EndOfDirectory}) = slot + 1
      <4> DEFINE n == slot + 1
      <4>1. n \in 0..ENTRIES /\ n - 1 = slot
        BY <1>6, <3>4
      <4>2. n < ENTRIES => E[n].FileName \in {EndOfDirectory}
        BY <3>3
      <4> HIDE DEF n
      <4>3. \A i \in 0..(n-1) : E[i].FileName \notin {EndOfDirectory}
        BY <3>2, <4>1
      <4>4. FirstWith(E, {EndOfDirectory}) = n
        BY <4>1, <4>2, <4>3, FirstFound
      <4> QED BY <4>4 DEF n
    <3>6. e < ENTRIES => slot = e
      BY <1>2, <1>4, <2>1
    <3> QED BY <1>6, <3>1, <3>4, <3>5, <3>6
  <2>2. CASE slot # num_used_entries(D)
    <3>1. e # ENTRIES => slot # e
      BY <1>4, <2>2
    <3>2. slot < e
      BY <1>1, <1>2, <1>6, <3>1
    <3>3. \A i \in Slots : i # slot => E[i] = D[i]
      BY <1>8, <2>2
    <3>4. \A i \in 0..(e-1) : i \in Slots /\ i < e
      BY <1>1, <1>2
    <3>5. \A i \in 0..(e-1) : E[i].FileName # EndOfDirectory
      BY <1>2, <1>10, <1>12, <3>3, <3>4
    <3>6. e < ENTRIES => E[e].FileName = EndOfDirectory
      BY <1>1, <1>2, <3>1, <3>3
    <3>7. FirstWith(E, {EndOfDirectory}) = e
      BY <1>2, <3>5, <3>6, FirstFound
    <3> QED BY <1>2, <3>1, <3>2, <3>3, <3>4, <3>7
  <2> QED BY <2>1, <2>2
<1>14. Used(E) = 0..(f-1)
  BY <1>13 DEF Used
<1>15. slot \in Used(E) /\ \A i \in Used(E) \ {slot} : i \in Used(D) /\ E[i] = D[i]
  <2>1. slot \in 0..(f-1)
    BY <1>6, <1>13
  <2>2. \A i \in 0..(f-1) : i < e => i \in 0..(e-1)
    BY <1>2
  <2> QED BY <1>5, <1>13, <1>14, <2>1, <2>2
<1>16. e < ENTRIES => Used(E) = Used(D) \union {slot}
  BY <1>2, <1>5, <1>6, <1>13, <1>14
<1> QED BY <1>6, <1>7, <1>10, <1>11, <1>15, <1>16 DEF e

\* create enters one file and leaves the others alone; with an end in the directory it
\* loses none of them.
LEMMA EnteredIs ==
  ASSUME NEW D, DirectoryOK(D), NEW entry \in Entry, entry.FileName \in Files,
         entry.StartingBlock >= 1, entry.FileSize <= entry.ReservedBlocks,
         findfile(D, entry.FileName) = {}, NEW slot, slot = first_free_entry(D),
         slot # ENTRIES, NEW E, E = Entered(D, slot, entry)
  PROVE  /\ DirectoryOK(E) /\ slot \in list(E) \ list(D) /\ E[slot] = entry
         /\ \A i \in list(E) \ {slot} : i \in list(D) /\ E[i] = D[i]
         /\ FirstWith(D, {EndOfDirectory}) < ENTRIES => list(E) = list(D) \union {slot}
<1> DEFINE name == entry.FileName
<1>1. entry.StartingBlock >= 1 /\ entry.FileSize <= entry.ReservedBlocks
  OBVIOUS
<1>3. D \in Directories
  BY DEF DirectoryOK
<1>4. /\ slot \in Slots /\ slot \notin list(D)
      /\ E \in Directories /\ E[slot] = entry /\ slot \in Used(E)
      /\ \A i \in Used(E) \ {slot} : i \in Used(D) /\ E[i] = D[i]
      /\ FirstWith(D, {EndOfDirectory}) < ENTRIES => Used(E) = Used(D) \union {slot}
  <2>1. entry \in Entry /\ entry.FileName \in Files
    OBVIOUS
  <2>2. slot = first_free_entry(D) /\ slot # ENTRIES /\ E = Entered(D, slot, entry)
    OBVIOUS
  <2> HIDE DEF name
  <2> QED BY <1>3, <2>1, <2>2, EnteredFirst
<1>5. /\ list(D) = {i \in Used(D) : D[i].FileName # Deleted}
      /\ list(E) = {i \in Used(E) : E[i].FileName # Deleted}
  BY <1>3, <1>4, ListIs
<1>6. slot \in list(E) \ list(D)
  BY <1>1, <1>4, <1>5, Marks
<1>7. \A i \in list(E) \ {slot} : i \in list(D) /\ E[i] = D[i]
  BY <1>4, <1>5
<1>8. FirstWith(D, {EndOfDirectory}) < ENTRIES => list(E) = list(D) \union {slot}
  BY <1>4, <1>5, <1>6
<1>9. \A i \in list(D) : D[i].FileName # name
  BY DEF findfile
<1>10. DirectoryOK(E)
  <2>1. ASSUME NEW i \in Used(E)
        PROVE  E[i].StartingBlock >= 1 /\ E[i].FileSize <= E[i].ReservedBlocks
    <3>1. CASE i = slot
      BY <1>1, <1>4, <3>1
    <3>2. CASE i # slot
      BY <1>4, <3>2 DEF DirectoryOK
    <3> QED BY <3>1, <3>2
  <2>2. ASSUME NEW i \in list(E), NEW j \in list(E), E[i].FileName = E[j].FileName PROVE i = j
    <3>1. CASE i = slot /\ j # slot
      BY <1>1, <1>4, <1>7, <1>9, <2>2, <3>1
    <3>2. CASE i # slot /\ j = slot
      BY <1>1, <1>4, <1>7, <1>9, <2>2, <3>2
    <3>3. CASE i # slot /\ j # slot
      BY <1>7, <2>2, <3>3 DEF DirectoryOK
    <3> QED BY <3>1, <3>2, <3>3
  <2> QED BY <1>4, <2>1, <2>2 DEF DirectoryOK
<1> QED BY <1>4, <1>6, <1>7, <1>8, <1>10

\* A step that changes the size or the mark of one entry in front of the end.
LEMMA UsedKept ==
  ASSUME NEW D \in Directories, NEW E \in Directories, NEW k \in list(D),
         \A i \in Slots \ {k} : E[i] = D[i], E[k].FileName # EndOfDirectory
  PROVE  Used(E) = Used(D)
<1> DEFINE e == FirstWith(D, {EndOfDirectory})
<1>1. ENTRIES \in Nat \ {0} /\ Slots = 0..(ENTRIES-1)
  BY BmfsAssumption DEF Slots
<1>2. /\ e \in 0..ENTRIES /\ \A i \in Slots : i < e => D[i].FileName \notin {EndOfDirectory}
      /\ e < ENTRIES => D[e].FileName \in {EndOfDirectory}
  BY FirstIs
<1>3. k \in Used(D) /\ Used(D) = 0..(e-1)
  BY ListIs DEF Used
<1> HIDE DEF e
<1>4. k < e
  BY <1>2, <1>3
<1>5. \A i \in 0..(e-1) : E[i].FileName \notin {EndOfDirectory}
  <2> SUFFICES ASSUME NEW i \in 0..(e-1) PROVE E[i].FileName # EndOfDirectory
    OBVIOUS
  <2>1. i \in Slots /\ i < e
    BY <1>1, <1>2
  <2> QED BY <1>2, <2>1
<1>6. e < ENTRIES => E[e].FileName \in {EndOfDirectory}
  <2>1. e < ENTRIES => e \in Slots /\ e # k
    BY <1>1, <1>2, <1>4
  <2> QED BY <1>2, <2>1
<1>7. FirstWith(E, {EndOfDirectory}) = e
  BY <1>2, <1>5, <1>6, FirstFound
<1> QED BY <1>3, <1>7 DEF Used

\* E is D with the k-th entry marked.
MarkedAt(E, D, k) == E = [D EXCEPT ![k].FileName = Deleted]

\* delete takes one file off the list.
LEMMA DeletedIs ==
  ASSUME NEW D, DirectoryOK(D), NEW k, k \in list(D), NEW E, MarkedAt(E, D, k)
  PROVE  /\ DirectoryOK(E) /\ list(E) = list(D) \ {k}
         /\ \A i \in list(E) : E[i] = D[i]
<1>1. D \in Directories /\ k \in Slots /\ k \in Used(D) /\ D[k].FileName # EndOfDirectory
  BY ListIs, Marks DEF DirectoryOK
<1>2. /\ E \in Directories /\ E[k].FileName = Deleted
      /\ E[k].StartingBlock = D[k].StartingBlock /\ E[k].FileSize = D[k].FileSize
      /\ E[k].ReservedBlocks = D[k].ReservedBlocks
      /\ \A i \in Slots \ {k} : E[i] = D[i]
  BY <1>1 DEF Directories, Entry, MarkedAt
<1>3. Deleted # EndOfDirectory
  BY DEF Deleted, EndOfDirectory
<1>4. Used(E) = Used(D) /\ Used(D) \subseteq Slots
  BY <1>1, <1>2, <1>3, UsedKept, ListIs
<1>5. list(E) = list(D) \ {k}
  <2>1. /\ list(D) = {i \in Used(D) : D[i].FileName # Deleted}
        /\ list(E) = {i \in Used(E) : E[i].FileName # Deleted}
    BY <1>1, <1>2, ListIs
  <2> QED BY <1>2, <1>4, <2>1
<1>6. \A i \in list(E) : E[i] = D[i]
  BY <1>1, <1>2, <1>5, ListIs
<1>7. ASSUME NEW i \in Used(E)
      PROVE  E[i].StartingBlock >= 1 /\ E[i].FileSize <= E[i].ReservedBlocks
  <2>1. D[i].StartingBlock >= 1 /\ D[i].FileSize <= D[i].ReservedBlocks /\ i \in Slots
    BY <1>4 DEF DirectoryOK
  <2>2. E[i] = D[i] \/ i = k
    BY <1>2, <2>1
  <2> QED BY <1>2, <2>1, <2>2
<1>8. \A i, j \in list(E) : E[i].FileName = E[j].FileName => i = j
  BY <1>5, <1>6 DEF DirectoryOK
<1> QED BY <1>2, <1>5, <1>6, <1>7, <1>8 DEF DirectoryOK

\* write changes the size of one file.
LEMMA ResizedIs ==
  ASSUME NEW D, DirectoryOK(D), NEW k \in list(D), NEW E \in Directories,
         \A i \in Slots \ {k} : E[i] = D[i], E[k].FileName = D[k].FileName,
         E[k].StartingBlock = D[k].StartingBlock, E[k].ReservedBlocks = D[k].ReservedBlocks,
         E[k].FileSize <= E[k].ReservedBlocks
  PROVE  DirectoryOK(E) /\ list(E) = list(D)
<1>1. D \in Directories /\ k \in Slots /\ k \in Used(D) /\ D[k].FileName # EndOfDirectory
  BY ListIs, Marks DEF DirectoryOK
<1>2. /\ E \in Directories /\ E[k].FileName = D[k].FileName
      /\ E[k].StartingBlock = D[k].StartingBlock /\ E[k].FileSize <= E[k].ReservedBlocks
      /\ E[k].ReservedBlocks = D[k].ReservedBlocks
      /\ \A i \in Slots \ {k} : E[i] = D[i]
  OBVIOUS
<1>3. Used(E) = Used(D) /\ Used(D) \subseteq Slots
  BY <1>1, <1>2, UsedKept, ListIs
<1>4. list(E) = list(D) /\ list(D) \subseteq Slots
  <2>1. /\ list(D) = {i \in Used(D) : D[i].FileName # Deleted}
        /\ list(E) = {i \in Used(E) : E[i].FileName # Deleted}
    BY <1>1, <1>2, ListIs
  <2>2. \A i \in Slots : E[i].FileName = D[i].FileName
    BY <1>2
  <2> QED BY <1>3, <2>1, <2>2
<1>5. ASSUME NEW i \in Used(E)
      PROVE  E[i].StartingBlock >= 1 /\ E[i].FileSize <= E[i].ReservedBlocks
  <2>1. D[i].StartingBlock >= 1 /\ D[i].FileSize <= D[i].ReservedBlocks /\ i \in Slots
    BY <1>3 DEF DirectoryOK
  <2>2. E[i] = D[i] \/ i = k
    BY <1>2, <2>1
  <2> QED BY <1>2, <2>1, <2>2
<1>6. \A i, j \in list(E) : E[i].FileName = E[j].FileName => i = j
  <2>1. \A i \in list(E) : E[i].FileName = D[i].FileName
    BY <1>2, <1>4
  <2> QED BY <1>4, <2>1 DEF DirectoryOK
<1> QED BY <1>2, <1>4, <1>5, <1>6 DEF DirectoryOK
-----------------------------------------------------------------------------
(* The search for room                                                     *)

\* A sorted sequence of entries names each of them once.
LEMMA SortedIs ==
  ASSUME NEW D, NEW S, IsFiniteSet(S), NEW f \in Sorted(D, S)
  PROVE  /\ Len(f) \in Nat /\ f \in [1..Len(f) -> S]
         /\ \A i \in S : \E k \in 1..Len(f) : f[k] = i
         /\ \A j, k \in 1..Len(f) : f[j] = f[k] => j = k
         /\ \A j, k \in 1..Len(f) : j < k => D[f[j]].StartingBlock <= D[f[k]].StartingBlock
<1> DEFINE n == Cardinality(S)
<1>1. n \in Nat
  BY FS_CardinalityType
<1>2. /\ f \in [1..n -> S] /\ IsInjective(f)
      /\ \A j, k \in DOMAIN f : j < k => D[f[j]].StartingBlock <= D[f[k]].StartingBlock
  BY DEF Sorted
<1>3. f \in Injection(1..n, S) /\ DOMAIN f = 1..n
  BY <1>2 DEF Injection
<1>4. Cardinality(1..n) = n
  BY <1>1, FS_Interval
<1>5. f \in Surjection(1..n, S)
  BY <1>3, <1>4, FS_Injection
<1>6. Len(f) = n
  BY <1>1, <1>3
<1>7. \A i \in S : \E k \in 1..n : f[k] = i
  BY <1>5 DEF Surjection
<1> HIDE DEF n
<1> QED BY <1>1, <1>2, <1>3, <1>6, <1>7 DEF IsInjective

\* Any entries can be sorted.
LEMMA SortedExists ==
  ASSUME NEW D \in Directories, NEW S \in SUBSET Slots
  PROVE  Sorted(D, S) # {}
<1> DEFINE Bad == {n \in Nat : \E T \in SUBSET Slots : Cardinality(T) = n /\ Sorted(D, T) = {}}
<1>1. IsFiniteSet(Slots)
  <2>1. 0 \in Int /\ ENTRIES - 1 \in Int
    BY BmfsAssumption
  <2> QED BY <2>1, FS_Interval DEF Slots
<1>2. \A T \in SUBSET Slots : IsFiniteSet(T) /\ Cardinality(T) \in Nat
  BY <1>1, FS_Subset, FS_CardinalityType
<1>3. Bad = {}
  <2> SUFFICES ASSUME Bad # {} PROVE FALSE
    OBVIOUS
  <2>1. PICK n \in Bad : \A k \in Bad : n <= k
    BY LeastNatural, Zenon
  <2>2. PICK T \in SUBSET Slots : Cardinality(T) = n /\ Sorted(D, T) = {}
    OBVIOUS
  <2>3. n \in Nat
    OBVIOUS
  <2>4. CASE T = {}
    <3>1. Cardinality({}) = 0
      BY FS_EmptySet
    <3>2. <<>> \in [1..0 -> {}] /\ DOMAIN <<>> = {}
      OBVIOUS
    <3>3. <<>> \in Sorted(D, {})
      BY <3>1, <3>2 DEF Sorted, IsInjective
    <3> QED BY <2>2, <2>4, <3>3
  <2>5. CASE T # {}
    <3>1. \A i \in T : D[i].StartingBlock \in Int
      BY DEF Directories, Entry
    <3> DEFINE Begins == {D[i].StartingBlock : i \in T}
    <3>2. Begins \in SUBSET Nat /\ Begins # {}
      BY <2>5 DEF Directories, Entry
    <3>3. \E x \in T : \A i \in T : D[i].StartingBlock <= D[x].StartingBlock
      <4>1. IsFiniteSet(Begins)
        <5>1. [i \in T |-> D[i].StartingBlock] \in Surjection(T, Begins)
          BY DEF Surjection
        <5> QED BY <1>2, <5>1, FS_Surjection
      <4>2. Max(Begins) \in Begins /\ \A y \in Begins : Max(Begins) >= y
        <5> HIDE DEF Begins
        <5>1. Begins \in SUBSET Int
          BY <3>2
        <5> QED BY <3>2, <4>1, <5>1, MaxIs
      <4> QED BY <3>1, <4>2
    <3>4. PICK x \in T : \A i \in T : D[i].StartingBlock <= D[x].StartingBlock
      BY <3>3
    <3> DEFINE U == T \ {x}
               m == n - 1
    <3>5. U \in SUBSET Slots /\ Cardinality(U) = m /\ m \in Nat /\ n = m + 1
      <4>1. Cardinality(U) = m
        BY <1>2, <2>2, <3>4, FS_RemoveElement
      <4>2. U \in SUBSET Slots /\ Cardinality(U) \in Nat
        BY <1>2
      <4> HIDE DEF U
      <4> QED BY <2>3, <4>1, <4>2
    <3>6. Sorted(D, U) # {}
      <4>1. m \in Bad => n <= m
        BY <2>1
      <4>2. ~(n <= m)
        BY <3>5
      <4> HIDE DEF U, m
      <4> QED BY <3>5, <4>1, <4>2
    <3>7. PICK g : g \in Sorted(D, U)
      BY <3>6
    <3> DEFINE f == [k \in 1..n |-> IF k = n THEN x ELSE g[k]]
    <3>8. /\ g \in [1..m -> U]
          /\ \A j, k \in 1..m : g[j] = g[k] => j = k
          /\ \A j, k \in 1..m : j < k => D[g[j]].StartingBlock <= D[g[k]].StartingBlock
      BY <3>5, <3>7 DEF Sorted, IsInjective
    <3>9. \A k \in 1..n : (k = n /\ f[k] = x) \/ (k \in 1..m /\ k < n /\ f[k] = g[k] /\ f[k] \in U)
      <4> SUFFICES ASSUME NEW k \in 1..n
                   PROVE  (k = n /\ f[k] = x)
                          \/ (k \in 1..m /\ k < n /\ f[k] = g[k] /\ f[k] \in U)
        OBVIOUS
      <4>1. CASE k = n
        BY <4>1
      <4>2. CASE k # n
        <5>1. k \in 1..m /\ k < n
          BY <3>5, <4>2
        <5>2. f[k] = g[k]
          BY <4>2
        <5> QED BY <3>8, <5>1, <5>2
      <4> QED BY <4>1, <4>2
    <3>10. f \in [1..n -> T] /\ DOMAIN f = 1..n
      BY <3>4, <3>9
    <3> HIDE DEF f
    <3>11. \A j, k \in 1..n : f[j] = f[k] => j = k
      BY <3>8, <3>9
    <3>12. \A j, k \in 1..n : j < k => D[f[j]].StartingBlock <= D[f[k]].StartingBlock
      <4> SUFFICES ASSUME NEW j \in 1..n, NEW k \in 1..n, j < k
                   PROVE  D[f[j]].StartingBlock <= D[f[k]].StartingBlock
        OBVIOUS
      <4>1. j \in 1..m /\ f[j] = g[j] /\ f[j] \in U
        BY <2>3, <3>9
      <4>2. CASE k = n
        BY <3>4, <3>9, <4>1, <4>2
      <4>3. CASE k # n
        BY <3>8, <3>9, <4>1, <4>3
      <4> QED BY <4>2, <4>3
    <3>13. f \in Sorted(D, T)
      BY <2>2, <3>10, <3>11, <3>12 DEF Sorted, IsInjective
    <3> QED BY <2>2, <3>13
  <2> QED BY <2>4, <2>5
<1> QED BY <1>2, <1>3

\* The entries of a directory that the search goes through are behind the system.
LEMMA EntryBounds ==
  ASSUME NEW D, DirectoryOK(D), NEW i \in Used(D)
  PROVE  /\ D[i].StartingBlock \in Nat \ {0} /\ D[i].ReservedBlocks \in Nat
         /\ FileEnd(D[i]) \in Nat \ {0}
         /\ FileEnd(D[i]) = D[i].StartingBlock + D[i].ReservedBlocks
<1>1. D \in Directories /\ i \in Slots
  BY ListIs DEF DirectoryOK
<1>2. D[i] \in Entry
  BY <1>1 DEF Directories
<1> QED BY <1>2 DEF DirectoryOK, Entry, FileEnd

\* Whatever the directory, create puts no file over the system.
LEMMA StartIsPositive ==
  ASSUME NEW D, DirectoryOK(D), NEW last, NEW blocks, NEW s \in new_file_start(D, last, blocks)
  PROVE  s \in Nat \ {0}
<1> DEFINE used    == 0..(num_used_entries(D) - 1)
           deleted == {i \in used : D[i].FileName = Deleted}
<1>1. PICK f \in Sorted(D, used \ deleted) : s \in Starts(D, f, deleted, last, blocks)
  BY DEF new_file_start
<1>2. used \subseteq Used(D) /\ IsFiniteSet(used \ deleted)
  <2>1. FirstWith(D, {EndOfDirectory}) \in 0..ENTRIES /\ ENTRIES \in Nat \ {0}
    BY FirstIs, BmfsAssumption
  <2>2. num_used_entries(D) \in 0..FirstWith(D, {EndOfDirectory})
    BY <2>1 DEF num_used_entries
  <2>3. IsFiniteSet(used)
    <3>1. 0 \in Int /\ num_used_entries(D) - 1 \in Int
      BY <2>1, <2>2
    <3> QED BY <3>1, FS_Interval
  <2> QED BY <2>1, <2>2, <2>3, FS_Subset DEF Used
<1>3. /\ Len(f) \in Nat /\ f \in [1..Len(f) -> used \ deleted]
  BY <1>1, <1>2, SortedIs
<1>4. ASSUME NEW k \in 1..(Len(f) + 1) PROVE prev_end(D, f, k) \in Nat \ {0}
  <2>1. CASE k = 1
    BY <2>1 DEF prev_end
  <2>2. CASE k # 1
    <3>1. k-1 \in 1..Len(f)
      BY <1>3, <2>2
    <3>2. f[k-1] \in Used(D)
      BY <1>2, <1>3, <3>1
    <3> QED BY <2>2, <3>2, EntryBounds DEF prev_end, prev_file_end
  <2> QED BY <2>1, <2>2
<1>5. CASE Rooms(D, f, last, blocks) # {}
  <2>1. Rooms(D, f, last, blocks) \subseteq 1..(Len(f) + 1)
    BY DEF Rooms
  <2>2. Min(Rooms(D, f, last, blocks)) \in Rooms(D, f, last, blocks)
    <3>1. Rooms(D, f, last, blocks) \in SUBSET Nat
      BY <1>3, <2>1
    <3> QED BY <1>5, <3>1, MinIs
  <2>3. s = prev_end(D, f, Min(Rooms(D, f, last, blocks)))
    BY <1>1, <1>5 DEF Starts
  <2> QED BY <1>4, <2>1, <2>2, <2>3
<1>6. CASE Rooms(D, f, last, blocks) = {}
  <2>1. PICK i \in deleted : s = prev_file_end(D[i])
    BY <1>1, <1>6 DEF Starts
  <2> QED BY <1>2, <2>1, EntryBounds DEF prev_file_end
<1> QED BY <1>5, <1>6

\* While the files lie apart, each in front of the last block, the places at which the
\* search looks are in order: what comes before the k-th ends in front of it, and
\* what comes behind it begins where it ends or later.
LEMMA SearchInOrder ==
  ASSUME NEW D, DirectoryOK(D), NEW last \in Nat \ {0}, Placed(D, last),
         NEW f \in Sorted(D, list(D)), NEW k \in 1..(Len(f) + 1)
  PROVE  /\ prev_end(D, f, k) \in Nat \ {0} /\ this_file_start(D, f, last, k) \in Nat
         /\ prev_end(D, f, k) <= this_file_start(D, f, last, k)
         /\ this_file_start(D, f, last, k) <= last
         /\ \A m \in 1..Len(f) :
              /\ m < k => FileEnd(D[f[m]]) <= prev_end(D, f, k)
              /\ m >= k => this_file_start(D, f, last, k) <= D[f[m]].StartingBlock
<1> DEFINE n == Len(f)
           from == prev_end(D, f, k)
           to == this_file_start(D, f, last, k)
           S(m) == D[f[m]].StartingBlock
           F(m) == FileEnd(D[f[m]])
<1>1. D \in Directories
  BY DEF DirectoryOK
<1>2. IsFiniteSet(list(D)) /\ list(D) \subseteq Used(D)
  BY <1>1, ListIs
<1>3. /\ n \in Nat /\ f \in [1..n -> list(D)]
      /\ \A i, j \in 1..n : f[i] = f[j] => i = j
      /\ \A i, j \in 1..n : i < j => S(i) <= S(j)
  BY <1>2, SortedIs
<1>4. \A m \in 1..n : S(m) \in Nat \ {0} /\ F(m) \in Nat \ {0} /\ S(m) < F(m) /\ F(m) <= last
  <2> SUFFICES ASSUME NEW m \in 1..n
               PROVE  S(m) \in Nat \ {0} /\ F(m) \in Nat \ {0} /\ S(m) < F(m) /\ F(m) <= last
    OBVIOUS
  <2>1. f[m] \in list(D) /\ f[m] \in Used(D)
    BY <1>2, <1>3
  <2>2. D[f[m]].ReservedBlocks >= 1 /\ F(m) <= last
    BY <2>1 DEF Placed
  <2> QED BY <2>1, <2>2, EntryBounds
<1>5. \A i, j \in 1..n : i < j => F(i) <= S(j)
  <2> SUFFICES ASSUME NEW i \in 1..n, NEW j \in 1..n, i < j PROVE F(i) <= S(j)
    OBVIOUS
  <2>1. f[i] \in list(D) /\ f[j] \in list(D) /\ f[i] # f[j]
    BY <1>3
  <2>2. F(i) <= S(j) \/ F(j) <= S(i)
    BY <2>1 DEF Placed, Separate
  <2>3. S(i) <= S(j)
    BY <1>3
  <2> HIDE DEF n
  <2> QED BY <1>4, <2>2, <2>3
<1>6. from = IF k = 1 THEN 1 ELSE F(k-1)
  BY DEF prev_end, prev_file_end
<1>7. to = IF k = n + 1 THEN last ELSE S(k)
  BY DEF this_file_start
<1>8. k \in Nat /\ (k # 1 => k-1 \in 1..n /\ k-1 < k) /\ (k # n + 1 => k \in 1..n)
  BY <1>3
<1> HIDE DEF n, from, to, S, F
<1>9. from \in Nat \ {0} /\ to \in Nat /\ to <= last
  <2>1. from \in Nat \ {0}
    BY <1>4, <1>6, <1>8
  <2>2. to \in Nat /\ to <= last
    <3>1. CASE k = n + 1
      BY <1>7, <3>1
    <3>2. CASE k # n + 1
      <4>1. S(k) \in Nat /\ F(k) \in Nat /\ S(k) < F(k) /\ F(k) <= last
        BY <1>4, <1>8, <3>2
      <4> QED BY <1>7, <3>2, <4>1
    <3> QED BY <3>1, <3>2
  <2> QED BY <2>1, <2>2
<1>10. from <= to
  <2>1. CASE k = 1 /\ k = n + 1
    BY <1>6, <1>7, <2>1
  <2>2. CASE k = 1 /\ k # n + 1
    <3>1. S(k) \in Nat \ {0}
      BY <1>4, <1>8, <2>2
    <3> QED BY <1>6, <1>7, <2>2, <3>1
  <2>3. CASE k # 1 /\ k = n + 1
    BY <1>4, <1>6, <1>7, <1>8, <2>3
  <2>4. CASE k # 1 /\ k # n + 1
    BY <1>5, <1>6, <1>7, <1>8, <2>4
  <2> QED BY <2>1, <2>2, <2>3, <2>4
<1>11. ASSUME NEW m \in 1..n, m < k PROVE F(m) <= from
  <2>1. k # 1 /\ k-1 \in 1..n /\ from = F(k-1)
    BY <1>3, <1>6, <1>8, <1>11
  <2>2. CASE m = k-1
    <3>1. F(m) = from /\ from \in Nat
      BY <1>9, <2>1, <2>2
    <3> QED BY <3>1
  <2>3. CASE m # k-1
    <3>1. m < k-1
      BY <1>3, <1>8, <1>11, <2>3
    <3>2. F(m) <= S(k-1) /\ S(k-1) < F(k-1) /\ F(m) \in Nat /\ S(k-1) \in Nat /\ F(k-1) \in Nat
      BY <1>4, <1>5, <2>1, <3>1
    <3> QED BY <2>1, <3>2
  <2> QED BY <2>2, <2>3
<1>12. ASSUME NEW m \in 1..n, m >= k PROVE to <= S(m)
  <2>1. k # n + 1 /\ k \in 1..n /\ to = S(k)
    BY <1>3, <1>7, <1>8, <1>12
  <2>2. CASE m = k
    <3>1. S(m) = to /\ to \in Nat
      BY <1>9, <2>1, <2>2
    <3> QED BY <3>1
  <2>3. CASE m # k
    <3>1. k < m
      BY <1>3, <1>8, <1>12, <2>3
    <3> QED BY <1>3, <2>1, <3>1
  <2> QED BY <2>2, <2>3
<1> QED BY <1>9, <1>10, <1>11, <1>12 DEF n, from, to, S, F

\* n blocks from s on lie between the system and the last block, on no file.
Free(D, last, s, n) ==
  /\ s \in 1..(last - n)
  /\ \A i \in list(D) : s + n <= D[i].StartingBlock \/ s >= FileEnd(D[i])

\* Where the search finds room there is room.
LEMMA RoomIsFree ==
  ASSUME NEW D, DirectoryOK(D), NEW last \in Nat \ {0}, Placed(D, last),
         NEW f \in Sorted(D, list(D)), NEW blocks \in Nat \ {0}, NEW k \in Rooms(D, f, last, blocks)
  PROVE  Free(D, last, prev_end(D, f, k), blocks)
<1> DEFINE from == prev_end(D, f, k)
           to == this_file_start(D, f, last, k)
<1>1. k \in 1..(Len(f) + 1) /\ Fits(from, to, blocks)
  BY DEF Rooms
<1>2. /\ from \in Nat \ {0} /\ to \in Nat /\ from <= to /\ to <= last
      /\ \A m \in 1..Len(f) : /\ m < k => FileEnd(D[f[m]]) <= from
                              /\ m >= k => to <= D[f[m]].StartingBlock
  BY <1>1, SearchInOrder
<1>3. from + blocks <= to
  <2> HIDE DEF from, to
  <2> QED BY <1>1, <1>2 DEF Fits
<1>4. IsFiniteSet(list(D)) /\ list(D) \subseteq Used(D)
  BY ListIs DEF DirectoryOK
<1>5. Len(f) \in Nat /\ \A i \in list(D) : \E m \in 1..Len(f) : f[m] = i
  BY <1>4, SortedIs
<1> HIDE DEF from, to
<1>6. from \in 1..(last - blocks)
  BY <1>2, <1>3
<1>7. ASSUME NEW i \in list(D)
      PROVE  from + blocks <= D[i].StartingBlock \/ from >= FileEnd(D[i])
  <2>1. PICK m \in 1..Len(f) : f[m] = i
    BY <1>5
  <2>2. D[i].StartingBlock \in Nat /\ FileEnd(D[i]) \in Nat
    BY <1>4, EntryBounds
  <2>3. CASE m < k
    BY <1>2, <2>1, <2>2, <2>3
  <2>4. CASE m >= k
    BY <1>2, <1>3, <2>1, <2>2, <2>4
  <2> QED BY <1>1, <1>5, <2>3, <2>4
<1> QED BY <1>6, <1>7 DEF Free, from

\* Where there is room the search finds some: behind the last of the files in front of it.
LEMMA FreeIsRoom ==
  ASSUME NEW D, DirectoryOK(D), NEW last \in Nat \ {0}, Placed(D, last),
         NEW f \in Sorted(D, list(D)), NEW blocks \in Nat \ {0}, NEW s, Free(D, last, s, blocks)
  PROVE  Rooms(D, f, last, blocks) # {}
<1> DEFINE n == Len(f)
           Behind == {k \in 1..(n + 1) : k = n + 1 \/ s + blocks <= D[f[k]].StartingBlock}
<1>1. IsFiniteSet(list(D)) /\ list(D) \subseteq Used(D)
  BY ListIs DEF DirectoryOK
<1>2. n \in Nat /\ f \in [1..n -> list(D)]
  BY <1>1, SortedIs
<1>3. s \in Nat /\ s >= 1 /\ s + blocks <= last
  BY DEF Free
<1>4. Behind \in SUBSET Nat /\ n + 1 \in Behind
  BY <1>2
<1>5. PICK k \in Behind : \A j \in Behind : k <= j
  <2> HIDE DEF Behind
  <2> QED BY <1>4, LeastNatural, Zenon
<1> DEFINE from == prev_end(D, f, k)
           to == this_file_start(D, f, last, k)
<1>6. k \in 1..(n + 1) /\ (k = n + 1 \/ s + blocks <= D[f[k]].StartingBlock)
  OBVIOUS
<1>7. from \in Nat \ {0} /\ to \in Nat
  BY <1>6, SearchInOrder
<1>8. s + blocks <= to
  BY <1>3, <1>6 DEF this_file_start
<1>9. from <= s
  <2>1. CASE k = 1
    BY <1>3, <2>1 DEF prev_end
  <2>2. CASE k # 1
    <3>1. k - 1 \in 1..n /\ k - 1 # n + 1 /\ ~(k <= k - 1)
      BY <1>2, <1>6, <2>2
    <3>2. k - 1 \in 1..(n + 1) /\ k - 1 \notin Behind
      <4> HIDE DEF Behind
      <4> QED BY <1>2, <1>5, <3>1
    <3>3. ~(s + blocks <= D[f[k-1]].StartingBlock) /\ f[k-1] \in list(D)
      BY <1>2, <3>1, <3>2
    <3>4. s >= FileEnd(D[f[k-1]])
      BY <3>3 DEF Free
    <3>5. FileEnd(D[f[k-1]]) \in Nat
      BY <1>1, <3>3, EntryBounds
    <3> QED BY <1>3, <2>2, <3>4, <3>5 DEF prev_end, prev_file_end
  <2> QED BY <2>1, <2>2
<1>10. Fits(from, to, blocks)
  <2> HIDE DEF from, to
  <2> QED BY <1>3, <1>7, <1>8, <1>9 DEF Fits
<1> QED BY <1>6, <1>10 DEF Rooms

\* With an end in the directory the search knows the files, and the first room is free.
LEMMA SearchFindsRoom ==
  ASSUME NEW D, DirectoryOK(D), NEW last \in Nat \ {0}, Placed(D, last),
         FirstWith(D, {EndOfDirectory}) < ENTRIES, NEW blocks \in Nat \ {0},
         NEW s, Free(D, last, s, blocks)
  PROVE  /\ new_file_start(D, last, blocks) # {}
         /\ \A t \in new_file_start(D, last, blocks) : Free(D, last, t, blocks)
<1> DEFINE used    == 0..(num_used_entries(D) - 1)
           deleted == {i \in used : D[i].FileName = Deleted}
<1>1. D \in Directories
  BY DEF DirectoryOK
<1>2. used \ deleted = list(D)
  <2>1. FirstWith(D, {EndOfDirectory}) \in 0..ENTRIES /\ ENTRIES \in Nat
    BY FirstIs, BmfsAssumption
  <2>2. used = Used(D)
    BY <2>1 DEF num_used_entries, Used
  <2>3. list(D) = {i \in Used(D) : D[i].FileName # Deleted}
    BY <1>1, ListIs
  <2> QED BY <2>2, <2>3
<1>3. new_file_start(D, last, blocks)
        = UNION {Starts(D, f, deleted, last, blocks) : f \in Sorted(D, list(D))}
  BY <1>2 DEF new_file_start
<1>4. Sorted(D, list(D)) # {}
  <2>1. list(D) \in SUBSET Slots
    BY <1>1, ListIs
  <2> QED BY <1>1, <2>1, SortedExists
<1> HIDE DEF deleted
<1>5. ASSUME NEW f \in Sorted(D, list(D))
      PROVE  /\ Starts(D, f, deleted, last, blocks) # {}
             /\ \A t \in Starts(D, f, deleted, last, blocks) : Free(D, last, t, blocks)
  <2> DEFINE rooms == Rooms(D, f, last, blocks)
  <2>1. rooms # {}
    BY FreeIsRoom
  <2>2. rooms \in SUBSET Nat
    <3>1. IsFiniteSet(list(D))
      BY <1>1, ListIs
    <3>2. Len(f) \in Nat
      BY <3>1, SortedIs
    <3> QED BY <3>2 DEF Rooms
  <2>3. Min(rooms) \in rooms
    <3> HIDE DEF rooms
    <3> QED BY <2>1, <2>2, MinIs
  <2>4. Starts(D, f, deleted, last, blocks) = {prev_end(D, f, Min(rooms))}
    BY <2>1 DEF Starts
  <2>5. Free(D, last, prev_end(D, f, Min(rooms)), blocks)
    BY <2>3, RoomIsFree
  <2> QED BY <2>4, <2>5
<1> QED BY <1>3, <1>4, <1>5

\* Disks whose last block is last.
Disks(last) == [tag : {"BMFS"}, Directory : Directories, blocks : [0..last -> Seq(Nat)]]

\* There is no disk yet, or it is formatted.
DiskOK(d) ==
  \/ d = NoDisk
  \/ \E last \in Nat \ {0} : d \in Disks(last) /\ DirectoryOK(d.Directory)

LastOf(d) == Cardinality(DOMAIN d.blocks) - 1

\* A file e of the disk d holds data.
Holds(d, e, data) ==
  /\ data \in Seq(Seq(Nat)) /\ Len(data) = e.FileSize
  /\ \A k \in 1..e.FileSize : d.blocks[e.StartingBlock + k - 1] = data[k]

\* The files of the disk are those in w, each with what w says of it.
KeptOn(d, w) ==
  /\ Placed(d.Directory, LastOf(d))
  /\ {d.Directory[i].FileName : i \in list(d.Directory)} = DOMAIN w
  /\ \A i \in list(d.Directory) : Holds(d, d.Directory[i], w[d.Directory[i].FileName])

\* What is known of a disk.
LEMMA DiskIs ==
  ASSUME NEW last \in Nat, NEW d \in Disks(last)
  PROVE  LastOf(d) = last /\ d.tag = "BMFS" /\ DOMAIN d.blocks = 0..last
<1>1. d.tag = "BMFS" /\ DOMAIN d.blocks = 0..last
  BY DEF Disks
<1>2. Cardinality(0..last) = last + 1
  BY FS_Interval
<1> QED BY <1>1, <1>2 DEF LastOf

\* There is a disk with a directory in order and at least two blocks, or none at all.
LEMMA DiskKinds ==
  ASSUME NEW d, DiskOK(d)
  PROVE  /\ d.Directory \in Directories /\ DirectoryOK(d.Directory)
         /\ DOMAIN d.blocks = 0..LastOf(d) /\ d.tag \in {"none", "BMFS"}
         /\ d.tag = "BMFS" => LastOf(d) \in Nat \ {0} /\ d \in Disks(LastOf(d))
         /\ d.tag # "BMFS" => d = NoDisk
<1>1. CASE d = NoDisk
  <2>1. d.tag = "none" /\ d.Directory = EmptyDirectory /\ d.blocks = <<>>
    BY <1>1 DEF NoDisk
  <2>2. DOMAIN d.blocks = {} /\ LastOf(d) = 0 - 1
    BY <2>1, FS_EmptySet DEF LastOf
  <2>3. DOMAIN d.blocks = 0..LastOf(d)
    BY <2>2
  <2> QED BY <1>1, <2>1, <2>3, EmptyIs
<1>2. CASE d # NoDisk
  <2>1. PICK last \in Nat \ {0} : d \in Disks(last) /\ DirectoryOK(d.Directory)
    BY <1>2 DEF DiskOK
  <2>2. LastOf(d) = last /\ d.tag = "BMFS" /\ DOMAIN d.blocks = 0..last
    BY <2>1, DiskIs
  <2> QED BY <2>1, <2>2 DEF DirectoryOK
<1> QED BY <1>1, <1>2

\* The entry that findfile finds.
LEMMA FindIs ==
  ASSUME NEW D, DirectoryOK(D), NEW name
  PROVE  /\ \A i \in list(D) : D[i].FileName = name => findfile(D, name) = {i}
         /\ findfile(D, name) # {} =>
              /\ Min(findfile(D, name)) \in list(D)
              /\ D[Min(findfile(D, name))].FileName = name
<1> DEFINE found == findfile(D, name)
<1>1. \A i \in list(D) : D[i].FileName = name => found = {i}
  BY DEF findfile, DirectoryOK
<1>2. found \subseteq list(D) /\ list(D) \subseteq Nat
  BY ListIs DEF findfile, DirectoryOK
<1>3. ASSUME found # {} PROVE Min(found) \in found
  <2>1. found \in SUBSET Nat
    BY <1>2
  <2> HIDE DEF found
  <2> QED BY <1>3, <2>1, MinIs
<1> QED BY <1>1, <1>2, <1>3 DEF findfile

\* A disk that has just been formatted keeps no files.
LEMMA FormattedIs ==
  ASSUME NEW last \in Nat \ {0}, NEW d, d.Directory = EmptyDirectory, d \in Disks(last)
  PROVE  DiskOK(d) /\ KeptOn(d, <<>>)
<1>1. DiskOK(d)
  BY EmptyIs DEF DiskOK
<1>2. KeptOn(d, <<>>)
  <2>1. DOMAIN <<>> = {}
    OBVIOUS
  <2> QED BY <2>1, EmptyIs DEF KeptOn
<1> QED BY <1>1, <1>2

\* The sizes that create reserves.
LEMMA BlocksReserved == \A maxsize \in MaxSizes : (maxsize + 1) \div 2 \in Nat \ {0}
<1> SUFFICES ASSUME NEW maxsize \in MaxSizes PROVE (maxsize + 1) \div 2 \in Nat \ {0}
  OBVIOUS
<1>1. maxsize \in Nat \ {0}
  BY FilesAssumption
<1> QED BY <1>1

\* create changes the directory only.
LEMMA CreateIs ==
  ASSUME NEW d, DiskOK(d), d.tag = "BMFS", NEW name \in Files, NEW maxsize \in MaxSizes,
         NEW c \in create(d, name, maxsize), c # d
  PROVE  \E E : \E s \in new_file_start(d.Directory, LastOf(d), (maxsize + 1) \div 2) :
           /\ c = [d EXCEPT !.Directory = E] /\ s \in Nat \ {0}
           /\ findfile(d.Directory, name) = {} /\ first_free_entry(d.Directory) # ENTRIES
           /\ E = Entered(d.Directory, first_free_entry(d.Directory),
                          BMFSEntry(name, s, (maxsize + 1) \div 2, 0))
<1> DEFINE D == d.Directory
           blocks == (maxsize + 1) \div 2
           starts == new_file_start(D, LastOf(d), blocks)
           slot == first_free_entry(D)
<1>1. DirectoryOK(D)
  BY DiskKinds
<1>2. starts = new_file_start(D, Cardinality(DOMAIN d.blocks) - 1, blocks)
  BY DEF LastOf
<1>3. /\ findfile(D, name) = {} /\ slot # ENTRIES
      /\ \E s \in starts : c = [d EXCEPT !.Directory = Entered(D, slot, BMFSEntry(name, s, blocks, 0))]
  BY <1>2 DEF create
<1>4. \A s \in starts : s \in Nat \ {0}
  BY <1>1, StartIsPositive
<1> QED BY <1>3, <1>4

\* While the files lie apart, a file that is created where there is room gets it.
LEMMA CreateKeeps ==
  ASSUME NEW d, DiskOK(d), d.tag = "BMFS", NEW name \in Files, NEW maxsize \in MaxSizes,
         NEW c \in create(d, name, maxsize), c # d
  PROVE  /\ DiskOK(c) /\ c.tag = "BMFS" /\ c.blocks = d.blocks
         /\ \A w : KeptOn(d, w) /\ Room(d, (maxsize + 1) \div 2) => KeptOn(c, Noted(w, name, <<>>))
<1> DEFINE D == d.Directory
           blocks == (maxsize + 1) \div 2
           slot == first_free_entry(D)
<1>1. PICK E : \E s \in new_file_start(D, LastOf(d), blocks) :
        /\ c = [d EXCEPT !.Directory = E] /\ s \in Nat \ {0}
        /\ findfile(D, name) = {} /\ slot # ENTRIES
        /\ E = Entered(D, slot, BMFSEntry(name, s, blocks, 0))
  BY CreateIs
<1>2. PICK s \in new_file_start(D, LastOf(d), blocks) :
        /\ c = [d EXCEPT !.Directory = E] /\ s \in Nat \ {0}
        /\ findfile(D, name) = {} /\ slot # ENTRIES
        /\ E = Entered(D, slot, BMFSEntry(name, s, blocks, 0))
  BY <1>1
<1>3. DirectoryOK(D) /\ LastOf(d) \in Nat \ {0} /\ d \in Disks(LastOf(d))
  BY DiskKinds
<1>4. blocks \in Nat \ {0}
  BY BlocksReserved
<1> HIDE DEF blocks, slot, D
<1>5. /\ DirectoryOK(E) /\ slot \in list(E) \ list(D)
      /\ E[slot] = BMFSEntry(name, s, blocks, 0)
      /\ \A i \in list(E) \ {slot} : i \in list(D) /\ E[i] = D[i]
      /\ FirstWith(D, {EndOfDirectory}) < ENTRIES => list(E) = list(D) \union {slot}
  <2> DEFINE entry == BMFSEntry(name, s, blocks, 0)
  <2>1. /\ entry \in Entry /\ entry.FileName = name /\ entry.StartingBlock >= 1
        /\ entry.FileSize <= entry.ReservedBlocks
    BY <1>2, <1>4 DEF BMFSEntry, Entry
  <2>2. findfile(D, name) = {} /\ slot # ENTRIES /\ E = Entered(D, slot, entry)
    BY <1>2
  <2>3. slot = first_free_entry(D)
    BY DEF slot
  <2>4. name \in Files
    OBVIOUS
  <2> HIDE DEF entry
  <2>5. /\ DirectoryOK(E) /\ slot \in list(E) \ list(D) /\ E[slot] = entry
        /\ \A i \in list(E) \ {slot} : i \in list(D) /\ E[i] = D[i]
        /\ FirstWith(D, {EndOfDirectory}) < ENTRIES => list(E) = list(D) \union {slot}
    BY <1>3, <2>1, <2>2, <2>3, <2>4, EnteredIs
  <2> QED BY <2>5 DEF entry
<1>6. c.Directory = E /\ c.tag = "BMFS" /\ c.blocks = d.blocks /\ c \in Disks(LastOf(d))
  <2>1. E \in Directories
    BY <1>5 DEF DirectoryOK
  <2> QED BY <1>2, <1>3, <2>1 DEF Disks
<1>7. LastOf(c) = LastOf(d)
  BY <1>6 DEF LastOf
<1>8. ASSUME NEW w, KeptOn(d, w), Room(d, blocks)
      PROVE  KeptOn(c, Noted(w, name, <<>>))
  <2> DEFINE last == LastOf(d)
             v == Noted(w, name, <<>>)
  <2>1. Placed(D, last) /\ {D[i].FileName : i \in list(D)} = DOMAIN w
        /\ \A i \in list(D) : Holds(d, D[i], w[D[i].FileName])
    BY <1>8 DEF KeptOn, D
  <2>2. FirstWith(D, {EndOfDirectory}) < ENTRIES /\ \E t : Free(D, last, t, blocks)
    BY <1>8 DEF Room, Free, D, LastOf
  <2>3. Free(D, last, s, blocks)
    BY <1>2, <1>3, <1>4, <2>1, <2>2, SearchFindsRoom
  <2>4. list(E) = list(D) \union {slot} /\ \A i \in list(D) : i # slot /\ E[i] = D[i]
    BY <1>5, <2>2
  <2>5. /\ E[slot].FileName = name /\ E[slot].StartingBlock = s /\ E[slot].FileSize = 0
        /\ E[slot].ReservedBlocks = blocks /\ FileEnd(E[slot]) = s + blocks
    BY <1>5 DEF BMFSEntry, FileEnd
  <2>6. Placed(E, last)
    <3>1. \A i \in list(D) : Separate(D[i], E[slot]) /\ Separate(E[slot], D[i])
      <4> SUFFICES ASSUME NEW i \in list(D)
                   PROVE  Separate(D[i], E[slot]) /\ Separate(E[slot], D[i])
        OBVIOUS
      <4>1. i \in Used(D)
        BY <1>3, ListIs DEF DirectoryOK
      <4>2. D[i].StartingBlock \in Nat /\ FileEnd(D[i]) \in Nat
        BY <1>3, <4>1, EntryBounds
      <4>3. s + blocks <= D[i].StartingBlock \/ s >= FileEnd(D[i])
        BY <2>3 DEF Free
      <4> QED BY <1>2, <2>5, <4>2, <4>3 DEF Separate
    <3>2. s + blocks <= last
      BY <1>2, <1>3, <1>4, <2>3 DEF Free
    <3> QED BY <1>4, <2>1, <2>4, <2>5, <3>1, <3>2 DEF Placed
  <2>7. DOMAIN v = DOMAIN w \union {name} /\ v[name] = <<>>
        /\ \A f \in DOMAIN w : f # name => v[f] = w[f]
    BY DEF Noted
  <2>8. \A i \in list(D) : D[i].FileName # name /\ D[i].FileName \in DOMAIN w
    BY <1>2, <2>1 DEF findfile
  <2>9. {E[i].FileName : i \in list(E)} = DOMAIN v
    <3>1. {E[i].FileName : i \in list(E)} = {D[i].FileName : i \in list(D)} \union {name}
      BY <2>4, <2>5
    <3> QED BY <2>1, <2>7, <3>1
  <2> HIDE DEF v, last
  <2>10. \A i \in list(E) : Holds(c, E[i], v[E[i].FileName])
    <3> SUFFICES ASSUME NEW i \in list(E) PROVE Holds(c, E[i], v[E[i].FileName])
      OBVIOUS
    <3>1. CASE i = slot
      <4>1. <<>> \in Seq(Seq(Nat)) /\ Len(<<>>) = 0 /\ 1..0 = {}
        OBVIOUS
      <4> QED BY <2>5, <2>7, <3>1, <4>1 DEF Holds
    <3>2. CASE i # slot
      <4>1. i \in list(D) /\ E[i] = D[i]
        BY <2>4, <3>2
      <4>2. v[E[i].FileName] = w[D[i].FileName]
        BY <2>7, <2>8, <4>1
      <4> QED BY <1>6, <2>1, <4>1, <4>2 DEF Holds
    <3> QED BY <3>1, <3>2
  <2> QED BY <1>6, <1>7, <2>6, <2>9, <2>10 DEF KeptOn, v, last
<1>9. DiskOK(c)
  BY <1>3, <1>5, <1>6 DEF DiskOK
<1> QED BY <1>6, <1>8, <1>9 DEF blocks

\* What write makes of the blocks: the file's are those of the data, the others are
\* left alone, and the disk gets longer when the file ends behind it.
Overwritten(blocks, begin, data) ==
  LET place == begin..(begin + Len(data) - 1)
      upTo  == IF data = <<>> THEN {} ELSE 0..(begin + Len(data) - 1)
  IN  [b \in DOMAIN blocks \union upTo |->
         CASE b \in place -> data[b - begin + 1]
           [] b \in DOMAIN blocks \ place -> blocks[b]
           [] OTHER -> Zeros]

\* B has data from begin on and is blocks elsewhere.
HoldsData(B, blocks, last, begin, data) ==
  /\ \A k \in 1..Len(data) : B[begin + k - 1] = data[k]
  /\ \A b \in 0..last : b < begin \/ begin + Len(data) <= b => B[b] = blocks[b]
  /\ \E top \in Nat \ {0} : B \in [0..top -> Seq(Nat)]
  /\ begin + Len(data) - 1 <= last => B \in [0..last -> Seq(Nat)]

\* The data is where the file is; nothing else on the disk changes, up to its last block.
LEMMA OverwrittenIs ==
  ASSUME NEW last, last \in Nat \ {0}, NEW blocks, blocks \in [0..last -> Seq(Nat)],
         NEW begin, begin \in Nat \ {0}, NEW data, data \in Seq(Seq(Nat)),
         NEW B, B = Overwritten(blocks, begin, data)
  PROVE  HoldsData(B, blocks, last, begin, data)
<1> DEFINE n == Len(data)
           place == begin..(begin + n - 1)
           upTo == IF data = <<>> THEN {} ELSE 0..(begin + n - 1)
           top == IF data = <<>> \/ begin + n - 1 <= last THEN last ELSE begin + n - 1
<1>1. n \in Nat /\ (data # <<>> => n >= 1) /\ (data = <<>> => n = 0)
  OBVIOUS
<1>2. DOMAIN blocks = 0..last
  OBVIOUS
<1>3. 0..last \union upTo = 0..top /\ top \in Nat \ {0}
      /\ (begin + n - 1 <= last => top = last) /\ last <= top
  <2> HIDE DEF n
  <2> QED BY <1>1
<1>4. B = [b \in 0..top |-> CASE b \in place -> data[b - begin + 1]
                              [] b \in 0..last \ place -> blocks[b]
                              [] OTHER -> Zeros]
  BY <1>2, <1>3 DEF Overwritten
<1>5. \A k \in 1..n : data[k] \in Seq(Nat)
  OBVIOUS
<1> HIDE DEF n, top, upTo
<1>6. \A k \in 1..n : begin + k - 1 \in 0..top /\ begin + k - 1 \in place
  BY <1>1 DEF top
<1>7. ASSUME NEW k \in 1..n PROVE B[begin + k - 1] = data[k]
  <2> DEFINE b == begin + k - 1
  <2>1. b \in 0..top /\ b \in place
    BY <1>6, Zenon
  <2>2. b - begin + 1 = k
    BY <1>1
  <2> HIDE DEF b
  <2>3. B[b] = data[k]
    BY <1>4, <2>1, <2>2
  <2> QED BY <2>3 DEF b
<1>8. ASSUME NEW b \in 0..last, b < begin \/ begin + n <= b PROVE B[b] = blocks[b]
  <2>1. b \notin place /\ b \in 0..top
    BY <1>1, <1>3, <1>8
  <2> QED BY <1>4, <2>1
<1>9. B \in [0..top -> Seq(Nat)]
  <2>1. \A b \in place : b - begin + 1 \in 1..n
    BY <1>1
  <2>2. Zeros \in Seq(Nat)
    BY DEF Zeros
  <2>3. \A b \in 0..top : B[b] \in Seq(Nat)
    BY <1>4, <1>5, <2>1, <2>2
  <2> QED BY <1>4, <2>3
<1> QED BY <1>3, <1>7, <1>8, <1>9 DEF n, HoldsData

\* A file that is written holds the data, in its own blocks.
LEMMA WriteKeeps ==
  ASSUME NEW d, DiskOK(d), d.tag = "BMFS", NEW name \in Files, NEW data \in Contents,
         NEW c, c = write(d, name, data), c # d
  PROVE  /\ DiskOK(c) /\ c.tag = "BMFS" /\ c.blocks[0] = d.blocks[0]
         /\ \A w : KeptOn(d, w) => KeptOn(c, Noted(w, name, data))
<1> DEFINE D == d.Directory
           last == LastOf(d)
           slot == Min(findfile(D, name))
           begin == D[slot].StartingBlock
           n == Len(data)
           E == [D EXCEPT ![slot].FileSize = n]
           B == Overwritten(d.blocks, begin, data)
<1>1. DirectoryOK(D) /\ last \in Nat \ {0} /\ d \in Disks(last)
  BY DiskKinds
<1>2. (findfile(D, name) # {} /\ n <= D[slot].ReservedBlocks) \/ c = d
  <2>1. (D[slot].ReservedBlocks \in Int /\ n \in Int) \/ findfile(D, name) = {}
    <3>1. data \in Seq(Seq(Nat))
      BY FilesAssumption
    <3>2. findfile(D, name) # {} => slot \in list(D)
      BY <1>1, FindIs
    <3>3. \A i \in list(D) : i \in Used(D)
      BY <1>1, ListIs DEF DirectoryOK
    <3> QED BY <1>1, <3>1, <3>2, <3>3, EntryBounds
  <2> QED BY <2>1 DEF write
<1>3. findfile(D, name) # {} /\ n <= D[slot].ReservedBlocks
  BY <1>2
<1>4. slot \in list(D) /\ D[slot].FileName = name
  BY <1>1, <1>3, FindIs
<1>5. data \in Seq(Seq(Nat)) /\ n \in Nat
  BY FilesAssumption
<1>6. /\ begin \in Nat \ {0} /\ D[slot].ReservedBlocks \in Nat
      /\ FileEnd(D[slot]) = begin + D[slot].ReservedBlocks
  <2>1. slot \in Used(D)
    BY <1>1, <1>4, ListIs DEF DirectoryOK
  <2> QED BY <1>1, <2>1, EntryBounds
<1>7. c = [d EXCEPT !.blocks = B, !.Directory = E]
  <2>1. ~(findfile(D, name) = {} \/ D[slot].ReservedBlocks < n)
    BY <1>3, <1>5, <1>6
  <2>2. c = [d EXCEPT !.blocks = B, !.Directory[slot].FileSize = n]
    BY <2>1 DEF write, Overwritten
  <2> QED BY <2>2
<1>8. d = [tag |-> "BMFS", Directory |-> D, blocks |-> d.blocks] /\ d.blocks \in [0..last -> Seq(Nat)]
  BY <1>1 DEF Disks
<1> HIDE DEF D, last, slot, begin, n, E, B
<1>9. c = [tag |-> "BMFS", Directory |-> E, blocks |-> B]
  BY <1>7, <1>8
<1>10. /\ DirectoryOK(E) /\ list(E) = list(D)
       /\ \A i \in list(D) \ {slot} : E[i] = D[i]
       /\ E[slot].FileName = D[slot].FileName /\ E[slot].StartingBlock = D[slot].StartingBlock
       /\ E[slot].ReservedBlocks = D[slot].ReservedBlocks /\ E[slot].FileSize = n
  <2>1. E = [D EXCEPT ![slot].FileSize = n]
    BY DEF E
  <2>2. D \in Directories /\ slot \in Slots /\ list(D) \subseteq Slots
    BY <1>1, <1>4, ListIs DEF DirectoryOK
  <2>3. /\ E \in Directories /\ \A i \in Slots \ {slot} : E[i] = D[i]
        /\ E[slot].FileName = D[slot].FileName /\ E[slot].StartingBlock = D[slot].StartingBlock
        /\ E[slot].ReservedBlocks = D[slot].ReservedBlocks /\ E[slot].FileSize = n
    BY <1>5, <2>1, <2>2 DEF Directories, Entry
  <2>4. DirectoryOK(E) /\ list(E) = list(D)
    BY <1>1, <1>3, <1>4, <2>3, ResizedIs
  <2> QED BY <2>2, <2>3, <2>4
<1>11. /\ \A k \in 1..n : B[begin + k - 1] = data[k]
       /\ \A b \in 0..last : b < begin \/ begin + n <= b => B[b] = d.blocks[b]
       /\ \E top \in Nat \ {0} : B \in [0..top -> Seq(Nat)]
       /\ begin + n - 1 <= last => B \in [0..last -> Seq(Nat)]
  <2>1. B = Overwritten(d.blocks, begin, data)
    BY DEF B
  <2>2. HoldsData(B, d.blocks, last, begin, data)
    BY <1>1, <1>5, <1>6, <1>8, <2>1, OverwrittenIs
  <2> QED BY <2>2 DEF HoldsData, n
<1>12. DiskOK(c)
  <2>1. PICK top \in Nat \ {0} : B \in [0..top -> Seq(Nat)]
    BY <1>11
  <2>2. c \in Disks(top) /\ c.Directory = E
    BY <1>9, <1>10, <2>1 DEF Disks, DirectoryOK
  <2> QED BY <1>10, <2>2 DEF DiskOK
<1>13. c.blocks[0] = d.blocks[0]
  <2>1. 0 \in 0..last /\ 0 < begin
    BY <1>1, <1>6
  <2> QED BY <1>9, <1>11, <2>1
<1>14. ASSUME NEW w, KeptOn(d, w) PROVE KeptOn(c, Noted(w, name, data))
  <2> DEFINE v == Noted(w, name, data)
  <2>1. Placed(D, last) /\ {D[i].FileName : i \in list(D)} = DOMAIN w
        /\ \A i \in list(D) : Holds(d, D[i], w[D[i].FileName])
    BY <1>14 DEF KeptOn, D, last
  <2>2. FileEnd(D[slot]) <= last /\ begin + n <= last
    BY <1>1, <1>3, <1>4, <1>5, <1>6, <2>1 DEF Placed
  <2>3. LastOf(c) = last
    <3>1. c \in Disks(last)
      BY <1>1, <1>5, <1>6, <1>9, <1>10, <1>11, <2>2 DEF Disks, DirectoryOK
    <3> QED BY <1>1, <3>1, DiskIs
  <2>4. \A i \in list(D) : /\ E[i].StartingBlock = D[i].StartingBlock /\ FileEnd(E[i]) = FileEnd(D[i])
                           /\ E[i].ReservedBlocks = D[i].ReservedBlocks
                           /\ E[i].FileName = D[i].FileName
    BY <1>10 DEF FileEnd
  <2>5. Placed(E, last)
    BY <1>10, <2>1, <2>4 DEF Placed, Separate
  <2>6. /\ DOMAIN v = DOMAIN w \union {name} /\ v[name] = data
        /\ \A f \in DOMAIN w : f # name => v[f] = w[f]
    BY DEF Noted
  <2>7. {E[i].FileName : i \in list(E)} = DOMAIN v
    <3>1. {E[i].FileName : i \in list(E)} = {D[i].FileName : i \in list(D)}
      BY <1>10, <2>4
    <3>2. name \in DOMAIN w
      BY <1>4, <2>1
    <3> QED BY <2>1, <2>6, <3>1, <3>2
  <2> HIDE DEF v
  <2>8. ASSUME NEW i \in list(D) PROVE Holds(c, E[i], v[E[i].FileName])
    <3>1. CASE i = slot
      <4>1. E[i].FileName = name /\ E[i].FileSize = n /\ E[i].StartingBlock = begin
        BY <1>4, <1>10, <3>1 DEF begin
      <4> QED BY <1>5, <1>9, <1>11, <2>6, <4>1 DEF Holds, n
    <3>2. CASE i # slot
      <4>1. E[i] = D[i] /\ i \in Used(D)
        BY <1>1, <1>10, <3>2, ListIs DEF DirectoryOK
      <4>2. D[i].FileName # name /\ D[i].FileName \in DOMAIN w
        BY <1>1, <1>4, <2>1, <3>2 DEF DirectoryOK
      <4>3. /\ D[i].StartingBlock \in Nat \ {0} /\ D[i].ReservedBlocks \in Nat
            /\ FileEnd(D[i]) = D[i].StartingBlock + D[i].ReservedBlocks
            /\ D[i].FileSize \in Nat /\ D[i].FileSize <= D[i].ReservedBlocks
        <5>1. D[i] \in Entry
          BY <1>1, ListIs DEF DirectoryOK, Directories
        <5> QED BY <1>1, <4>1, <5>1, EntryBounds DEF Entry, DirectoryOK
      <4>4. FileEnd(D[i]) <= last /\ Separate(D[i], D[slot])
        BY <1>4, <2>1, <3>2 DEF Placed
      <4>5. ASSUME NEW k \in 1..D[i].FileSize
            PROVE  c.blocks[D[i].StartingBlock + k - 1] = d.blocks[D[i].StartingBlock + k - 1]
        <5> DEFINE b == D[i].StartingBlock + k - 1
        <5>1. b \in 0..last /\ D[i].StartingBlock <= b /\ b < FileEnd(D[i])
          BY <1>1, <4>3, <4>4
        <5>2. FileEnd(D[i]) <= begin \/ FileEnd(D[slot]) <= D[i].StartingBlock
          BY <4>4 DEF Separate, begin
        <5> HIDE DEF b
        <5>3. b < begin \/ begin + n <= b
          BY <1>3, <1>5, <1>6, <4>3, <5>1, <5>2
        <5> QED BY <1>9, <1>11, <5>1, <5>3 DEF b
      <4>6. Holds(d, D[i], w[D[i].FileName]) /\ v[E[i].FileName] = w[D[i].FileName]
        BY <2>1, <2>6, <4>1, <4>2
      <4> QED BY <4>1, <4>5, <4>6 DEF Holds
    <3> QED BY <3>1, <3>2
  <2>9. c.Directory = E
    BY <1>9
  <2> QED BY <1>10, <2>3, <2>5, <2>7, <2>8, <2>9 DEF KeptOn, v
<1> QED BY <1>9, <1>12, <1>13, <1>14

\* A file that is deleted is taken off the list, and only that.
LEMMA DeleteKeeps ==
  ASSUME NEW d, DiskOK(d), d.tag = "BMFS", NEW name \in Files, NEW c, c = delete(d, name)
  PROVE  /\ DiskOK(c) /\ c.tag = "BMFS" /\ c.blocks = d.blocks
         /\ \A w : KeptOn(d, w) => KeptOn(c, Restrict(w, DOMAIN w \ {name}))
<1> DEFINE D == d.Directory
           last == LastOf(d)
           slot == Min(findfile(D, name))
           E == [D EXCEPT ![slot].FileName = Deleted]
<1>1. DirectoryOK(D) /\ last \in Nat \ {0} /\ d \in Disks(last)
  BY DiskKinds
<1>2. \A w : DOMAIN Restrict(w, DOMAIN w \ {name}) = DOMAIN w \ {name}
             /\ \A f \in DOMAIN w \ {name} : Restrict(w, DOMAIN w \ {name})[f] = w[f]
  BY DEF Restrict
<1>3. CASE findfile(D, name) = {}
  <2>1. c = d
    BY <1>3 DEF delete
  <2>2. ASSUME NEW w, KeptOn(d, w) PROVE KeptOn(d, Restrict(w, DOMAIN w \ {name}))
    <3>1. \A i \in list(D) : D[i].FileName # name
      BY <1>3 DEF findfile
    <3>2. {D[i].FileName : i \in list(D)} = DOMAIN w
      BY <2>2 DEF KeptOn
    <3>3. name \notin DOMAIN w
      BY <3>1, <3>2
    <3>4. \A i \in list(D) : D[i].FileName \in DOMAIN w \ {name}
      BY <3>2, <3>3
    <3> QED BY <1>2, <2>2, <3>2, <3>3, <3>4 DEF KeptOn
  <2> QED BY <2>1, <2>2
<1>4. CASE findfile(D, name) # {}
  <2>1. c = [d EXCEPT !.Directory = E]
    BY <1>4 DEF delete
  <2>2. slot \in list(D) /\ D[slot].FileName = name
    BY <1>1, <1>4, FindIs
  <2>3. d = [tag |-> "BMFS", Directory |-> D, blocks |-> d.blocks]
        /\ d.blocks \in [0..last -> Seq(Nat)]
    BY <1>1 DEF Disks
  <2> HIDE DEF D, last, slot, E
  <2>4. c = [tag |-> "BMFS", Directory |-> E, blocks |-> d.blocks]
    BY <2>1, <2>3
  <2>5. DirectoryOK(E) /\ list(E) = list(D) \ {slot} /\ \A i \in list(E) : E[i] = D[i]
    <3>1. MarkedAt(E, D, slot)
      BY DEF E, MarkedAt
    <3> QED BY <1>1, <2>2, <3>1, DeletedIs
  <2>6. DiskOK(c) /\ LastOf(c) = last
    <3>1. c \in Disks(last) /\ c.Directory = E
      BY <2>3, <2>4, <2>5 DEF Disks, DirectoryOK
    <3> QED BY <1>1, <2>5, <3>1, DiskIs DEF DiskOK
  <2>7. ASSUME NEW w, KeptOn(d, w) PROVE KeptOn(c, Restrict(w, DOMAIN w \ {name}))
    <3> DEFINE v == Restrict(w, DOMAIN w \ {name})
    <3>1. Placed(D, last) /\ {D[i].FileName : i \in list(D)} = DOMAIN w
          /\ \A i \in list(D) : Holds(d, D[i], w[D[i].FileName])
      BY <2>7 DEF KeptOn, D, last
    <3>2. Placed(E, last)
      BY <2>5, <3>1 DEF Placed
    <3>3. \A i \in list(E) : i \in list(D) /\ E[i] = D[i] /\ D[i].FileName # name
      BY <1>1, <2>2, <2>5 DEF DirectoryOK
    <3>4. DOMAIN v = DOMAIN w \ {name} /\ \A f \in DOMAIN w \ {name} : v[f] = w[f]
      BY <1>2
    <3> HIDE DEF v
    <3>5. {E[i].FileName : i \in list(E)} = DOMAIN v
      <4>1. \A i \in list(D) : D[i].FileName = name \/ i \in list(E)
        BY <2>2, <2>5
      <4> QED BY <3>1, <3>3, <3>4, <4>1
    <3>6. \A i \in list(E) : Holds(c, E[i], v[E[i].FileName])
      <4>1. \A i \in list(E) : v[E[i].FileName] = w[D[i].FileName]
        BY <3>1, <3>3, <3>4
      <4>2. c.blocks = d.blocks
        BY <2>4
      <4>3. ASSUME NEW i \in list(E) PROVE Holds(c, E[i], w[D[i].FileName])
        <5>1. Holds(d, D[i], w[D[i].FileName]) /\ E[i] = D[i]
          BY <3>1, <3>3
        <5> QED BY <4>2, <5>1 DEF Holds
      <4> QED BY <4>1, <4>3
    <3>7. c.Directory = E
      BY <2>4
    <3> QED BY <2>6, <3>2, <3>5, <3>6, <3>7 DEF KeptOn, v
  <2> QED BY <2>4, <2>6, <2>7
<1> QED BY <1>1, <1>3, <1>4, DiskIs

\* format takes all files off the disk and leaves its blocks alone.
LEMMA FormatKeeps ==
  ASSUME NEW d, DiskOK(d), d.tag = "BMFS", NEW c, c = format(d)
  PROVE  DiskOK(c) /\ c.tag = "BMFS" /\ c.blocks = d.blocks /\ KeptOn(c, <<>>)
<1>1. LastOf(d) \in Nat \ {0} /\ d \in Disks(LastOf(d))
  BY DiskKinds
<1>2. c.Directory = EmptyDirectory /\ c.blocks = d.blocks /\ c.tag = "BMFS" /\ c \in Disks(LastOf(d))
  BY <1>1, EmptyIs DEF Disks, format
<1> QED BY <1>1, <1>2, FormattedIs

\* The block holds a system with the kernel behind a boot record.
HoldsSystem(block, kernel) ==
  \E m \in Seq(Nat) : Len(m) = SECTOR /\ block = m \o PURE64 \o kernel

\* initialize makes a disk with no files, and with the system behind the boot record.
LEMMA InitializeMakes ==
  ASSUME NEW d, DiskOK(d), NEW amount \in Sizes, NEW mbr \in BootRecords,
         NEW kernel, kernel \in Seq(Nat),
         ~Refused(amount, mbr, PURE64, kernel), NEW c, c = initialize(d, amount, mbr, PURE64, kernel)
  PROVE  /\ DiskOK(c) /\ c.tag = "BMFS" /\ KeptOn(c, <<>>)
         /\ c.blocks[0] = Zeros \/ HoldsSystem(c.blocks[0], kernel)
<1> DEFINE last == amount - 1
           zeros == [b \in 0..last |-> Zeros]
           blank == [tag |-> "BMFS", Directory |-> EmptyDirectory, blocks |-> zeros]
           m == SubSeq(mbr, 1, SECTOR)
           system == m \o PURE64 \o kernel
<1>1. last \in Nat \ {0}
  BY FilesAssumption DEF Refused, minimumDiskSize
<1>2. mbr \in Seq(Nat) /\ PURE64 \in Seq(Nat) /\ SECTOR \in Nat \ {0} /\ Zeros \in Seq(Nat)
  BY FilesAssumption, BmfsAssumption DEF Zeros
<1>3. format([d EXCEPT !.blocks = zeros]) = blank
  <2>1. \E a, D, b : d = [tag |-> a, Directory |-> D, blocks |-> b]
    <3>1. CASE d.tag = "BMFS"
      BY <3>1, DiskKinds DEF Disks
    <3>2. CASE d.tag # "BMFS"
      BY <3>2, DiskKinds DEF NoDisk
    <3> QED BY <3>1, <3>2
  <2>2. PICK a, D, b : d = [tag |-> a, Directory |-> D, blocks |-> b]
    BY <2>1
  <2> HIDE DEF zeros
  <2> DEFINE x == [d EXCEPT !.blocks = zeros]
  <2>3. x = [tag |-> a, Directory |-> D, blocks |-> zeros]
    BY <2>2
  <2> HIDE DEF x
  <2>4. format(x) = blank
    <3>1. format(x) = [x EXCEPT !.tag = "BMFS", !.Directory = EmptyDirectory]
      BY DEF format
    <3>2. x \in [tag : {a}, Directory : {D}, blocks : {zeros}]
      BY <2>3
    <3> HIDE DEF last, m, system
    <3>3. format(x) \in [tag : {"BMFS"}, Directory : {EmptyDirectory}, blocks : {zeros}]
      BY <3>1, <3>2
    <3> QED BY <3>3
  <2> QED BY <2>4 DEF x
<1>4. c = IF Len(mbr) < SECTOR THEN blank ELSE [blank EXCEPT !.blocks[0] = system]
  <2> HIDE DEF blank, zeros, system
  <2>1. format([d EXCEPT !.blocks = [b \in 0..(amount - 1) |-> Zeros]]) = blank
    BY <1>3 DEF zeros
  <2> QED BY <2>1 DEF initialize, system
<1>5. zeros \in [0..last -> Seq(Nat)] /\ zeros[0] = Zeros /\ 0 \in 0..last
  BY <1>1, <1>2
<1>6. CASE Len(mbr) < SECTOR
  <2> HIDE DEF last, zeros
  <2>1. c = blank /\ c.Directory = EmptyDirectory /\ c.blocks[0] = Zeros /\ c \in Disks(last)
    BY <1>4, <1>5, <1>6, EmptyIs DEF Disks
  <2> QED BY <1>1, <2>1, FormattedIs
<1>7. CASE ~(Len(mbr) < SECTOR)
  <2>1. m \in Seq(Nat) /\ Len(m) = SECTOR
    BY <1>2, <1>7
  <2>2. system \in Seq(Nat)
    <3> HIDE DEF m
    <3> QED BY <1>2, <2>1
  <2> HIDE DEF last, zeros, system, m
  <2>3. c = [tag |-> "BMFS", Directory |-> EmptyDirectory, blocks |-> [zeros EXCEPT ![0] = system]]
    BY <1>4, <1>7
  <2>4. [zeros EXCEPT ![0] = system] \in [0..last -> Seq(Nat)] /\ [zeros EXCEPT ![0] = system][0] = system
    BY <1>5, <2>2
  <2>5. c.Directory = EmptyDirectory /\ c.tag = "BMFS" /\ c.blocks[0] = system /\ c \in Disks(last)
    BY <2>3, <2>4, EmptyIs DEF Disks
  <2>6. HoldsSystem(c.blocks[0], kernel)
    BY <2>1, <2>5 DEF system, HoldsSystem
  <2> QED BY <1>1, <2>5, <2>6, FormattedIs
<1> QED BY <1>6, <1>7
-----------------------------------------------------------------------------
(* The image                                                               *)

\* t[n] is the image up to the n-th of the files.
Building(t, kernel, files) ==
  /\ t \in [0..Len(files) -> Seq(Nat)] /\ t[0] = kernel \o <<Len(files)>>
  /\ \A n \in 1..Len(files) : t[n] = t[n - 1] \o <<Len(files[n])>> \o files[n]

\* buildImage goes through such images.
LEMMA ImageIsBuilt ==
  ASSUME NEW kernel \in Seq(Nat), NEW files \in Seq(Seq(Nat))
  PROVE  \E t : Building(t, kernel, files) /\ buildImage(kernel, files) = t[Len(files)]
<1> DEFINE N == Len(files)
           first == kernel \o <<N>>
           step == [p \in (1..N) \X Seq(Nat) |-> p[2] \o <<Len(files[p[1]])>> \o files[p[1]]]
           Is(t) == t = [n \in 0..N |-> IF n = 0 THEN first
                                        ELSE t[n - 1] \o <<Len(files[n])>> \o files[n]]
<1>1. N \in Nat /\ \A n \in 1..N : files[n] \in Seq(Nat) /\ <<Len(files[n])>> \in Seq(Nat)
  OBVIOUS
<1>2. first \in Seq(Nat)
  BY <1>1
<1>3. \A n \in 1..N : \A s \in Seq(Nat) : s \o <<Len(files[n])>> \o files[n] \in Seq(Nat)
  <2> SUFFICES ASSUME NEW n \in 1..N, NEW s \in Seq(Nat)
               PROVE  s \o <<Len(files[n])>> \o files[n] \in Seq(Nat)
    OBVIOUS
  <2> DEFINE one == <<Len(files[n])>>
             file == files[n]
  <2>1. one \in Seq(Nat) /\ file \in Seq(Nat)
    BY <1>1
  <2> HIDE DEF one, file
  <2>2. s \o one \o file \in Seq(Nat)
    BY <2>1
  <2> QED BY <2>2 DEF one, file
<1>4. step \in [(1..N) \X Seq(Nat) -> Seq(Nat)]
  BY <1>3
<1> HIDE DEF N, first
<1>5. PICK f : Iteration(f, N, Seq(Nat), first, step)
  <2> HIDE DEF step
  <2> QED BY <1>1, <1>2, <1>4, Iterates, Zenon
<1>6. /\ f \in [0..N -> Seq(Nat)] /\ f[0] = first
      /\ \A n \in 1..N : f[n] = f[n - 1] \o <<Len(files[n])>> \o files[n]
  <2>1. /\ f \in [0..N -> Seq(Nat)] /\ f[0] = first
        /\ \A n \in 1..N : f[n] = step[<<n, f[n - 1]>>]
    <3> HIDE DEF step
    <3> QED BY <1>5 DEF Iteration
  <2>2. ASSUME NEW n \in 1..N PROVE f[n] = f[n - 1] \o <<Len(files[n])>> \o files[n]
    <3>1. n - 1 \in 0..N
      BY <1>1
    <3>2. f[n] = step[<<n, f[n - 1]>>] /\ f[n - 1] \in Seq(Nat)
      <4> HIDE DEF step
      <4> QED BY <2>1, <3>1
    <3> QED BY <3>2
  <2> QED BY <2>1, <2>2
<1>7. Is(f)
  <2>1. f = [n \in 0..N |-> f[n]]
    BY <1>6
  <2>2. \A n \in 0..N : n # 0 => n \in 1..N
    BY <1>1
  <2>3. \A n \in 0..N : f[n] = IF n = 0 THEN first ELSE f[n - 1] \o <<Len(files[n])>> \o files[n]
    BY <1>6, <2>2
  <2> QED BY <2>1, <2>3
<1> DEFINE t == CHOOSE t : Is(t)
<1>8. Is(t)
  <2> HIDE DEF Is
  <2> QED BY <1>7
<1>9. buildImage(kernel, files) = t[N]
  BY DEF buildImage, N, first
<1> HIDE DEF t
<1>10. t[0] = first /\ \A n \in 1..N : t[n] = t[n - 1] \o <<Len(files[n])>> \o files[n]
  <2>1. /\ 0 \in 0..N /\ \A n \in 1..N : n \in 0..N /\ n # 0
    BY <1>1
  <2> QED BY <1>8, <2>1
<1>11. \A n \in 0..N : t[n] \in Seq(Nat)
  <2> DEFINE P == {n \in 0..N : t[n] \in Seq(Nat)}
  <2>1. 0 \in P
    BY <1>1, <1>2, <1>10
  <2>2. ASSUME NEW n \in 1..N, n - 1 \in P PROVE n \in P
    <3>1. t[n - 1] \in Seq(Nat)
      BY <2>2
    <3>2. t[n] \in Seq(Nat)
      BY <1>3, <1>10, <3>1
    <3> QED BY <1>1, <3>2
  <2> HIDE DEF P
  <2>3. \A n \in 0..N : n \in P
    BY <1>1, <2>1, <2>2, UpTo
  <2> QED BY <2>3 DEF P
<1>12. t \in [0..N -> Seq(Nat)]
  BY <1>8, <1>11
<1>13. Building(t, kernel, files)
  BY <1>10, <1>12 DEF Building, N, first
<1> QED BY <1>9, <1>13 DEF N

\* A module behind what has been built: its size, then its cells.
LEMMA Behind ==
  ASSUME NEW s \in Seq(Nat), NEW x \in Nat, NEW u \in Seq(Nat), NEW r, r = s \o <<x>> \o u
  PROVE  /\ Len(r) = Len(s) + 1 + Len(u)
         /\ \A a \in 1..Len(s) : r[a] = s[a]
         /\ r[Len(s) + 1] = x
         /\ \A k \in 1..Len(u) : r[Len(s) + 1 + k] = u[k]
<1> DEFINE v == s \o <<x>>
<1>1. <<x>> \in Seq(Nat) /\ Len(<<x>>) = 1 /\ <<x>>[1] = x
  OBVIOUS
<1>2. v \in Seq(Nat) /\ Len(v) = Len(s) + 1 /\ (\A a \in 1..Len(s) : v[a] = s[a])
      /\ v[Len(s) + 1] = x
  BY <1>1
<1> HIDE DEF v
<1>3. r = v \o u
  BY DEF v
<1>4. Len(r) = Len(v) + Len(u) /\ (\A a \in 1..Len(v) : r[a] = v[a])
      /\ \A k \in 1..Len(u) : r[Len(v) + k] = u[k]
  <2>1. Len(r) = Len(v) + Len(u)
    BY <1>2, <1>3
  <2>3. ASSUME NEW a \in 1..Len(v) PROVE r[a] = v[a]
    <3>1. v \in Seq(Nat) /\ u \in Seq(Nat)
      BY <1>2
    <3>2. (v \o u)[a] = v[a]
      BY <3>1
    <3> QED BY <1>3, <3>2
  <2>2. ASSUME NEW k \in 1..Len(u) PROVE r[Len(v) + k] = u[k]
    BY <1>2, <1>3
  <2> QED BY <2>1, <2>2, <2>3
<1>5. Len(s) \in Nat /\ Len(u) \in Nat
  OBVIOUS
<1>6. \A a \in 1..Len(s) : a \in 1..Len(v)
  BY <1>2, <1>5
<1>7. Len(s) + 1 \in 1..Len(v)
  BY <1>2, <1>5
<1> QED BY <1>2, <1>4, <1>5, <1>6, <1>7

\* What is in an image, and where: the size of the n-th of the files is behind t[n - 1].
HoldsFiles(image, kernel, files, t) ==
  /\ image \in Seq(Nat) /\ Len(t[0]) = Len(kernel) + 1 /\ Len(t[0]) <= Len(image)
  /\ \A a \in 1..Len(kernel) : image[a] = kernel[a]
  /\ image[Len(kernel) + 1] = Len(files)
  /\ \A n \in 1..Len(files) :
       /\ Len(t[n - 1]) \in Nat /\ Len(t[n]) = Len(t[n - 1]) + 1 + Len(files[n])
       /\ Len(t[n]) <= Len(image) /\ image[Len(t[n - 1]) + 1] = Len(files[n])
       /\ \A k \in 1..Len(files[n]) : image[Len(t[n - 1]) + 1 + k] = files[n][k]

\* The last of them has the kernel and every file, behind its size.
LEMMA ImageHas ==
  ASSUME NEW kernel \in Seq(Nat), NEW files \in Seq(Seq(Nat)), NEW t, Building(t, kernel, files),
         NEW image, image = t[Len(files)]
  PROVE  HoldsFiles(image, kernel, files, t)
<1> DEFINE N == Len(files)
           Begins(n, m) == Len(t[n]) <= Len(t[m]) /\ \A a \in 1..Len(t[n]) : t[m][a] = t[n][a]
<1>0. \A a, b, c \in Nat : c = a + 1 + b => a <= c /\ a + 1 <= c
  OBVIOUS
<1>1. N \in Nat /\ \A n \in 1..N : files[n] \in Seq(Nat) /\ Len(files[n]) \in Nat
  OBVIOUS
<1>2. /\ t[0] = kernel \o <<N>> /\ \A n \in 0..N : t[n] \in Seq(Nat) /\ Len(t[n]) \in Nat
      /\ \A n \in 1..N : t[n] = t[n - 1] \o <<Len(files[n])>> \o files[n]
  <2>1. \A n \in 0..N : t[n] \in Seq(Nat)
    BY DEF Building
  <2>2. \A n \in 0..N : Len(t[n]) \in Nat
    BY <2>1
  <2> QED BY <2>1, <2>2 DEF Building
<1>3. ASSUME NEW n \in 1..N
      PROVE  /\ n - 1 \in 0..N /\ n \in 0..N
             /\ Len(t[n]) = Len(t[n - 1]) + 1 + Len(files[n])
             /\ \A a \in 1..Len(t[n - 1]) : t[n][a] = t[n - 1][a]
             /\ t[n][Len(t[n - 1]) + 1] = Len(files[n])
             /\ \A k \in 1..Len(files[n]) : t[n][Len(t[n - 1]) + 1 + k] = files[n][k]
  <2> DEFINE s == t[n - 1]
             x == Len(files[n])
             u == files[n]
             r == t[n]
  <2>1. n - 1 \in 0..N /\ n \in 0..N
    BY <1>1
  <2>2. s \in Seq(Nat) /\ x \in Nat /\ u \in Seq(Nat) /\ r = s \o <<x>> \o u
    BY <1>1, <1>2, <2>1
  <2>3. x = Len(u)
    OBVIOUS
  <2> HIDE DEF s, x, u, r
  <2>4. /\ Len(r) = Len(s) + 1 + Len(u) /\ \A a \in 1..Len(s) : r[a] = s[a]
        /\ r[Len(s) + 1] = x /\ \A k \in 1..Len(u) : r[Len(s) + 1 + k] = u[k]
    BY <2>2, Behind
  <2> QED BY <2>1, <2>3, <2>4 DEF s, x, u, r
<1>4. ASSUME NEW n \in 0..N PROVE Begins(n, N)
  <2> DEFINE P == {m \in 0..N : m < n \/ Begins(n, m)}
  <2>1. 0 \in P
    BY <1>1, <1>2
  <2>2. ASSUME NEW m \in 1..N, m - 1 \in P PROVE m \in P
    <3>1. CASE m < n
      BY <1>1, <3>1
    <3>2. CASE m = n
      BY <1>1, <1>2, <3>2
    <3>3. CASE n < m
      <4>1. ~(m - 1 < n) /\ m - 1 \in 0..N /\ m \in 0..N
        BY <1>1, <3>3
      <4>2. Begins(n, m - 1)
        BY <2>2, <4>1
      <4>3. Len(t[m - 1]) <= Len(t[m]) /\ \A a \in 1..Len(t[m - 1]) : t[m][a] = t[m - 1][a]
        <5>1. Len(t[m]) = Len(t[m - 1]) + 1 + Len(files[m])
              /\ \A a \in 1..Len(t[m - 1]) : t[m][a] = t[m - 1][a]
          BY <1>3
        <5>2. Len(t[m - 1]) \in Nat /\ Len(t[m]) \in Nat /\ Len(files[m]) \in Nat
          BY <1>1, <1>2, <4>1
        <5>3. Len(t[m - 1]) <= Len(t[m])
          BY <1>0, <5>1, <5>2, Zenon
        <5> QED BY <5>1, <5>3
      <4>4. Len(t[n]) \in Nat /\ Len(t[m - 1]) \in Nat /\ Len(t[m]) \in Nat
        BY <1>2, <4>1
      <4>5. Begins(n, m)
        <5>1. Len(t[n]) <= Len(t[m])
          BY <4>2, <4>3, <4>4
        <5>2. ASSUME NEW a \in 1..Len(t[n]) PROVE t[m][a] = t[n][a]
          <6>1. a \in 1..Len(t[m - 1])
            BY <4>2, <4>4
          <6> QED BY <4>2, <4>3, <6>1
        <5> QED BY <5>1, <5>2
      <4> QED BY <4>1, <4>5
    <3> QED BY <1>1, <3>1, <3>2, <3>3
  <2> HIDE DEF P
  <2>3. \A m \in 0..N : m \in P
    BY <1>1, <2>1, <2>2, UpTo
  <2>4. N \in P /\ ~(N < n)
    BY <1>1, <2>3
  <2> QED BY <2>4 DEF P
<1>5. /\ Len(t[0]) = Len(kernel) + 1 /\ t[0][Len(kernel) + 1] = N
      /\ \A a \in 1..Len(kernel) : t[0][a] = kernel[a]
  <2>1. <<N>> \in Seq(Nat) /\ Len(<<N>>) = 1 /\ <<N>>[1] = N
    BY <1>1
  <2> HIDE DEF N
  <2> QED BY <1>2, <2>1
<1>6. 0 \in 0..N /\ N \in 0..N /\ image = t[N] /\ image \in Seq(Nat) /\ Len(kernel) \in Nat
  BY <1>1, <1>2
<1>7. Len(t[0]) <= Len(image) /\ \A a \in 1..Len(t[0]) : image[a] = t[0][a]
  BY <1>4, <1>6
<1> HIDE DEF N, Begins
<1>8. \A a \in 1..Len(kernel) : image[a] = kernel[a]
  <2>1. \A a \in 1..Len(kernel) : a \in 1..Len(t[0])
    BY <1>5, <1>6
  <2> QED BY <1>5, <1>7, <2>1
<1>9. image[Len(kernel) + 1] = N
  <2>1. Len(kernel) + 1 \in 1..Len(t[0])
    BY <1>5, <1>6
  <2> QED BY <1>5, <1>7, <2>1
<1>10. ASSUME NEW n \in 1..N
       PROVE  /\ Len(t[n - 1]) \in Nat /\ Len(t[n]) = Len(t[n - 1]) + 1 + Len(files[n])
              /\ Len(t[n]) <= Len(image) /\ image[Len(t[n - 1]) + 1] = Len(files[n])
              /\ \A k \in 1..Len(files[n]) : image[Len(t[n - 1]) + 1 + k] = files[n][k]
  <2> DEFINE at == Len(t[n - 1])
  <2>1. /\ n - 1 \in 0..N /\ n \in 0..N /\ Len(t[n]) = at + 1 + Len(files[n])
        /\ t[n][at + 1] = Len(files[n])
        /\ \A k \in 1..Len(files[n]) : t[n][at + 1 + k] = files[n][k]
    BY <1>3
  <2>2. at \in Nat /\ Len(t[n]) \in Nat /\ Len(files[n]) \in Nat
    BY <1>1, <1>2, <2>1
  <2>3. Len(t[n]) <= Len(image) /\ \A a \in 1..Len(t[n]) : image[a] = t[n][a]
    BY <1>4, <1>6, <2>1 DEF Begins
  <2> HIDE DEF at
  <2>4. at + 1 \in 1..Len(t[n])
    <3>1. Len(t[n]) = at + 1 + Len(files[n])
      BY <2>1
    <3>2. at + 1 <= Len(t[n])
      BY <1>0, <2>2, <3>1, Zenon
    <3> QED BY <2>2, <3>2
  <2>5. ASSUME NEW k \in 1..Len(files[n]) PROVE image[at + 1 + k] = files[n][k]
    <3>1. at + 1 + k \in 1..Len(t[n])
      BY <2>1, <2>2
    <3>2. t[n][at + 1 + k] = files[n][k]
      BY <2>1
    <3> QED BY <2>3, <3>1, <3>2
  <2> QED BY <2>1, <2>2, <2>3, <2>4, <2>5 DEF at
<1> QED BY <1>5, <1>6, <1>7, <1>8, <1>9, <1>10 DEF N, HoldsFiles

\* And so has what buildImage makes.
LEMMA ImageContains ==
  ASSUME NEW kernel \in Seq(Nat), NEW files \in Seq(Seq(Nat))
  PROVE  \E t : HoldsFiles(buildImage(kernel, files), kernel, files, t)
<1>1. PICK t : Building(t, kernel, files) /\ buildImage(kernel, files) = t[Len(files)]
  BY ImageIsBuilt
<1>2. HoldsFiles(buildImage(kernel, files), kernel, files, t)
  BY <1>1, ImageHas
<1> QED BY <1>2
-----------------------------------------------------------------------------
(* The image in memory                                                     *)

\* What SubSeq takes from the end of two sequences in a row is the second of them.
EndsWith(q, image) ==
  /\ Len(q \o image) = Len(q) + Len(image)
  /\ Len(SubSeq(q \o image, Len(q) + 1, Len(q \o image))) = Len(image)
  /\ \A a \in 1..Len(image) : SubSeq(q \o image, Len(q) + 1, Len(q \o image))[a] = image[a]

\* The end of two sequences in a row.
LEMMA EndOfBoth ==
  ASSUME NEW T, NEW q, NEW image, q \in Seq(T), image \in Seq(T)
  PROVE  EndsWith(q, image)
<1> DEFINE S == Len(q)
           n == Len(image)
           b == q \o image
           sub == SubSeq(b, S + 1, Len(b))
<1>0. S \in Nat /\ n \in Nat
  OBVIOUS
<1>1. /\ b \in Seq(T) /\ Len(b) = S + n
      /\ \A i \in 1..(S + n) : b[i] = IF i <= S THEN q[i] ELSE image[i - S]
  BY ConcatProperties
<1> HIDE DEF S, n, b
<1>2. \A i \in (S + 1)..(S + n) : i \in 1..(S + n)
  BY <1>0
<1>3. S + 1 \in Int /\ S + n \in Int /\ \A i \in (S + 1)..(S + n) : b[i] \in T
  <2>1. ASSUME NEW i \in (S + 1)..(S + n) PROVE b[i] \in T
    <3>1. i \in 1..(S + n)
      BY <1>2
    <3> QED BY <1>1, <3>1
  <2>2. S + 1 \in Int /\ S + n \in Int
    BY <1>0
  <2> QED BY <2>1, <2>2, Zenon
<1>4. /\ sub \in Seq(T) /\ Len(sub) = IF S + 1 <= S + n THEN (S + n) - (S + 1) + 1 ELSE 0
      /\ \A i \in 1..((S + n) - (S + 1) + 1) : sub[i] = b[(S + 1) + i - 1]
  <2> DEFINE lo == S + 1
             hi == S + n
  <2>1. sub = SubSeq(b, lo, hi)
    BY <1>1
  <2>2. lo \in Int /\ hi \in Int /\ \A i \in lo..hi : b[i] \in T
    BY <1>3
  <2> HIDE DEF lo, hi
  <2>3. /\ sub \in Seq(T) /\ Len(sub) = IF lo <= hi THEN hi - lo + 1 ELSE 0
        /\ \A i \in 1..(hi - lo + 1) : sub[i] = b[lo + i - 1]
    <3> DEFINE Is(j, k) == /\ SubSeq(b, j, k) \in Seq(T)
                           /\ Len(SubSeq(b, j, k)) = IF j <= k THEN k - j + 1 ELSE 0
                           /\ \A i \in 1..(k - j + 1) : SubSeq(b, j, k)[i] = b[j + i - 1]
    <3>1. ASSUME NEW j \in Int, NEW k \in Int, \A i \in j..k : b[i] \in T PROVE Is(j, k)
      BY <3>1, SubSeqProperties
    <3> HIDE DEF Is
    <3>2. Is(lo, hi)
      BY <2>2, <3>1, Zenon
    <3> QED BY <2>1, <3>2, Zenon DEF Is
  <2> QED BY <2>3 DEF lo, hi
<1> HIDE DEF sub
<1>5. Len(sub) = n
  BY <1>0, <1>4
<1>6. ASSUME NEW a \in 1..n PROVE sub[a] = image[a]
  <2>1. a \in 1..((S + n) - (S + 1) + 1) /\ (S + 1) + a - 1 = S + a
    BY <1>0
  <2>2. S + a \in 1..(S + n) /\ ~(S + a <= S) /\ (S + a) - S = a
    BY <1>0
  <2>3. sub[a] = b[S + a]
    BY <1>4, <2>1
  <2>4. b[S + a] = image[(S + a) - S]
    BY <1>1, <2>2
  <2> QED BY <2>2, <2>3, <2>4
<1>7. Len(b) = S + n /\ Len(sub) = n /\ \A a \in 1..n : sub[a] = image[a]
  BY <1>1, <1>5, <1>6
<1> QED BY <1>7, Zenon DEF S, n, b, sub, EndsWith

\* The image is what memory begins with, as far as memory goes.
CarriedTo(mem, image) ==
  /\ DOMAIN mem = 0..(endOfMemory - 1)
  /\ \A a \in 0..(endOfMemory - 1) : a < Len(image) => mem[a] = image[a + 1]

\* In front of the kernel the disk has the boot record and the loader: what is jumped
\* to is the image, when all of it was loaded, whatever the rest of the memory holds.
LEMMA PayloadIs ==
  ASSUME NEW d, NEW image \in Seq(Nat), HoldsSystem(d.blocks[0], image),
         Len(PURE64) + Len(image) <= LOADED, NEW M0
  PROVE  CarriedTo(Payload(d, M0), image)
<1>0. PICK m \in Seq(Nat) : Len(m) = SECTOR /\ d.blocks[0] = m \o PURE64 \o image
  BY DEF HoldsSystem
<1> DEFINE q == m \o PURE64
           S == Len(q)
           n == Len(image)
           L == Len(PURE64)
           b == d.blocks[0]
           cells == loadSectors(d)
           P == Payload(d, M0)
<1>1. PURE64 \in Seq(Nat) /\ L \in Nat /\ SECTOR \in Nat /\ LOADED \in Nat /\ endOfMemory \in Nat
  BY FilesAssumption, LayoutAssumption, BmfsAssumption
<1>2. q \in Seq(Nat) /\ S = SECTOR + L /\ S \in Nat /\ n \in Nat
  <2>1. q \in Seq(Nat) /\ Len(q) = Len(m) + Len(PURE64)
    BY <1>1, ConcatProperties
  <2> HIDE DEF q
  <2> QED BY <1>0, <1>1, <2>1
<1>3. b = q \o image /\ L + n <= LOADED
  BY <1>0
<1>4. Len(b) = S + n /\ \A i \in (S + 1)..(S + n) : b[i] = image[i - S]
  <2> HIDE DEF b, q
  <2>1. S = Len(q) /\ n = Len(image) /\ image \in Seq(Nat) /\ q \in Seq(Nat)
    BY <1>2
  <2> QED BY <1>3, <2>1
<1>5. cells = [a \in 0..(LOADED - 1) |-> IF SECTOR + a + 1 <= Len(b) THEN b[SECTOR + a + 1] ELSE 0]
  BY DEF loadSectors
<1>6. P = [a \in 0..(endOfMemory - 1) |-> IF L + a < LOADED THEN cells[L + a] ELSE M0[a]]
  BY DEF Payload
<1> HIDE DEF q, S, n, b, L, cells, P
<1>7. ASSUME NEW a \in 0..(endOfMemory - 1), a < n PROVE P[a] = image[a + 1]
  <2>1. a \in Nat /\ a + 1 \in 1..n /\ L + a < LOADED /\ L + a \in 0..(LOADED - 1)
    BY <1>1, <1>2, <1>3, <1>7
  <2>2. P[a] = cells[L + a]
    BY <1>6, <2>1
  <2>3. SECTOR + (L + a) + 1 = S + a + 1 /\ S + a + 1 \in (S + 1)..(S + n) /\ S + a + 1 <= S + n
    BY <1>1, <1>2, <1>7, <2>1
  <2>4. cells[L + a] = b[S + a + 1]
    BY <1>4, <1>5, <2>1, <2>3
  <2>5. b[S + a + 1] = image[a + 1]
    <3>1. PICK i \in (S + 1)..(S + n) : i = S + a + 1
      BY <2>3
    <3>2. b[i] = image[i - S]
      BY <1>4
    <3>3. i - S = a + 1
      BY <1>2, <2>1, <3>1
    <3> QED BY <3>1, <3>2, <3>3
  <2> QED BY <2>2, <2>4, <2>5
<1>8. DOMAIN P = 0..(endOfMemory - 1)
  BY <1>6
<1> QED BY <1>7, <1>8 DEF P, n, CarriedTo

\* f holds what n turns of the loop that loads modules come to, from b on.
Loads(f, n, b, A) == f = [i \in 0..n |-> IF i = 0 THEN b ELSE loadModule(f[i - 1], A[i])]

\* The loop comes to something, whatever it finds in memory.
LEMMA LoadsExist ==
  ASSUME NEW n \in Nat, NEW b, NEW A
  PROVE  \E f : Loads(f, n, b, A)
<1> DEFINE Is(f, k) == f = [i \in 0..k |-> IF i = 0 THEN b ELSE loadModule(f[i - 1], A[i])]
           P == {k \in 0..n : \E f : Is(f, k)}
<1>1. 0 \in P
  <2>1. Is([i \in 0..0 |-> b], 0)
    OBVIOUS
  <2> HIDE DEF Is
  <2> QED BY <2>1
<1>2. ASSUME NEW k \in 1..n, k - 1 \in P PROVE k \in P
  <2>1. PICK f : Is(f, k - 1)
    BY <1>2
  <2> DEFINE g == [i \in 0..k |-> IF i = k THEN loadModule(f[k - 1], A[k]) ELSE f[i]]
  <2>2. \A i \in 0..k : i # k => i \in 0..(k - 1) /\ (i # 0 => i - 1 \in 0..k /\ i - 1 # k)
    OBVIOUS
  <2>3. k - 1 \in 0..k /\ k - 1 # k /\ k # 0 /\ g[k - 1] = f[k - 1]
    OBVIOUS
  <2>4. \A i \in 0..k : i # k => f[i] = IF i = 0 THEN b ELSE loadModule(f[i - 1], A[i])
    BY <2>1, <2>2
  <2>5. ASSUME NEW i \in 0..k
        PROVE  g[i] = IF i = 0 THEN b ELSE loadModule(g[i - 1], A[i])
    <3>1. CASE i = k
      BY <2>3, <3>1
    <3>2. CASE i # k
      <4>1. g[i] = f[i] /\ (i # 0 => g[i - 1] = f[i - 1])
        BY <2>2, <3>2
      <4> QED BY <2>4, <3>2, <4>1
    <3> QED BY <3>1, <3>2
  <2>6. g = [i \in 0..k |-> g[i]]
    OBVIOUS
  <2> HIDE DEF g
  <2>7. Is(g, k)
    BY <2>5, <2>6
  <2> HIDE DEF Is
  <2> QED BY <2>7
<1> HIDE DEF P
<1>3. \A k \in 0..n : k \in P
  BY <1>1, <1>2, UpTo
<1>4. n \in P
  BY <1>3
<1> QED BY <1>4 DEF P, Loads

\* The module at which the loop stands consists of cells, and there is room for them.
Ready(l, to, cells) ==
  /\ to \in Nat /\ Len(cells) \in Nat /\ l.at \in Nat
  /\ DOMAIN l.mem = 0..(endOfMemory - 1)
  /\ l.at + 1 + Len(cells) <= to /\ to + Len(cells) <= endOfMemory
  /\ l.mem[l.at] = Len(cells) /\ \A k \in 1..Len(cells) : l.mem[l.at + k] = cells[k]

\* They have been copied, and nothing else.
Copied(l, to, cells, r) ==
  /\ r.at = l.at + 1 + Len(cells) /\ DOMAIN r.mem = 0..(endOfMemory - 1)
  /\ \A a \in 0..(endOfMemory - 1) : a < to \/ to + Len(cells) <= a => r.mem[a] = l.mem[a]
  /\ \A k \in 1..Len(cells) : r.mem[to + k - 1] = cells[k]

\* loadModule copies the cells behind a size to their address.
LEMMA ModuleIsLoaded ==
  ASSUME NEW l, NEW to, NEW cells, Ready(l, to, cells), NEW r, r = loadModule(l, to)
  PROVE  Copied(l, to, cells, r)
<1> DEFINE n == Len(cells)
           at == l.at
           mem == l.mem
           M == endOfMemory
<1>1. n \in Nat /\ at \in Nat /\ to \in Nat /\ M \in Nat
  BY LayoutAssumption DEF Ready
<1>2. /\ DOMAIN mem = 0..(M - 1) /\ at + 1 + n <= to /\ to + n <= M /\ mem[at] = n
      /\ \A k \in 1..n : mem[at + k] = cells[k]
  BY DEF Ready
<1>3. r = [mem |-> memcpy(mem, to, at + 1, n), at |-> at + 1 + n]
  BY DEF loadModule, Ready
<1> HIDE DEF n, at, mem, M
<1>4. r.at = at + 1 + n
  BY <1>3
<1>5. r.mem = [a \in 0..(M - 1) |-> IF a \in to..(to + n - 1) THEN mem[a - to + (at + 1)] ELSE mem[a]]
  BY <1>2, <1>3 DEF memcpy
<1>6. ASSUME NEW a \in 0..(M - 1), a < to \/ to + n <= a PROVE r.mem[a] = mem[a]
  <2>1. a \notin to..(to + n - 1)
    BY <1>1, <1>6
  <2> QED BY <1>5, <2>1
<1>7. ASSUME NEW k \in 1..n PROVE r.mem[to + k - 1] = cells[k]
  <2> DEFINE a == to + k - 1
  <2>1. a \in 0..(M - 1) /\ a \in to..(to + n - 1) /\ a - to + (at + 1) = at + k
    BY <1>1, <1>2
  <2> HIDE DEF a
  <2>2. r.mem[a] = mem[at + k]
    BY <1>5, <2>1
  <2> QED BY <1>2, <2>2 DEF a
<1> QED BY <1>4, <1>5, <1>6, <1>7 DEF n, at, mem, M, Copied

\* An image fits that is loaded as a whole.
FitsIn(files) == Len(PURE64) + Len(buildImage(Kernel, files)) <= LOADED

\* Where the modules of such an image go: behind the kernel and behind each other.
LEMMA AddressesOf ==
  ASSUME NEW files \in Modules, FitsIn(files)
  PROVE  /\ files \in Seq(Seq(Nat)) /\ moduleAddresses[1] \in Nat
         /\ Len(buildImage(Kernel, files)) <= moduleAddresses[1]
         /\ \A i \in 1..Len(files) :
              /\ moduleAddresses[i] \in Nat /\ moduleAddresses[1] <= moduleAddresses[i]
              /\ moduleAddresses[i] + Len(files[i]) <= endOfMemory
              /\ files[i] \in Seq(Nat) /\ Len(files[i]) \in Nat
         /\ \A i, j \in 1..Len(files) : i < j =>
              moduleAddresses[i] + Len(files[i]) <= moduleAddresses[j]
<1> DEFINE N == Len(files)
           A == moduleAddresses
<1>1. files \in Seq(Seq(Nat)) /\ N \in Nat /\ Kernel \in Seq(Nat) /\ Len(PURE64) \in Nat
  BY FilesAssumption
<1>2. \A i \in 1..N : files[i] \in Seq(Nat) /\ Len(files[i]) \in Nat
  BY <1>1
<1>3. /\ A \in Seq(Nat) /\ Len(A) \in Nat \ {0} /\ A[1] \in Nat /\ LOADED \in Nat
      /\ LOADED - Len(PURE64) <= A[1]
  BY LayoutAssumption
<1>4. /\ N <= Len(A)
      /\ \A i \in 1..N : /\ A[i] + Len(files[i]) <= endOfMemory
                         /\ \A j \in (i + 1)..N : A[i] + Len(files[i]) <= A[j]
  BY ModulesAssumption DEF FitsIn
<1>5. \A i \in 1..N : A[i] \in Nat
  BY <1>1, <1>3, <1>4
<1>6. Len(buildImage(Kernel, files)) <= A[1]
  <2>1. PICK t : HoldsFiles(buildImage(Kernel, files), Kernel, files, t)
    BY <1>1, ImageContains
  <2>2. buildImage(Kernel, files) \in Seq(Nat)
    BY <2>1 DEF HoldsFiles
  <2> DEFINE L == Len(buildImage(Kernel, files))
  <2>3. L \in Nat /\ Len(PURE64) + L <= LOADED
    BY <2>2 DEF FitsIn
  <2> HIDE DEF L
  <2>4. L <= A[1]
    BY <1>1, <1>3, <2>3
  <2> QED BY <2>4 DEF L
<1> HIDE DEF N, A
<1>7. ASSUME NEW i \in 1..N, NEW j \in 1..N, i < j PROVE A[i] + Len(files[i]) <= A[j]
  <2>1. j \in (i + 1)..N
    BY <1>1, <1>7
  <2> QED BY <1>4, <2>1
<1>8. ASSUME NEW i \in 1..N PROVE A[1] <= A[i]
  <2>1. CASE i = 1
    BY <1>3, <2>1
  <2>2. CASE i # 1
    <3>1. 1 \in 1..N /\ 1 < i
      BY <1>1, <2>2
    <3>2. A[1] + Len(files[1]) <= A[i]
      BY <1>7, <3>1
    <3>3. A[1] \in Nat /\ A[i] \in Nat /\ Len(files[1]) \in Nat
      BY <1>2, <1>3, <1>5, <3>1 DEF N
    <3> QED BY <3>2, <3>3
  <2> QED BY <2>1, <2>2
<1> QED BY <1>1, <1>2, <1>3, <1>4, <1>5, <1>6, <1>7, <1>8 DEF N, A

\* The image is in memory, from the address of the kernel on.
Brought(mem, image) ==
  DOMAIN mem = 0..(endOfMemory - 1) /\ \A a \in 0..(Len(image) - 1) : mem[a] = image[a + 1]

\* The files are at the addresses of the modules.
Arrived(mem, files) ==
  \A i \in 1..Len(files) : \A k \in 1..Len(files[i]) :
    mem[moduleAddresses[i] + k - 1] = files[i][k]

\* The loop brings every module to its address, and touches nothing in front of the first.
LEMMA ModulesAreLoaded ==
  ASSUME NEW files, files \in Modules, FitsIn(files),
         NEW mem, Brought(mem, buildImage(Kernel, files)), NEW r, r = loadModules(mem)
  PROVE  /\ DOMAIN r = 0..(endOfMemory - 1)
         /\ \A a \in 0..(moduleAddresses[1] - 1) : r[a] = mem[a]
         /\ Arrived(r, files)
<1> DEFINE image == buildImage(Kernel, files)
           N == Len(files)
           A == moduleAddresses
           M == endOfMemory
           L == Len(image)
<1>1. /\ files \in Seq(Seq(Nat)) /\ A[1] \in Nat /\ L <= A[1]
      /\ \A i \in 1..N : /\ A[i] \in Nat /\ A[1] <= A[i] /\ A[i] + Len(files[i]) <= M
                         /\ files[i] \in Seq(Nat) /\ Len(files[i]) \in Nat
      /\ \A i, j \in 1..N : i < j => A[i] + Len(files[i]) <= A[j]
  BY AddressesOf
<1>2. N \in Nat /\ M \in Nat /\ Kernel \in Seq(Nat) /\ Len(Kernel) \in Nat
  BY <1>1, LayoutAssumption, FilesAssumption
<1>3. PICK t : HoldsFiles(image, Kernel, files, t)
  BY <1>1, <1>2, ImageContains
<1> HIDE DEF image
<1>4. /\ image \in Seq(Nat) /\ Len(t[0]) = Len(Kernel) + 1 /\ Len(t[0]) <= L
      /\ image[Len(Kernel) + 1] = N
      /\ \A n \in 1..N :
           /\ Len(t[n - 1]) \in Nat /\ Len(t[n]) = Len(t[n - 1]) + 1 + Len(files[n])
           /\ Len(t[n]) <= L /\ image[Len(t[n - 1]) + 1] = Len(files[n])
           /\ \A k \in 1..Len(files[n]) : image[Len(t[n - 1]) + 1 + k] = files[n][k]
  BY <1>3 DEF HoldsFiles
<1>5. L \in Nat /\ DOMAIN mem = 0..(M - 1) /\ \A a \in 0..(L - 1) : mem[a] = image[a + 1]
  BY <1>4 DEF Brought, image
<1> DEFINE b == [mem |-> mem, at |-> Len(Kernel) + 1]
           Is(f) == Loads(f, N, b, A)
           after == CHOOSE f : Is(f)
<1> HIDE DEF N, A, M, L
<1>6. mem[endOfKernelBinary] = N
  <2>1. Len(Kernel) \in 0..(L - 1)
    BY <1>2, <1>4, <1>5
  <2> QED BY <1>4, <1>5, <2>1 DEF endOfKernelBinary
<1>7. r = after[N].mem
  <2>1. r = loadModules(mem)
    OBVIOUS
  <2> QED BY <1>6, <2>1 DEF loadModules, Loads, A, endOfKernelBinary
<1> HIDE DEF b
<1>8. Is(after)
  <2>1. \E f : Is(f)
    BY <1>2, LoadsExist, Zenon
  <2> HIDE DEF Is
  <2> QED BY <2>1
<1> HIDE DEF after
<1>9. after[0] = b /\ \A i \in 1..N : after[i] = loadModule(after[i - 1], A[i])
  <2>1. 0 \in 0..N /\ \A i \in 1..N : i \in 0..N /\ i # 0
    BY <1>2
  <2> QED BY <1>8, <2>1 DEF Loads
<1> DEFINE Loaded(i, l) ==
             /\ l.at = Len(t[i]) /\ DOMAIN l.mem = 0..(M - 1)
             /\ \A a \in 0..(A[1] - 1) : l.mem[a] = mem[a]
             /\ \A j \in 1..N : j <= i =>
                  \A k \in 1..Len(files[j]) : l.mem[A[j] + k - 1] = files[j][k]
           P == {i \in 0..N : Loaded(i, after[i])}
<1>10. 0 \in P
  <2>1. b.at = Len(t[0]) /\ b.mem = mem
    BY <1>4 DEF b
  <2>2. DOMAIN mem = 0..(M - 1)
    BY <1>5
  <2>3. \A j \in 1..N : ~(j <= 0)
    BY <1>2
  <2>4. Loaded(0, after[0])
    BY <1>9, <2>1, <2>2, <2>3
  <2> HIDE DEF Loaded
  <2> QED BY <1>2, <2>4
<1>11. ASSUME NEW i \in 1..N, i - 1 \in P PROVE i \in P
  <2> DEFINE l == after[i - 1]
             x == after[i]
             n == Len(files[i])
             at == Len(t[i - 1])
             to == A[i]
  <2>1. Loaded(i - 1, l)
    BY <1>11
  <2>2. /\ at \in Nat /\ Len(t[i]) = at + 1 + n /\ at + 1 + n <= L
        /\ image[at + 1] = n /\ \A k \in 1..n : image[at + 1 + k] = files[i][k]
    BY <1>4
  <2>3. to \in Nat /\ A[1] <= to /\ to + n <= M /\ n \in Nat /\ A[1] \in Nat /\ L <= A[1]
    BY <1>1
  <2>4. x = loadModule(l, to)
    BY <1>9
  <2>5. l.at = at /\ DOMAIN l.mem = 0..(M - 1) /\ \A a \in 0..(A[1] - 1) : l.mem[a] = mem[a]
    BY <2>1
  <2>6. \A j \in 1..N : j <= i - 1 =>
          \A k \in 1..Len(files[j]) : l.mem[A[j] + k - 1] = files[j][k]
    BY <2>1
  <2>7. files[i] \in Seq(Nat) /\ n = Len(files[i])
    BY <1>1
  <2> HIDE DEF l, x, n, at, to, P
  <2>8. l.mem[at] = n
    <3>1. at \in 0..(L - 1) /\ at \in 0..(A[1] - 1)
      BY <1>5, <2>2, <2>3
    <3> QED BY <1>5, <2>2, <2>5, <3>1
  <2>9. ASSUME NEW k \in 1..n PROVE l.mem[at + k] = files[i][k]
    <3> DEFINE a == at + k
    <3>1. a \in 0..(L - 1) /\ a \in 0..(A[1] - 1) /\ a + 1 = at + 1 + k
      BY <1>5, <2>2, <2>3
    <3> HIDE DEF a
    <3>2. l.mem[a] = image[at + 1 + k]
      BY <1>5, <2>5, <3>1
    <3> QED BY <2>2, <3>2 DEF a
  <2>10. /\ x.at = at + 1 + n /\ DOMAIN x.mem = 0..(M - 1)
         /\ \A a \in 0..(M - 1) : a < to \/ to + n <= a => x.mem[a] = l.mem[a]
         /\ \A k \in 1..n : x.mem[to + k - 1] = files[i][k]
    <3> DEFINE cells == files[i]
    <3>1. Len(cells) \in Nat /\ n = Len(cells) /\ to \in Nat
      BY <2>3, <2>7
    <3> HIDE DEF cells
    <3>2. at + 1 + n <= to
      BY <1>5, <2>2, <2>3
    <3>3. /\ DOMAIN l.mem = 0..(M - 1) /\ l.at \in Nat /\ l.at + 1 + Len(cells) <= to
          /\ to + Len(cells) <= M /\ l.mem[l.at] = Len(cells)
          /\ \A k \in 1..Len(cells) : l.mem[l.at + k] = cells[k]
      BY <2>2, <2>3, <2>5, <2>8, <2>9, <3>1, <3>2 DEF cells
    <3>4. /\ x.at = l.at + 1 + Len(cells) /\ DOMAIN x.mem = 0..(M - 1)
          /\ \A a \in 0..(M - 1) : a < to \/ to + Len(cells) <= a => x.mem[a] = l.mem[a]
          /\ \A k \in 1..Len(cells) : x.mem[to + k - 1] = cells[k]
      <4>1. Ready(l, to, cells)
        BY <3>1, <3>3 DEF M, Ready
      <4>2. Copied(l, to, cells, x)
        BY <2>4, <4>1, ModuleIsLoaded
      <4> QED BY <4>2 DEF M, Copied
    <3> QED BY <2>5, <3>1, <3>4 DEF cells
  <2>11. \A a \in 0..(A[1] - 1) : x.mem[a] = mem[a]
    <3> SUFFICES ASSUME NEW a \in 0..(A[1] - 1) PROVE x.mem[a] = mem[a]
      OBVIOUS
    <3>1. a \in 0..(M - 1) /\ a < to
      BY <1>2, <2>3
    <3> QED BY <2>5, <2>10, <3>1
  <2>12. ASSUME NEW j \in 1..N, j <= i, NEW k \in 1..Len(files[j])
         PROVE  x.mem[A[j] + k - 1] = files[j][k]
    <3>1. CASE j = i
      BY <2>7, <2>10, <3>1 DEF to
    <3>2. CASE j # i
      <4> DEFINE a == A[j] + k - 1
      <4>1. j <= i - 1 /\ j < i
        BY <1>2, <2>12, <3>2
      <4>2. A[j] \in Nat /\ A[j] + Len(files[j]) <= to /\ Len(files[j]) \in Nat
        BY <1>1, <4>1 DEF to
      <4>3. a \in 0..(M - 1) /\ a < to
        BY <1>2, <2>3, <4>2
      <4>4. l.mem[a] = files[j][k]
        BY <2>6, <4>1
      <4> HIDE DEF a
      <4>5. x.mem[a] = files[j][k]
        BY <2>10, <4>3, <4>4
      <4> QED BY <4>5 DEF a
    <3> QED BY <3>1, <3>2
  <2>13. Loaded(i, x)
    BY <2>2, <2>10, <2>11, <2>12
  <2> HIDE DEF Loaded
  <2>14. i \in 0..N
    BY <1>2
  <2> QED BY <2>13, <2>14 DEF P, x
<1> HIDE DEF P
<1>12. \A i \in 0..N : i \in P
  BY <1>2, <1>10, <1>11, UpTo
<1>13. Loaded(N, after[N])
  <2>1. N \in P
    BY <1>2, <1>12
  <2> HIDE DEF Loaded
  <2> QED BY <2>1 DEF P
<1>14. \A j \in 1..N : j <= N
  BY <1>2
<1> QED BY <1>7, <1>13, <1>14 DEF N, A, M, Arrived

\* What a disk with an image of the files brings to memory: the modules at their
\* addresses, the kernel, and a bss that is clear.
LEMMA ModulesAreThere ==
  ASSUME NEW files, files \in Modules, FitsIn(files),
         NEW d, HoldsSystem(d.blocks[0], buildImage(Kernel, files)),
         NEW M0, NEW mem, mem = initializeKernelBinary(Payload(d, M0))
  PROVE  /\ Arrived(mem, files)
         /\ \A a \in 1..Len(Kernel) : mem[a - 1] = Kernel[a]
         /\ \A a \in bss..(endOfKernel - 1) : mem[a] = 0
<1> DEFINE image == buildImage(Kernel, files)
           before == Payload(d, M0)
           r == loadModules(before)
           M == endOfMemory
           A == moduleAddresses
<1>1. /\ files \in Seq(Seq(Nat)) /\ A[1] \in Nat /\ Len(image) <= A[1]
      /\ \A i \in 1..Len(files) : /\ A[i] \in Nat /\ A[1] <= A[i] /\ A[i] + Len(files[i]) <= M
                                  /\ Len(files[i]) \in Nat
  BY AddressesOf
<1>2. /\ Kernel \in Seq(Nat) /\ Len(Kernel) \in Nat /\ M \in Nat /\ bss \in Nat /\ endOfKernel \in Nat
      /\ Len(Kernel) <= bss /\ bss <= endOfKernel /\ endOfKernel <= A[1] /\ A[1] <= M
  <2>1. Kernel \in Seq(Nat) /\ Len(Kernel) \in Nat
    BY FilesAssumption
  <2> QED BY <2>1, LayoutAssumption DEF endOfKernelBinary
<1>3. PICK t : HoldsFiles(image, Kernel, files, t)
  BY <1>1, <1>2, ImageContains
<1>4. /\ image \in Seq(Nat) /\ Len(image) \in Nat /\ Len(Kernel) + 1 <= Len(image)
      /\ \A a \in 1..Len(Kernel) : image[a] = Kernel[a]
  BY <1>3 DEF HoldsFiles
<1>5. /\ DOMAIN before = 0..(M - 1)
      /\ \A a \in 0..(M - 1) : a < Len(image) => before[a] = image[a + 1]
  <2>1. Len(PURE64) + Len(image) <= LOADED
    BY DEF FitsIn
  <2>2. image \in Seq(Nat) /\ HoldsSystem(d.blocks[0], image)
    BY <1>4
  <2> HIDE DEF image, M
  <2>3. CarriedTo(Payload(d, M0), image)
    BY <2>1, <2>2, PayloadIs
  <2> HIDE DEF before
  <2>4. CarriedTo(before, image)
    BY <2>3 DEF before
  <2> QED BY <2>4 DEF M, CarriedTo
<1> HIDE DEF image, before, M, A
<1>6. \A a \in 0..(Len(image) - 1) : before[a] = image[a + 1]
  <2> SUFFICES ASSUME NEW a \in 0..(Len(image) - 1) PROVE before[a] = image[a + 1]
    OBVIOUS
  <2>1. a \in 0..(M - 1) /\ a < Len(image)
    BY <1>1, <1>2, <1>4
  <2> QED BY <1>5, <2>1
<1>7. /\ DOMAIN r = 0..(M - 1) /\ \A a \in 0..(A[1] - 1) : r[a] = before[a]
      /\ \A i \in 1..Len(files) : \A k \in 1..Len(files[i]) : r[A[i] + k - 1] = files[i][k]
  <2>1. Brought(before, buildImage(Kernel, files))
    BY <1>5, <1>6 DEF image, M, Brought
  <2>2. r = loadModules(before)
    OBVIOUS
  <2> HIDE DEF r
  <2>3. /\ DOMAIN r = 0..(endOfMemory - 1)
        /\ \A a \in 0..(moduleAddresses[1] - 1) : r[a] = before[a]
        /\ Arrived(r, files)
    BY <2>1, <2>2, ModulesAreLoaded
  <2> QED BY <2>3 DEF M, A, Arrived
<1>8. mem = [a \in 0..(M - 1) |-> IF a \in bss..(endOfKernel - 1) THEN 0 ELSE r[a]]
  BY <1>7 DEF initializeKernelBinary, clearBSS, before
<1> HIDE DEF r
<1>9. ASSUME NEW i \in 1..Len(files), NEW k \in 1..Len(files[i])
      PROVE  mem[A[i] + k - 1] = files[i][k]
  <2> DEFINE a == A[i] + k - 1
             n == Len(files[i])
  <2>1. A[i] \in Nat /\ A[1] <= A[i] /\ A[i] + n <= M /\ n \in Nat /\ A[1] \in Nat
    BY <1>1
  <2>2. r[a] = files[i][k]
    BY <1>7
  <2> HIDE DEF n
  <2>3. k \in 1..n
    BY DEF n
  <2>4. a \in 0..(M - 1) /\ a \notin bss..(endOfKernel - 1)
    <3> DEFINE A1 == A[1]
               to == A[i]
    <3>1. /\ to \in Nat /\ A1 \in Nat /\ A1 <= to /\ to + n <= M /\ endOfKernel <= A1
          /\ a = to + k - 1 /\ n \in Nat
      BY <1>2, <2>1
    <3> HIDE DEF A1, to, a
    <3>2. M \in Nat /\ bss \in Nat /\ endOfKernel \in Nat /\ k \in Nat
      BY <1>2, <2>1, <2>3
    <3> QED BY <2>3, <3>1, <3>2
  <2> HIDE DEF a
  <2>5. mem[a] = r[a]
    BY <1>8, <2>4
  <2> QED BY <2>2, <2>5 DEF a
<1>10. ASSUME NEW a \in 1..Len(Kernel) PROVE mem[a - 1] = Kernel[a]
  <2> DEFINE b == a - 1
  <2>1. /\ b \in 0..(M - 1) /\ b \notin bss..(endOfKernel - 1) /\ b \in 0..(A[1] - 1)
        /\ b \in 0..(Len(image) - 1) /\ b + 1 = a
    <3> DEFINE K  == Len(Kernel)
               A1 == A[1]
               L  == Len(image)
    <3>1. K \in Nat /\ A1 \in Nat /\ L \in Nat /\ a \in 1..K /\ K + 1 <= L
      BY <1>1, <1>2, <1>4
    <3>2. K <= bss /\ bss <= endOfKernel /\ endOfKernel <= A1 /\ A1 <= M
      BY <1>2
    <3>3. bss \in Nat /\ endOfKernel \in Nat /\ M \in Nat
      BY <1>2
    <3> HIDE DEF K, A1, L
    <3>4. b \in Nat /\ b + 1 = a /\ b < K
      BY <3>1
    <3> HIDE DEF b
    <3>5. b \in 0..(M - 1) /\ b \notin bss..(endOfKernel - 1) /\ b \in 0..(A1 - 1) /\ b \in 0..(L - 1)
      BY <3>1, <3>2, <3>3, <3>4
    <3> QED BY <3>4, <3>5 DEF A1, L
  <2> HIDE DEF b
  <2>2. mem[b] = r[b] /\ r[b] = before[b] /\ before[b] = image[b + 1]
    BY <1>6, <1>7, <1>8, <2>1
  <2> QED BY <1>4, <2>1, <2>2 DEF b
<1>11. ASSUME NEW a \in bss..(endOfKernel - 1) PROVE mem[a] = 0
  <2>1. a \in 0..(M - 1)
    BY <1>1, <1>2
  <2> QED BY <1>8, <2>1
<1> QED BY <1>9, <1>10, <1>11 DEF A, Arrived
-----------------------------------------------------------------------------
(* The invariant of the disk and the image                                 *)

\* Block 0 is empty, or has a system with an image of the files behind a boot record.
SystemIn(block, files) ==
  \/ block = Zeros
  \/ /\ files \in Modules
     /\ HoldsSystem(block, buildImage(Kernel, files))

Packed == packed # Missing => packedFrom \in Modules /\ packed = buildImage(Kernel, packedFrom)

ImageIInv ==
  /\ DiskOK(disk) /\ Packed
  /\ disk.tag = "BMFS" => SystemIn(disk.blocks[0], diskFrom)
  /\ ~strained => KeptOn(disk, written)

\* There is no disk yet, and nothing is packed.
LEMMA ImageInitially == ImageInit => ImageIInv
<1> SUFFICES ASSUME ImageInit PROVE ImageIInv
  OBVIOUS
<1>1. disk = NoDisk /\ written = <<>> /\ packed = Missing
  BY DEF ImageInit
<1>2. disk.Directory = EmptyDirectory /\ disk.tag = "none"
  BY <1>1 DEF NoDisk
<1>3. DOMAIN <<>> = {}
  OBVIOUS
<1>4. KeptOn(disk, written)
  BY <1>1, <1>2, <1>3, EmptyIs DEF KeptOn
<1> QED BY <1>1, <1>2, <1>4 DEF ImageIInv, DiskOK, Packed

\* What PackKernel packs is an image.
LEMMA PackStep == ASSUME ImageIInv, PackKernel PROVE ImageIInv'
<1>1. Packed'
  BY DEF PackKernel, Packed
<1>2. UNCHANGED <<disk, diskFrom, written, strained>>
  BY DEF PackKernel
<1> QED BY <1>1, <1>2 DEF ImageIInv, DiskOK

\* A disk that has been made new holds the image that was packed.
LEMMA InitializeStep == ASSUME ImageIInv, Initialize PROVE ImageIInv'
<1>1. PICK amount \in Sizes, mbr \in BootRecords :
        /\ Run(initialize(disk, amount, mbr, PURE64, packed))
        /\ IF Refused(amount, mbr, PURE64, packed)
           THEN UNCHANGED <<diskFrom, written, strained>>
           ELSE diskFrom' = packedFrom /\ written' = <<>> /\ strained' = FALSE
  BY DEF Initialize
<1>2. UNCHANGED <<packed, packedFrom>> /\ disk' = initialize(disk, amount, mbr, PURE64, packed)
  BY <1>1 DEF Run
<1>3. Packed'
  BY <1>2 DEF ImageIInv, Packed
<1>4. CASE Refused(amount, mbr, PURE64, packed)
  <2>1. UNCHANGED <<disk, diskFrom, written, strained>>
    <3>1. initialize(disk, amount, mbr, PURE64, packed) = disk
      BY <1>4 DEF initialize
    <3> QED BY <1>1, <1>2, <1>4, <3>1
  <2> QED BY <1>3, <2>1 DEF ImageIInv, DiskOK
<1>5. CASE ~Refused(amount, mbr, PURE64, packed)
  <2>1. packedFrom \in Modules /\ packed = buildImage(Kernel, packedFrom)
    BY <1>5 DEF Refused, ImageIInv, Packed
  <2>2. packed \in Seq(Nat)
    <3>1. packedFrom \in Seq(Seq(Nat)) /\ Kernel \in Seq(Nat)
      BY <2>1, FilesAssumption
    <3>2. \E t : HoldsFiles(packed, Kernel, packedFrom, t)
      BY <2>1, <3>1, ImageContains
    <3> QED BY <3>2 DEF HoldsFiles
  <2>3. DiskOK(disk)
    BY DEF ImageIInv
  <2>4. /\ DiskOK(disk') /\ disk'.tag = "BMFS" /\ KeptOn(disk', <<>>)
        /\ disk'.blocks[0] = Zeros \/ HoldsSystem(disk'.blocks[0], packed)
    BY <1>2, <1>5, <2>2, <2>3, InitializeMakes
  <2>5. diskFrom' = packedFrom /\ written' = <<>>
    BY <1>1, <1>5
  <2>6. SystemIn(disk'.blocks[0], diskFrom')
    BY <2>1, <2>4, <2>5 DEF SystemIn
  <2> QED BY <1>3, <2>4, <2>5, <2>6 DEF ImageIInv
<1> QED BY <1>4, <1>5

\* The commands leave what was packed alone, and block 0 with it.
LEMMA CommandKeeps ==
  ASSUME ImageIInv, NEW d, Command(d), DiskOK(d), d.tag = "BMFS", d.blocks[0] = disk.blocks[0],
         strained' \/ KeptOn(d, written')
  PROVE  ImageIInv'
<1>1. disk.tag = "BMFS" /\ disk' = d /\ UNCHANGED <<packed, packedFrom, diskFrom>>
  BY DEF Command, Run
<1>2. Packed'
  BY <1>1 DEF ImageIInv, Packed
<1>3. SystemIn(disk.blocks[0], diskFrom)
  BY <1>1 DEF ImageIInv
<1> QED BY <1>1, <1>2, <1>3 DEF ImageIInv

\* format leaves no files, and block 0 as it is.
LEMMA FormatStep == ASSUME ImageIInv, Format PROVE ImageIInv'
<1> DEFINE d == format(disk)
<1>1. Command(d) /\ written' = <<>> /\ disk.tag = "BMFS" /\ DiskOK(disk)
  BY DEF Format, Command, ImageIInv
<1> HIDE DEF d
<1>2. DiskOK(d) /\ d.tag = "BMFS" /\ d.blocks = disk.blocks /\ KeptOn(d, <<>>)
  BY <1>1, FormatKeeps DEF d
<1> QED BY <1>1, <1>2, CommandKeeps

\* A file that create adds where there is room lies apart from the others.
LEMMA CreateStep ==
  ASSUME ImageIInv, NEW name \in Files, NEW maxsize \in MaxSizes, CreateFile(name, maxsize)
  PROVE  ImageIInv'
<1> DEFINE blocks == (maxsize + 1) \div 2
<1>1. PICK d \in create(disk, name, maxsize) : Command(d)
  BY DEF CreateFile
<1>2. /\ strained' = (strained \/ (disk' # disk /\ ~Room(disk, blocks)))
      /\ written' = IF disk' = disk THEN written ELSE Noted(written, name, <<>>)
      /\ disk' = d /\ disk.tag = "BMFS" /\ DiskOK(disk)
  BY <1>1 DEF CreateFile, Command, Run, ImageIInv
<1> HIDE DEF blocks
<1>3. CASE d = disk
  <2>1. strained' \/ KeptOn(d, written')
    BY <1>2, <1>3 DEF ImageIInv
  <2> QED BY <1>1, <1>2, <1>3, <2>1, CommandKeeps
<1>4. CASE d # disk
  <2>1. /\ DiskOK(d) /\ d.tag = "BMFS" /\ d.blocks = disk.blocks
        /\ \A w : KeptOn(disk, w) /\ Room(disk, blocks) => KeptOn(d, Noted(w, name, <<>>))
    BY <1>2, <1>4, CreateKeeps DEF blocks
  <2>2. strained' \/ KeptOn(d, written')
    BY <1>2, <1>4, <2>1 DEF ImageIInv
  <2> QED BY <1>1, <2>1, <2>2, CommandKeeps
<1> QED BY <1>3, <1>4

\* write changes the blocks of one file, and grows no file beyond its own.
LEMMA WriteStep ==
  ASSUME ImageIInv, NEW name \in Files, NEW data \in Contents, WriteFile(name, data)
  PROVE  ImageIInv'
<1> DEFINE d == write(disk, name, data)
<1>1. /\ Command(d) /\ disk' = d /\ disk.tag = "BMFS" /\ DiskOK(disk) /\ strained' = strained
      /\ written' = IF disk' = disk THEN written ELSE Noted(written, name, data)
  BY DEF WriteFile, Command, Run, ImageIInv
<1>2. d = write(disk, name, data)
  OBVIOUS
<1> HIDE DEF d
<1>3. CASE d = disk
  <2>1. strained' \/ KeptOn(d, written')
    BY <1>1, <1>3 DEF ImageIInv
  <2> QED BY <1>1, <1>3, <2>1, CommandKeeps
<1>4. CASE d # disk
  <2>1. /\ DiskOK(d) /\ d.tag = "BMFS" /\ d.blocks[0] = disk.blocks[0]
        /\ \A w : KeptOn(disk, w) => KeptOn(d, Noted(w, name, data))
    BY <1>1, <1>2, <1>4, WriteKeeps
  <2>2. strained' \/ KeptOn(d, written')
    BY <1>1, <1>4, <2>1 DEF ImageIInv
  <2> QED BY <1>1, <2>1, <2>2, CommandKeeps
<1> QED BY <1>3, <1>4

\* delete keeps the other files.
LEMMA DeleteStep ==
  ASSUME ImageIInv, NEW name \in Files, DeleteFile(name) PROVE ImageIInv'
<1> DEFINE d == delete(disk, name)
<1>1. /\ Command(d) /\ disk.tag = "BMFS" /\ DiskOK(disk) /\ strained' = strained
      /\ written' = Restrict(written, DOMAIN written \ {name})
  BY DEF DeleteFile, Command, ImageIInv
<1>2. d = delete(disk, name)
  OBVIOUS
<1> HIDE DEF d
<1>3. /\ DiskOK(d) /\ d.tag = "BMFS" /\ d.blocks = disk.blocks
      /\ \A w : KeptOn(disk, w) => KeptOn(d, Restrict(w, DOMAIN w \ {name}))
  BY <1>1, <1>2, DeleteKeeps
<1>4. strained' \/ KeptOn(d, written')
  BY <1>1, <1>3 DEF ImageIInv
<1> QED BY <1>1, <1>3, <1>4, CommandKeeps

\* No run of bmfs and no packing breaks the invariant.
LEMMA ImageStep == ImageIInv /\ [ImageNext]_imageVars => ImageIInv'
<1> SUFFICES ASSUME ImageIInv, [ImageNext]_imageVars PROVE ImageIInv'
  OBVIOUS
<1>1. CASE PackKernel
  BY <1>1, PackStep
<1>2. CASE Initialize
  BY <1>2, InitializeStep
<1>3. CASE Format
  BY <1>3, FormatStep
<1>4. ASSUME NEW name \in Files, NEW maxsize \in MaxSizes, CreateFile(name, maxsize)
      PROVE  ImageIInv'
  BY <1>4, CreateStep
<1>5. ASSUME NEW name \in Files, NEW data \in Contents, WriteFile(name, data)
      PROVE  ImageIInv'
  BY <1>5, WriteStep
<1>6. ASSUME NEW name \in Files, DeleteFile(name)
      PROVE  ImageIInv'
  BY <1>6, DeleteStep
<1>7. CASE UNCHANGED imageVars
  BY <1>7 DEF imageVars, ImageIInv, Packed
<1> QED BY <1>1, <1>2, <1>3, <1>4, <1>5, <1>6, <1>7 DEF ImageNext

\* Whatever bmfs is run for: its disk, what is packed and what was written agree.
THEOREM ImageInvariance == ImageSpec => []ImageIInv
<1>1. ImageInit => ImageIInv
  BY ImageInitially
<1>2. ImageIInv /\ [ImageNext]_imageVars => ImageIInv'
  BY ImageStep
<1> QED BY <1>1, <1>2, PTL DEF ImageSpec

\* A file that is kept is read as it was last written.
LEMMA ReadIs ==
  ASSUME NEW d, DiskOK(d), NEW w, KeptOn(d, w), NEW i \in list(d.Directory)
  PROVE  read(d, d.Directory[i].FileName) = w[d.Directory[i].FileName]
<1> DEFINE e == d.Directory[i]
           data == w[e.FileName]
<1>1. DirectoryOK(d.Directory) /\ i \in Nat
  BY DiskKinds, ListIs DEF DirectoryOK
<1>2. findfile(d.Directory, e.FileName) = {i}
  BY <1>1, FindIs
<1>3. Min({i}) = i
  <2>1. {i} \in SUBSET Nat /\ {i} # {}
    BY <1>1
  <2> QED BY <2>1, MinIs
<1>4. /\ data \in Seq(Seq(Nat)) /\ Len(data) = e.FileSize
      /\ \A k \in 1..e.FileSize : d.blocks[e.StartingBlock + k - 1] = data[k]
  BY DEF KeptOn, Holds
<1>5. read(d, e.FileName) = [k \in 1..e.FileSize |-> d.blocks[e.StartingBlock + k - 1]]
  BY <1>2, <1>3 DEF read
<1> HIDE DEF e, data
<1>6. data = [k \in 1..e.FileSize |-> data[k]]
  BY <1>4
<1>7. [k \in 1..e.FileSize |-> d.blocks[e.StartingBlock + k - 1]] = [k \in 1..e.FileSize |-> data[k]]
  BY <1>4
<1> QED BY <1>5, <1>6, <1>7 DEF e, data

\* The entry of a new file is not what was there.
LEMMA RoomIsTaken ==
  ASSUME NEW d, DiskOK(d), d.tag = "BMFS", NEW w, KeptOn(d, w), NEW name \in Files \ DOMAIN w,
         NEW maxsize \in MaxSizes, Room(d, (maxsize + 1) \div 2)
  PROVE  d \notin create(d, name, maxsize)
<1> DEFINE D == d.Directory
           blocks == (maxsize + 1) \div 2
           starts == new_file_start(D, LastOf(d), blocks)
           slot == first_free_entry(D)
           made(s) == [d EXCEPT !.Directory = Entered(D, slot, BMFSEntry(name, s, blocks, 0))]
<1>1. DirectoryOK(D) /\ D \in Directories /\ LastOf(d) \in Nat \ {0} /\ d \in Disks(LastOf(d))
  BY DiskKinds
<1>2. blocks \in Nat \ {0}
  BY BlocksReserved
<1>3. findfile(D, name) = {}
  BY DEF KeptOn, findfile
<1>4. FirstWith(D, {EndOfDirectory}) < ENTRIES /\ \E t : Free(D, LastOf(d), t, blocks)
  BY DEF Room, Free, LastOf
<1>5. starts # {}
  <2>1. Placed(D, LastOf(d))
    BY DEF KeptOn
  <2> HIDE DEF D, blocks
  <2> QED BY <1>1, <1>2, <1>4, <2>1, SearchFindsRoom
<1>6. slot \in Slots /\ slot # ENTRIES /\ D[slot].FileName \in {EndOfDirectory, Deleted}
  <2> DEFINE end == FirstWith(D, {EndOfDirectory})
  <2>1. slot \in 0..ENTRIES /\ end \in 0..ENTRIES /\ ENTRIES \in Nat
    BY FirstIs, BmfsAssumption DEF first_free_entry
  <2>2. end \in Slots /\ D[end].FileName \in {EndOfDirectory}
    BY <1>4, FirstIs
  <2>3. ~(end < slot)
    <3>1. \A i \in Slots : i < slot => D[i].FileName \notin {EndOfDirectory, Deleted}
      BY FirstIs DEF first_free_entry
    <3> QED BY <2>2, <3>1
  <2>4. slot < ENTRIES
    BY <1>4, <2>1, <2>3
  <2>5. slot \in Slots /\ D[slot].FileName \in {EndOfDirectory, Deleted}
    BY <2>4, FirstIs DEF first_free_entry
  <2> QED BY <2>1, <2>4, <2>5
<1>7. create(d, name, maxsize) = {made(s) : s \in starts}
  <2>1. starts = new_file_start(D, Cardinality(DOMAIN d.blocks) - 1, blocks)
    BY DEF LastOf
  <2> QED BY <1>3, <1>5, <1>6, <2>1 DEF create
<1>8. ASSUME NEW s PROVE made(s) # d
  <2>1. made(s).Directory = Entered(D, slot, BMFSEntry(name, s, blocks, 0))
    BY <1>1 DEF Disks
  <2>2. Entered(D, slot, BMFSEntry(name, s, blocks, 0))[slot].FileName = name
    <3>1. slot \in Nat /\ slot # slot + 1
      BY <1>6, BmfsAssumption DEF Slots
    <3> HIDE DEF slot, blocks, D
    <3>2. Entered(D, slot, BMFSEntry(name, s, blocks, 0))[slot] = BMFSEntry(name, s, blocks, 0)
      BY <1>6, <3>1 DEF Entered
    <3> QED BY <3>2 DEF BMFSEntry
  <2>3. name # D[slot].FileName
    BY <1>6, Marks
  <2> QED BY <2>1, <2>2, <2>3
<1> HIDE DEF made, starts
<1> QED BY <1>7, <1>8

\* What the invariant says of the files.
LEMMA FilesAreKept == ImageIInv => ImageInv
<1> DEFINE D == disk.Directory
<1> SUFFICES ASSUME ImageIInv PROVE ImageInv
  OBVIOUS
<1>1. DiskOK(disk) /\ (~strained => KeptOn(disk, written))
  BY DEF ImageIInv
<1>2. /\ D \in Directories /\ DirectoryOK(D) /\ LastBlock = LastOf(disk)
      /\ DOMAIN disk.blocks = 0..LastOf(disk) /\ disk.tag \in {"none", "BMFS"}
  BY <1>1, DiskKinds DEF LastBlock, LastOf
<1>3. ImageTypeOK
  <2>1. \A e \in OnDisk(D) : e.FileName \in Files
    BY <1>2, ListIs DEF OnDisk
  <2> QED BY <1>2, <2>1 DEF ImageTypeOK
<1>4. FilesKept
  <2> SUFFICES ASSUME ~strained
               PROVE  /\ {e.FileName : e \in OnDisk(D)} = DOMAIN written
                      /\ \A i \in list(D) :
                           /\ D[i].StartingBlock >= 1 /\ FileEnd(D[i]) <= LastBlock
                           /\ read(disk, D[i].FileName) = written[D[i].FileName]
                           /\ \A j \in list(D) \ {i} : Separate(D[i], D[j])
    BY DEF FilesKept, Separate
  <2>1. Placed(D, LastOf(disk)) /\ {D[i].FileName : i \in list(D)} = DOMAIN written
    BY <1>1 DEF KeptOn
  <2>2. {e.FileName : e \in OnDisk(D)} = DOMAIN written
    BY <2>1 DEF OnDisk
  <2>3. ASSUME NEW i \in list(D)
        PROVE  /\ D[i].StartingBlock >= 1 /\ FileEnd(D[i]) <= LastBlock
               /\ read(disk, D[i].FileName) = written[D[i].FileName]
               /\ \A j \in list(D) \ {i} : Separate(D[i], D[j])
    <3>1. i \in Used(D)
      BY <1>2, ListIs
    <3>2. D[i].StartingBlock >= 1
      BY <1>2, <3>1 DEF DirectoryOK
    <3>3. read(disk, D[i].FileName) = written[D[i].FileName]
      BY <1>1, ReadIs
    <3> QED BY <1>2, <2>1, <3>2, <3>3 DEF Placed
  <2> QED BY <2>2, <2>3
<1>5. RoomIsFound
  BY <1>1, RoomIsTaken DEF RoomIsFound
<1> QED BY <1>3, <1>4, <1>5 DEF ImageInv

\* Files that were created where there was room lie apart, are read as they were last
\* written, and keep nothing from being created for which there is room.
THEOREM DiskCorrect == ImageSpec => []ImageInv
<1>1. ImageIInv => ImageInv
  BY FilesAreKept
<1> QED BY <1>1, ImageInvariance, PTL

\* What the invariant says of a disk that boots.
LEMMA ModulesAreThereWhenBooted == ImageIInv => ModulesArrive
<1> SUFFICES ASSUME ImageIInv, Bootable(disk), FitsIn(diskFrom), NEW M0 \in Memories
             PROVE  LET mem == initializeKernelBinary(Payload(disk, M0))
                    IN  /\ \A i \in DOMAIN diskFrom : \A k \in DOMAIN diskFrom[i] :
                             mem[moduleAddresses[i] + k - 1] = diskFrom[i][k]
                        /\ \A a \in DOMAIN Kernel : mem[a - 1] = Kernel[a]
                        /\ \A a \in bss..(endOfKernel - 1) : mem[a] = 0
  BY DEF ModulesArrive, FitsIn
<1> DEFINE mem == initializeKernelBinary(Payload(disk, M0))
<1>1. disk.tag = "BMFS" /\ disk.blocks[0] # Zeros
  <2>1. disk.tag = "BMFS" /\ loadSectors(disk)[0] = PURE64[1]
    BY DiskKinds DEF ImageIInv, Bootable
  <2>2. /\ PURE64[1] # 0 /\ Len(PURE64) \in Nat \ {0} /\ Len(PURE64) <= LOADED
        /\ LOADED \in Nat /\ SECTOR \in Nat
    BY FilesAssumption, LayoutAssumption, BmfsAssumption
  <2>3. 0 \in 0..(LOADED - 1)
    BY <2>2
  <2>4. ASSUME disk.blocks[0] = Zeros PROVE FALSE
    <3>1. Len(disk.blocks[0]) = 0
      BY <2>4 DEF Zeros
    <3>2. ~(SECTOR + 0 + 1 <= Len(disk.blocks[0]))
      BY <2>2, <3>1
    <3>3. loadSectors(disk)[0] = 0
      BY <2>3, <3>2 DEF loadSectors
    <3> QED BY <2>1, <2>2, <3>3
  <2> QED BY <2>1, <2>4
<1>2. diskFrom \in Modules /\ HoldsSystem(disk.blocks[0], buildImage(Kernel, diskFrom))
  BY <1>1 DEF ImageIInv, SystemIn
<1>3. /\ Arrived(mem, diskFrom) /\ \A a \in 1..Len(Kernel) : mem[a - 1] = Kernel[a]
      /\ \A a \in bss..(endOfKernel - 1) : mem[a] = 0
  BY <1>2, ModulesAreThere
<1>4. /\ DOMAIN Kernel = 1..Len(Kernel) /\ DOMAIN diskFrom = 1..Len(diskFrom)
      /\ \A i \in 1..Len(diskFrom) : DOMAIN diskFrom[i] = 1..Len(diskFrom[i])
  <2>1. Kernel \in Seq(Nat) /\ diskFrom \in Seq(Seq(Nat))
    BY <1>2, FilesAssumption
  <2> QED BY <2>1
<1> HIDE DEF mem
<1>5. /\ \A i \in DOMAIN diskFrom : \A k \in DOMAIN diskFrom[i] :
             mem[moduleAddresses[i] + k - 1] = diskFrom[i][k]
      /\ \A a \in DOMAIN Kernel : mem[a - 1] = Kernel[a]
      /\ \A a \in bss..(endOfKernel - 1) : mem[a] = 0
  BY <1>3, <1>4 DEF Arrived
<1> QED BY <1>5 DEF mem

\* Whatever was done to the files of a disk that boots: its modules are copied to their
\* addresses as they were packed, before the bss that lies over them is cleared.
THEOREM ModulesCorrect == ImageSpec => []ModulesArrive
<1>1. ImageIInv => ModulesArrive
  BY ModulesAreThereWhenBooted
<1> QED BY <1>1, ImageInvariance, PTL
=============================================================================
