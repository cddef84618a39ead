----------------------- MODULE SynchronizationProofs -----------------------
(***************************************************************************)
(* Proofs about the semaphores and about the program written with them.    *)
(*                                                                         *)
(* Module Semaphore: what its runs check of the units, the queue and the   *)
(* lock holds for every number of processes, every initial value, every    *)
(* length of the queue and every number of posts and kills.  These         *)
(* properties hold until the timer hits a resumed sem_wait, and so do the  *)
(* parts of the invariant in Undisturbed.                                  *)
(*                                                                         *)
(* Module Philosophers: what its run checks of the granted chopsticks, the *)
(* spare unit of a semaphore and the hungry philosophers holds for every   *)
(* number of seats, over any number of philosophers that join and leave    *)
(* and of dinings that end and begin again.                                *)
(***************************************************************************)
EXTENDS Semaphore, Philosophers, TLAPS, FiniteSetTheorems

\* A resumed waiter has loaded a count of the queue that leaves it a slot.
CountOK == \A p \in Procs : pc[p] = "count" => reg[p] \in 0..(PROCESS_LIMIT - 1)

\* The running process is alive and ready, but for a waiter that has just blocked.
Running ==
  current \in Procs =>
    /\ pc[current] # "dead"
    /\ pstate[current] = 1 \/ pc[current] = "store"

\* Who is killed behind another one is killed.
KilledSeen == "killedBehind" \in seen => "killed" \in seen

\* A resumed waiter is running and has the lock free, and what it has seen of the value
\* and of the queue is so still.
ResumedAlone ==
  \A p \in Procs :
    /\ pc[p] \in ResumedPcs => current = p /\ lock = 0
    /\ pc[p] \in {"slot", "count", "block", "store"} => value = 0
    /\ pc[p] = "count" => reg[p] = waiting
    /\ pc[p] \in {"block", "store"} => reg[p] = waiting - 1 /\ waiting >= 1
    /\ pc[p] = "store" => pstate[p] = 0
    /\ pc[p] = "load" => value # 0
    /\ pc[p] = "take" => value # 0 /\ reg[p] = value

\* How many slots are filled: a resumed waiter counts itself before it is stored.
Filled == IF \E p \in Procs : pc[p] \in {"block", "store"} THEN waiting - 1 ELSE waiting

Asleep == {p \in Procs : pc[p] = "asleep" /\ pstate[p] = 0}

\* The filled slots name the blocked processes, once each.
QueueRight ==
  /\ \A i, j \in 0..(Filled - 1) : queue[i] = queue[j] => i = j
  /\ \A i \in 0..(Filled - 1) : queue[i] \in Asleep
  /\ \A p \in Asleep : \E i \in 0..(Filled - 1) : queue[i] = p

\* Those who were woken, or have never slept again, and have not taken a unit.
Awake == {p \in Procs : pc[p] \in {"asleep"} \union ResumedPcs /\ pstate[p] = 1}

QueueOK == "killedBehind" \notin seen => QueueRight

\* The lock stays held only behind a refused sem_wait.
LockOK ==
  lock = 1 => /\ "refused" \in seen
              /\ "killed" \notin seen => waiting = PROCESS_LIMIT

WokenEnough == "killed" \notin seen /\ waiting > 0 => value <= Cardinality(Awake)

Conserved == seen = {} => value + Cardinality(InSection) = InitialValue + posted

Undisturbed ==
  value >= 0 /\ ResumedAlone /\ QueueOK /\ LockOK /\ WokenEnough /\ Conserved

IInv ==
  /\ TypeOK /\ CountOK /\ Running /\ KilledSeen
  /\ hits = 0 => Undisturbed

-----------------------------------------------------------------------------
(* Types, and what does not depend on the timer                            *)

Base == TypeOK /\ CountOK /\ Running /\ KilledSeen

LEMMA BaseFacts ==
  ASSUME Base
  PROVE  /\ TypeOK /\ CountOK /\ Running /\ KilledSeen
         /\ PROCESS_LIMIT \in Nat \ {0} /\ waiting \in Nat /\ 0 \in Slots
         /\ NoProcess \notin Procs
BY ProcessAssumption, ValueAssumption DEF Base, TypeOK, Procs, Slots

\* Shifting the queue, which is not empty.
LEMMA DequeuedTypes ==
  ASSUME TypeOK, waiting > 0, Dequeued
  PROVE  /\ waiting' \in 0..PROCESS_LIMIT
         /\ queue' \in [Slots -> Procs \union {NoProcess}]
<1>1. waiting' \in 0..PROCESS_LIMIT
  BY ValueAssumption DEF Dequeued, TypeOK
<1>2. ASSUME NEW i \in Slots
      PROVE  (IF i < waiting - 1 THEN queue[i+1] ELSE queue[i]) \in Procs \union {NoProcess}
  <2>1. i < waiting - 1 => i + 1 \in Slots
    BY ValueAssumption DEF TypeOK, Slots
  <2> QED BY <2>1 DEF TypeOK
<1> QED BY <1>1, <1>2 DEF Dequeued

LEMMA BaseInit == Init => Base
<1> SUFFICES ASSUME Init PROVE Base
  OBVIOUS
<1>1. 0 \in 0..PROCESS_LIMIT /\ 0 \in 0..MaxPosts /\ 0 \in 0..MaxHits /\ InitialValue \in Int
  BY ValueAssumption, BoundAssumption
<1>2. /\ queue \in [Slots -> Procs \union {NoProcess}] /\ pstate \in [Procs -> {0, 1}]
      /\ pc \in [Procs -> Pcs] /\ reg \in [Procs -> Int]
  BY DEF Init, Pcs, UserPcs
<1>3. TypeOK
  BY <1>1, <1>2 DEF Init, TypeOK
<1>4. current \notin Procs
  BY ProcessAssumption DEF Init, Procs
<1> QED BY <1>3, <1>4 DEF Init, Base, CountOK, Running, KilledSeen

LEMMA TypeStep ==
  ASSUME Base, [Next]_vars
  PROVE  TypeOK'
<1> USE BaseFacts DEF TypeOK, Goto, sem, hist, UserPcs, ResumedPcs, Pcs, Disturbances
<1>1. CASE Tick
  BY <1>1, BoundAssumption DEF Tick
<1>2. ASSUME NEW p \in Procs, SemWait(p) PROVE TypeOK'
  <2>1. CASE Spin(p)
    BY <2>1 DEF Spin
  <2>2. CASE lock = 0 /\ ~SeesZero(value)
    BY <1>2, <2>2 DEF SemWait, Spin
  <2>3. CASE lock = 0 /\ SeesZero(value) /\ waiting = PROCESS_LIMIT
    BY <1>2, <2>3 DEF SemWait, Spin
  <2>4. CASE lock = 0 /\ SeesZero(value) /\ waiting < PROCESS_LIMIT
    <3>1. waiting \in Slots /\ waiting + 1 \in 0..PROCESS_LIMIT
      BY <2>4 DEF Slots
    <3>2. Enqueued(p) /\ Switch(pstate') /\ UNCHANGED <<value, reg, hist>>
          /\ pstate' = [pstate EXCEPT ![p] = 0] /\ pc' = [pc EXCEPT ![p] = "asleep"]
      BY <1>2, <2>4 DEF SemWait, Spin
    <3> QED BY <3>1, <3>2 DEF Enqueued, Switch
  <2> QED BY <1>2, <2>1, <2>2, <2>3, <2>4 DEF SemWait
<1>3. ASSUME NEW p \in Procs, Resume(p) PROVE TypeOK'
  BY <1>3 DEF Resume
<1>4. ASSUME NEW p \in Procs, TestValue(p) PROVE TypeOK'
  BY <1>4 DEF TestValue
<1>5. ASSUME NEW p \in Procs, TestWaiting(p) PROVE TypeOK'
  BY <1>5 DEF TestWaiting
<1>6. ASSUME NEW p \in Procs, CountWaiting(p) PROVE TypeOK'
  BY <1>6 DEF CountWaiting, CountOK
<1>7. ASSUME NEW p \in Procs, BlockCurrent(p) PROVE TypeOK'
  BY <1>7 DEF BlockCurrent
<1>8. ASSUME NEW p \in Procs, StoreAndSwitch(p) PROVE TypeOK'
  BY <1>8 DEF StoreAndSwitch, Switch
<1>9. ASSUME NEW p \in Procs, LoadValue(p) PROVE TypeOK'
  BY <1>9 DEF LoadValue
<1>10. ASSUME NEW p \in Procs, TakeValue(p) PROVE TypeOK'
  BY <1>10 DEF TakeValue
<1>11. ASSUME NEW p \in Procs, SemPost(p) PROVE TypeOK'
  <2>1. CASE Spin(p)
    BY <2>1 DEF Spin
  <2>2. CASE ~Spin(p)
    <3>1. /\ value' = value + 1 /\ pc' = [pc EXCEPT ![p] = "out"]
          /\ IF waiting = 0 THEN UNCHANGED <<queue, waiting, pstate>> ELSE Dequeued /\ Woken
          /\ UNCHANGED <<lock, reg, current, hits, seen>>
      BY <1>11, <2>2 DEF SemPost
    <3>2. posted' \in 0..MaxPosts
      <4>1. p \in Posters => posted < MaxPosts
        BY <1>11, ProcessAssumption DEF SemPost
      <4> QED BY <1>11, <2>2, <4>1, BoundAssumption DEF SemPost
    <3>3. /\ waiting' \in 0..PROCESS_LIMIT
          /\ queue' \in [Slots -> Procs \union {NoProcess}]
      BY <3>1, DequeuedTypes
    <3>4. pstate' \in [Procs -> {0, 1}]
      BY <3>1 DEF Woken
    <3>5. value' \in Int /\ pc' \in [Procs -> Pcs]
      BY <3>1
    <3>6. UNCHANGED <<lock, reg, current, hits, seen>>
      BY <3>1
    <3> QED BY <3>2, <3>3, <3>4, <3>5, <3>6
  <2> QED BY <2>1, <2>2
<1>12. ASSUME NEW p \in Procs, KillPid(p) PROVE TypeOK'
  <2>1. /\ waiting' \in 0..PROCESS_LIMIT
        /\ queue' \in [Slots -> Procs \union {NoProcess}]
    <3>1. p \in Queued => waiting > 0
      BY DEF Queued
    <3> QED BY <1>12, <3>1, DequeuedTypes DEF KillPid, Forgotten
  <2> QED BY <1>12, <2>1 DEF KillPid
<1>13. CASE UNCHANGED vars
  BY <1>13 DEF vars
<1> QED
  BY <1>1, <1>2, <1>3, <1>4, <1>5, <1>6, <1>7, <1>8, <1>9, <1>10, <1>11, <1>12, <1>13
  DEF Next

\* Who runs next is alive and ready.
LEMMA SwitchRuns ==
  ASSUME NEW ps, Switch(ps)
  PROVE  current' \in Procs => ps[current'] = 1 /\ pc[current'] # "dead"
BY ProcessAssumption DEF Switch, Procs

LEMMA RestStep ==
  ASSUME Base, [Next]_vars
  PROVE  CountOK' /\ Running' /\ KilledSeen'
<1> USE BaseFacts DEF TypeOK, Goto, sem, hist
<1> USE DEF CountOK, Running, KilledSeen
<1>1. CASE Tick
  BY <1>1 DEF Tick
<1>2. ASSUME NEW p \in Procs, SemWait(p) PROVE CountOK' /\ Running' /\ KilledSeen'
  <2> DEFINE sleeps == lock = 0 /\ SeesZero(value) /\ waiting < PROCESS_LIMIT
  <2>1. CASE sleeps
    <3>1. /\ pstate' = [pstate EXCEPT ![p] = 0] /\ pc' = [pc EXCEPT ![p] = "asleep"]
          /\ UNCHANGED <<reg, seen>> /\ Switch(pstate')
      BY <1>2, <2>1 DEF SemWait, Spin
    <3>2. current' \in Procs => pstate'[current'] = 1 /\ pc[current'] # "dead"
      BY <3>1, SwitchRuns
    <3> QED BY <3>1, <3>2
  <2>2. CASE ~sleeps
    <3>1. /\ UNCHANGED <<reg, current, pstate>> /\ seen' \in {seen, seen \union {"refused"}}
          /\ \E l \in {"spin", "in", "failed"} : pc' = [pc EXCEPT ![p] = l]
          /\ current = p /\ pc[p] = "out"
      BY <1>2, <2>2 DEF SemWait, Spin
    <3> QED BY <3>1
  <2> QED BY <2>1, <2>2
<1>3. ASSUME NEW p \in Procs, Resume(p) PROVE CountOK' /\ Running' /\ KilledSeen'
  BY <1>3 DEF Resume
<1>4. ASSUME NEW p \in Procs, TestValue(p) PROVE CountOK' /\ Running' /\ KilledSeen'
  BY <1>4 DEF TestValue
<1>5. ASSUME NEW p \in Procs, TestWaiting(p) PROVE CountOK' /\ Running' /\ KilledSeen'
  BY <1>5 DEF TestWaiting
<1>6. ASSUME NEW p \in Procs, CountWaiting(p) PROVE CountOK' /\ Running' /\ KilledSeen'
  BY <1>6 DEF CountWaiting
<1>7. ASSUME NEW p \in Procs, BlockCurrent(p) PROVE CountOK' /\ Running' /\ KilledSeen'
  BY <1>7 DEF BlockCurrent
<1>8. ASSUME NEW p \in Procs, StoreAndSwitch(p) PROVE CountOK' /\ Running' /\ KilledSeen'
  BY <1>8, SwitchRuns DEF StoreAndSwitch
<1>9. ASSUME NEW p \in Procs, LoadValue(p) PROVE CountOK' /\ Running' /\ KilledSeen'
  BY <1>9 DEF LoadValue
<1>10. ASSUME NEW p \in Procs, TakeValue(p) PROVE CountOK' /\ Running' /\ KilledSeen'
  BY <1>10 DEF TakeValue
<1>11. ASSUME NEW p \in Procs, SemPost(p) PROVE CountOK' /\ Running' /\ KilledSeen'
  <2>1. CASE Spin(p)
    BY <1>11, <2>1 DEF Spin, SemPost
  <2>2. CASE ~Spin(p)
    <3>1. /\ pc' = [pc EXCEPT ![p] = "out"] /\ current = p
          /\ UNCHANGED <<reg, current, seen>> /\ pc[p] \in {"in", "failed", "out"}
      BY <1>11, <2>2 DEF SemPost
    <3>2. pstate'[p] \in {pstate[p], 1}
      BY <1>11, <2>2 DEF SemPost, Woken
    <3> QED BY <3>1, <3>2
  <2> QED BY <2>1, <2>2
<1>12. ASSUME NEW p \in Procs, KillPid(p) PROVE CountOK' /\ Running' /\ KilledSeen'
  <2>1. p # current
    BY <1>12, ProcessAssumption DEF KillPid
  <2> QED BY <1>12, <2>1 DEF KillPid
<1>13. CASE UNCHANGED vars
  BY <1>13 DEF vars
<1> QED
  BY <1>1, <1>2, <1>3, <1>4, <1>5, <1>6, <1>7, <1>8, <1>9, <1>10, <1>11, <1>12, <1>13
  DEF Next

-----------------------------------------------------------------------------
(* Until the timer hits a resumed sem_wait                                 *)

Quiet == hits = 0 /\ Base /\ Undisturbed

LEMMA StillUndisturbed ==
  ASSUME IInv, [Next]_vars, hits' = 0
  PROVE  Quiet
<1>1. TypeOK
  BY DEF IInv
<1>2. hits = 0
  <2> USE <1>1 DEF TypeOK, hist
  <2>1. CASE Tick
    BY <2>1, BoundAssumption DEF Tick
  <2>2. ASSUME NEW p \in Procs, SemWait(p) PROVE hits = 0
    BY <2>2 DEF SemWait, Spin
  <2>3. ASSUME NEW p \in Procs, SemPost(p) PROVE hits = 0
    BY <2>3 DEF SemPost, Spin
  <2>4. ASSUME NEW p \in Procs, \/ Resume(p) \/ TestValue(p) \/ TestWaiting(p)
                                \/ CountWaiting(p) \/ BlockCurrent(p) \/ StoreAndSwitch(p)
                                \/ LoadValue(p) \/ TakeValue(p) \/ KillPid(p)
        PROVE  hits = 0
    BY <2>4 DEF Resume, TestValue, TestWaiting, CountWaiting, BlockCurrent, StoreAndSwitch,
                LoadValue, TakeValue, KillPid
  <2>5. CASE UNCHANGED vars
    BY <2>5 DEF vars
  <2> QED BY <2>1, <2>2, <2>3, <2>4, <2>5 DEF Next
<1> QED BY <1>1, <1>2 DEF IInv, Base, Quiet

LEMMA QuietFacts ==
  ASSUME Quiet
  PROVE  /\ TypeOK /\ CountOK /\ Running /\ KilledSeen
         /\ value >= 0 /\ ResumedAlone /\ QueueOK /\ LockOK /\ WokenEnough /\ Conserved
         /\ PROCESS_LIMIT \in Nat \ {0} /\ waiting \in Nat /\ waiting <= PROCESS_LIMIT
         /\ value \in Int /\ posted \in Int /\ InitialValue \in Int
         /\ NoProcess \notin Procs
         /\ pc \in [Procs -> Pcs] /\ pstate \in [Procs -> {0, 1}] /\ reg \in [Procs -> Int]
         /\ queue \in [Slots -> Procs \union {NoProcess}]
         /\ IsFiniteSet(Awake) /\ Cardinality(Awake) \in Nat
         /\ IsFiniteSet(InSection) /\ Cardinality(InSection) \in Nat
<1>1. IsFiniteSet(Procs)
  BY ProcessAssumption, FS_Union DEF Procs
<1>2. Awake \subseteq Procs /\ InSection \subseteq Procs
  BY DEF Awake, InSection
<1>3. /\ IsFiniteSet(Awake) /\ Cardinality(Awake) \in Nat
      /\ IsFiniteSet(InSection) /\ Cardinality(InSection) \in Nat
  BY <1>1, <1>2, FS_Subset, FS_CardinalityType
<1>4. TypeOK
  BY DEF Quiet, Base
<1> QED BY <1>3, <1>4, BaseFacts, ValueAssumption DEF Quiet, Undisturbed, TypeOK

\* The running process in user code, or waking up: nobody is resumed.
LEMMA NobodyResumed ==
  ASSUME Quiet, current \in Procs => pc[current] \notin ResumedPcs
  PROVE  /\ \A q \in Procs : pc[q] \notin ResumedPcs
         /\ Filled = waiting
<1>1. \A q \in Procs : pc[q] \notin ResumedPcs
  BY QuietFacts DEF ResumedAlone
<1> QED BY <1>1 DEF Filled, ResumedPcs

\* A resumed process is alone.
LEMMA OnlyResumed ==
  ASSUME Quiet, NEW p \in Procs, pc[p] \in ResumedPcs
  PROVE  /\ \A q \in Procs : q # p => pc[q] \notin ResumedPcs
         /\ Filled = IF pc[p] \in {"block", "store"} THEN waiting - 1 ELSE waiting
         /\ current = p /\ lock = 0
<1>1. \A q \in Procs : q # p => pc[q] \notin ResumedPcs
  BY QuietFacts DEF ResumedAlone
<1> QED BY <1>1, QuietFacts DEF Filled, ResumedPcs, ResumedAlone

\* Steps that change neither the filled slots nor who is blocked.
LEMMA QueueUnchanged ==
  ASSUME Quiet, Filled' = Filled, UNCHANGED queue, Asleep' = Asleep,
         "killedBehind" \notin seen' => "killedBehind" \notin seen
  PROVE  QueueOK'
BY QuietFacts DEF QueueOK, QueueRight

LEMMA StutterQuiet ==
  ASSUME Quiet, UNCHANGED vars
  PROVE  Undisturbed'
<1>1. Awake' = Awake /\ InSection' = InSection /\ Asleep' = Asleep /\ Filled' = Filled
  BY DEF vars, Awake, InSection, Asleep, Filled
<1>2. QueueOK'
  BY <1>1, QueueUnchanged DEF vars
<1>3. ResumedAlone'
  BY QuietFacts DEF vars, ResumedAlone
<1> QED
  BY <1>1, <1>2, <1>3, QuietFacts DEF vars, Undisturbed, LockOK, WokenEnough, Conserved

LEMMA TickQuiet ==
  ASSUME Quiet, Tick, hits' = 0
  PROVE  Undisturbed'
<1>1. /\ current \in Procs => pc[current] \notin ResumedPcs
      /\ UNCHANGED <<value, queue, waiting, lock, pstate, pc, reg, posted, seen>>
  BY DEF Tick, sem, Quiet
<1>2. (\A q \in Procs : pc[q] \notin ResumedPcs) /\ Filled = waiting
  BY <1>1, NobodyResumed
<1>3. Awake' = Awake /\ InSection' = InSection /\ Asleep' = Asleep /\ Filled' = Filled
  BY <1>1 DEF Awake, InSection, Asleep, Filled
<1>4. QueueOK'
  BY <1>1, <1>3, QueueUnchanged
<1>5. ResumedAlone'
  BY <1>1, <1>2 DEF ResumedAlone, ResumedPcs
<1> QED
  BY <1>1, <1>3, <1>4, <1>5, QuietFacts DEF Undisturbed, LockOK, WokenEnough, Conserved

\* A call that finds the lock held: a sem_wait was refused.
LEMMA SpinQuiet ==
  ASSUME Quiet, NEW p \in Procs, current = p, pc[p] \in UserPcs, Spin(p)
  PROVE  Undisturbed'
<1>1. /\ UNCHANGED <<value, queue, waiting, lock, pstate, reg, current, posted, seen>>
      /\ pc' = [pc EXCEPT ![p] = "spin"] /\ lock = 1
  BY DEF Spin, Goto, sem, hist
<1>2. (\A q \in Procs : pc[q] \notin ResumedPcs) /\ Filled = waiting
  BY NobodyResumed DEF ResumedPcs, UserPcs
<1>3. Filled' = Filled
  BY <1>1, <1>2, QuietFacts DEF Filled, ResumedPcs
<1>4. Awake' = Awake /\ Asleep' = Asleep
  BY <1>1, QuietFacts DEF Awake, Asleep, ResumedPcs, UserPcs
<1>5. QueueOK'
  BY <1>1, <1>3, <1>4, QueueUnchanged
<1>6. ResumedAlone'
  BY <1>1, <1>2, QuietFacts DEF ResumedAlone, ResumedPcs
<1>7. Conserved'
  BY <1>1, QuietFacts DEF LockOK, Conserved
<1> QED
  BY <1>1, <1>4, <1>5, <1>6, <1>7, QuietFacts DEF Undisturbed, LockOK, WokenEnough

\* sem_wait takes a unit.
LEMMA TakesQuiet ==
  ASSUME Quiet, NEW p \in Procs, SemWait(p), lock = 0, ~SeesZero(value)
  PROVE  Undisturbed'
<1>1. /\ value' = value - 1 /\ value # 0 /\ pc[p] = "out"
      /\ pc' = [pc EXCEPT ![p] = "in"]
      /\ UNCHANGED <<queue, waiting, lock, pstate, reg, current, posted, seen>>
  BY DEF SemWait, Spin, SeesZero, Goto, hist
<1>2. (\A q \in Procs : pc[q] \notin ResumedPcs) /\ Filled = waiting
  BY NobodyResumed DEF SemWait, ResumedPcs
<1>3. Filled' = Filled
  BY <1>1, <1>2, QuietFacts DEF Filled, ResumedPcs
<1>4. /\ Awake' = Awake /\ Asleep' = Asleep
      /\ InSection' = InSection \cup {p} /\ p \notin InSection
  BY <1>1, QuietFacts DEF Awake, Asleep, InSection, ResumedPcs
<1>5. QueueOK'
  BY <1>1, <1>3, <1>4, QueueUnchanged
<1>6. ResumedAlone'
  BY <1>1, <1>2, QuietFacts DEF ResumedAlone, ResumedPcs
<1>7. Cardinality(InSection') = Cardinality(InSection) + 1
  BY <1>4, QuietFacts, FS_AddElement
<1>8. value' >= 0 /\ LockOK' /\ WokenEnough' /\ Conserved'
  BY <1>1, <1>4, <1>7, QuietFacts DEF LockOK, WokenEnough, Conserved
<1> QED
  BY <1>5, <1>6, <1>8 DEF Undisturbed

\* sem_wait is refused, and leaves the lock held.
LEMMA RefusedQuiet ==
  ASSUME Quiet, NEW p \in Procs, SemWait(p), lock = 0, SeesZero(value),
         waiting = PROCESS_LIMIT
  PROVE  Undisturbed'
<1>1. /\ lock' = 1 /\ pc[p] = "out" /\ seen' = seen \union {"refused"}
      /\ pc' = [pc EXCEPT ![p] = "failed"]
      /\ UNCHANGED <<value, queue, waiting, pstate, reg, current, posted>>
  BY QuietFacts DEF SemWait, Spin, Goto
<1>2. (\A q \in Procs : pc[q] \notin ResumedPcs) /\ Filled = waiting
  BY NobodyResumed DEF SemWait, ResumedPcs
<1>3. Filled' = Filled
  BY <1>1, <1>2, QuietFacts DEF Filled, ResumedPcs
<1>4. Awake' = Awake /\ Asleep' = Asleep
  BY <1>1, QuietFacts DEF Awake, Asleep, ResumedPcs
<1>5. QueueOK'
  BY <1>1, <1>3, <1>4, QueueUnchanged
<1>6. ResumedAlone'
  BY <1>1, <1>2, QuietFacts DEF ResumedAlone, ResumedPcs
<1>7. value' >= 0 /\ LockOK' /\ WokenEnough' /\ Conserved'
  BY <1>1, <1>4, QuietFacts DEF LockOK, WokenEnough, Conserved
<1> QED
  BY <1>5, <1>6, <1>7 DEF Undisturbed

\* Storing a blocked process in the next slot.
LEMMA QueueGrows ==
  ASSUME Quiet, NEW p \in Procs, Filled \in Slots, Filled' = Filled + 1,
         queue' = [queue EXCEPT ![Filled] = p],
         p \notin Asleep, Asleep' = Asleep \cup {p}, UNCHANGED seen
  PROVE  QueueOK'
<1> SUFFICES ASSUME "killedBehind" \notin seen PROVE QueueRight'
  BY DEF QueueOK
<1>1. PICK n : n = Filled
  OBVIOUS
<1>2. /\ n \in Nat /\ Filled' = n + 1 /\ 0..(n - 1) \subseteq Slots /\ n \in Slots
  BY <1>1, QuietFacts DEF Slots
<1>3. \A i \in 0..n : queue'[i] = IF i = n THEN p ELSE queue[i]
  BY <1>1, <1>2, QuietFacts
<1>4. /\ \A i, j \in 0..(n - 1) : queue[i] = queue[j] => i = j
      /\ \A i \in 0..(n - 1) : queue[i] \in Asleep
      /\ \A q \in Asleep : \E i \in 0..(n - 1) : queue[i] = q
  BY <1>1, QuietFacts DEF QueueOK, QueueRight
<1>5. \A i \in 0..n : i = n \/ i \in 0..(n - 1)
  BY <1>2
<1>6. 0..(Filled' - 1) = 0..n
  BY <1>2
<1>7. \A i, j \in 0..n : queue'[i] = queue'[j] => i = j
  BY <1>3, <1>4, <1>5
<1>8. \A i \in 0..n : queue'[i] \in Asleep'
  BY <1>3, <1>4, <1>5
<1>9. \A q \in Asleep' : \E i \in 0..n : queue'[i] = q
  <2>1. \A i \in 0..(n - 1) : i \in 0..n /\ i # n
    BY <1>2
  <2>2. n \in 0..n /\ queue'[n] = p
    BY <1>2, <1>3
  <2> QED BY <1>3, <1>4, <2>1, <2>2
<1> QED BY <1>6, <1>7, <1>8, <1>9 DEF QueueRight

\* sem_wait blocks on its first turn.
LEMMA SleepsQuiet ==
  ASSUME Quiet, NEW p \in Procs, SemWait(p), lock = 0, SeesZero(value),
         waiting < PROCESS_LIMIT
  PROVE  Undisturbed'
<1>1. /\ value = 0 /\ pc[p] = "out" /\ lock' = 0 /\ waiting' = waiting + 1
      /\ queue' = [queue EXCEPT ![waiting] = p]
      /\ pstate' = [pstate EXCEPT ![p] = 0] /\ pc' = [pc EXCEPT ![p] = "asleep"]
      /\ UNCHANGED <<value, reg, posted, seen>>
  BY QuietFacts DEF SemWait, Spin, Goto, Enqueued, SeesZero, hist
<1>2. (\A q \in Procs : pc[q] \notin ResumedPcs) /\ Filled = waiting
  BY NobodyResumed DEF SemWait, ResumedPcs
<1>3. Filled' = waiting' /\ waiting \in Slots
  BY <1>1, <1>2, QuietFacts DEF Filled, ResumedPcs, Slots
<1>4. /\ Awake' = Awake /\ InSection' = InSection
      /\ Asleep' = Asleep \cup {p} /\ p \notin Asleep
  BY <1>1, QuietFacts DEF Awake, Asleep, InSection, ResumedPcs
<1>5. QueueOK'
  BY <1>1, <1>2, <1>3, <1>4, QueueGrows
<1>6. ResumedAlone'
  BY <1>1, <1>2, QuietFacts DEF ResumedAlone, ResumedPcs
<1>7. value' >= 0 /\ LockOK' /\ WokenEnough' /\ Conserved'
  BY <1>1, <1>4, QuietFacts DEF LockOK, WokenEnough, Conserved
<1> QED
  BY <1>5, <1>6, <1>7 DEF Undisturbed

\* The switch comes back to a waiter that was woken.
LEMMA ResumeQuiet ==
  ASSUME Quiet, NEW p \in Procs, Resume(p)
  PROVE  Undisturbed'
<1>1. /\ pc[p] = "asleep" /\ lock' = 0 /\ current = p /\ pstate[p] = 1
      /\ pc' = [pc EXCEPT ![p] = "test"]
      /\ UNCHANGED <<value, queue, waiting, pstate, reg, current, posted, seen>>
  BY QuietFacts DEF Resume, Goto, hist, Running
<1>2. (\A q \in Procs : pc[q] \notin ResumedPcs) /\ Filled = waiting
  BY <1>1, NobodyResumed DEF ResumedPcs
<1>3. Filled' = Filled
  BY <1>1, <1>2, QuietFacts DEF Filled, ResumedPcs
<1>4. Awake' = Awake /\ Asleep' = Asleep /\ InSection' = InSection
  BY <1>1, QuietFacts DEF Awake, Asleep, InSection, ResumedPcs
<1>5. QueueOK'
  BY <1>1, <1>3, <1>4, QueueUnchanged
<1>6. ResumedAlone'
  BY <1>1, <1>2, QuietFacts DEF ResumedAlone, ResumedPcs
<1>7. value' >= 0 /\ LockOK' /\ WokenEnough' /\ Conserved'
  BY <1>1, <1>4, QuietFacts DEF LockOK, WokenEnough, Conserved
<1> QED
  BY <1>5, <1>6, <1>7 DEF Undisturbed

\* It looks at the value again.
LEMMA TestValueQuiet ==
  ASSUME Quiet, NEW p \in Procs, TestValue(p)
  PROVE  Undisturbed'
<1>1. /\ pc[p] = "test"
      /\ pc' = [pc EXCEPT ![p] = IF value = 0 THEN "slot" ELSE "load"]
      /\ UNCHANGED <<value, queue, waiting, lock, pstate, reg, current, posted, seen>>
  BY DEF TestValue, Goto, hist, sem, SeesZero
<1>2. /\ \A q \in Procs : q # p => pc[q] \notin ResumedPcs
      /\ Filled = waiting /\ current = p /\ lock = 0
  BY <1>1, OnlyResumed DEF ResumedPcs
<1>3. Filled' = Filled
  BY <1>1, <1>2, QuietFacts DEF Filled, ResumedPcs
<1>4. Awake' = Awake /\ Asleep' = Asleep /\ InSection' = InSection
  BY <1>1, QuietFacts DEF Awake, Asleep, InSection, ResumedPcs
<1>5. QueueOK'
  BY <1>1, <1>3, <1>4, QueueUnchanged
<1>6. ResumedAlone'
  BY <1>1, <1>2, QuietFacts DEF ResumedAlone, ResumedPcs
<1>7. value' >= 0 /\ LockOK' /\ WokenEnough' /\ Conserved'
  BY <1>1, <1>4, QuietFacts DEF LockOK, WokenEnough, Conserved
<1> QED
  BY <1>5, <1>6, <1>7 DEF Undisturbed

\* It finds the queue full, or loads the number of the waiting.
LEMMA TestWaitingQuiet ==
  ASSUME Quiet, NEW p \in Procs, TestWaiting(p)
  PROVE  Undisturbed'
<1>1. /\ pc[p] = "slot" /\ value = 0
      /\ \/ /\ waiting = PROCESS_LIMIT /\ pc' = [pc EXCEPT ![p] = "failed"]
            /\ seen' = seen \union {"refused"} /\ UNCHANGED reg
         \/ /\ waiting < PROCESS_LIMIT /\ pc' = [pc EXCEPT ![p] = "count"]
            /\ reg' = [reg EXCEPT ![p] = waiting] /\ UNCHANGED seen
      /\ UNCHANGED <<value, queue, waiting, lock, pstate, current, posted>>
  BY QuietFacts DEF TestWaiting, Goto, sem, ResumedAlone
<1>2. /\ \A q \in Procs : q # p => pc[q] \notin ResumedPcs
      /\ Filled = waiting /\ current = p /\ lock = 0
  BY <1>1, OnlyResumed DEF ResumedPcs
<1>3. Filled' = Filled
  BY <1>1, <1>2, QuietFacts DEF Filled, ResumedPcs
<1>4. /\ Awake' \subseteq Awake /\ Asleep' = Asleep
      /\ seen' # {"refused"} \union seen => InSection' = InSection
  BY <1>1, QuietFacts DEF Awake, Asleep, InSection, ResumedPcs
<1>5. QueueOK'
  <2>1. "killedBehind" \notin seen' => "killedBehind" \notin seen
    BY <1>1
  <2> QED BY <1>1, <1>3, <1>4, <2>1, QueueUnchanged
<1>6. ResumedAlone'
  BY <1>1, <1>2, QuietFacts DEF ResumedAlone, ResumedPcs
<1>7. Cardinality(Awake') \in Nat
  BY <1>4, QuietFacts, FS_Subset, FS_CardinalityType
<1>8. value' >= 0 /\ LockOK' /\ WokenEnough'
  BY <1>1, <1>2, <1>7, QuietFacts DEF LockOK, WokenEnough
<1>9. Conserved'
  <2>1. CASE seen' = {}
    <3>1. InSection' = InSection /\ UNCHANGED <<seen, posted, value>>
      BY <1>1, <1>4, <2>1
    <3> QED BY <3>1, QuietFacts DEF Conserved
  <2> QED BY <2>1 DEF Conserved
<1> QED
  BY <1>5, <1>6, <1>8, <1>9 DEF Undisturbed

\* It counts itself.
LEMMA CountQuiet ==
  ASSUME Quiet, NEW p \in Procs, CountWaiting(p)
  PROVE  Undisturbed'
<1>1. /\ pc[p] = "count" /\ value = 0 /\ waiting' = waiting + 1 /\ reg[p] = waiting
      /\ waiting < PROCESS_LIMIT
      /\ pc' = [pc EXCEPT ![p] = "block"]
      /\ UNCHANGED <<value, queue, lock, pstate, reg, current, posted, seen>>
  BY QuietFacts DEF CountWaiting, Goto, hist, ResumedAlone, CountOK
<1>2. /\ \A q \in Procs : q # p => pc[q] \notin ResumedPcs
      /\ Filled = waiting /\ current = p /\ lock = 0
  BY <1>1, OnlyResumed DEF ResumedPcs
<1>3. Filled' = Filled
  <2>1. pc'[p] = "block"
    BY <1>1, QuietFacts
  <2>2. Filled' = waiting' - 1
    BY <2>1 DEF Filled
  <2> QED BY <1>1, <1>2, <2>2, QuietFacts
<1>4. Awake' = Awake /\ Asleep' = Asleep /\ InSection' = InSection
  BY <1>1, QuietFacts DEF Awake, Asleep, InSection, ResumedPcs
<1>5. QueueOK'
  BY <1>1, <1>3, <1>4, QueueUnchanged
<1>6. ResumedAlone'
  BY <1>1, <1>2, QuietFacts DEF ResumedAlone, ResumedPcs
<1>7. value' >= 0 /\ LockOK' /\ WokenEnough' /\ Conserved'
  BY <1>1, <1>2, <1>4, QuietFacts DEF LockOK, WokenEnough, Conserved
<1> QED
  BY <1>5, <1>6, <1>7 DEF Undisturbed

\* It blocks.
LEMMA BlockQuiet ==
  ASSUME Quiet, NEW p \in Procs, BlockCurrent(p)
  PROVE  Undisturbed'
<1>1. /\ pc[p] = "block" /\ value = 0
      /\ pstate' = [pstate EXCEPT ![p] = 0] /\ pc' = [pc EXCEPT ![p] = "store"]
      /\ UNCHANGED <<value, queue, waiting, lock, reg, current, posted, seen>>
  BY QuietFacts DEF BlockCurrent, Goto, hist, sem, ResumedAlone
<1>2. /\ \A q \in Procs : q # p => pc[q] \notin ResumedPcs
      /\ Filled = waiting - 1 /\ current = p /\ lock = 0
  BY <1>1, OnlyResumed DEF ResumedPcs
<1>3. Filled' = Filled
  <2>1. pc'[p] = "store"
    BY <1>1, QuietFacts
  <2>2. Filled' = waiting' - 1
    BY <2>1 DEF Filled
  <2> QED BY <1>1, <1>2, <2>2
<1>4. Awake' \subseteq Awake /\ Asleep' = Asleep /\ InSection' = InSection
  BY <1>1, QuietFacts DEF Awake, Asleep, InSection, ResumedPcs
<1>5. QueueOK'
  BY <1>1, <1>3, <1>4, QueueUnchanged
<1>6. ResumedAlone'
  BY <1>1, <1>2, QuietFacts DEF ResumedAlone, ResumedPcs
<1>7. Cardinality(Awake') \in Nat
  BY <1>4, QuietFacts, FS_Subset, FS_CardinalityType
<1>8. value' >= 0 /\ LockOK' /\ WokenEnough' /\ Conserved'
  BY <1>1, <1>2, <1>4, <1>7, QuietFacts DEF LockOK, WokenEnough, Conserved
<1> QED
  BY <1>5, <1>6, <1>8 DEF Undisturbed

\* It stores itself in its slot and sleeps.
LEMMA StoreQuiet ==
  ASSUME Quiet, NEW p \in Procs, StoreAndSwitch(p)
  PROVE  Undisturbed'
<1>1. /\ pc[p] = "store" /\ value = 0 /\ pstate[p] = 0 /\ lock' = 0
      /\ reg[p] = waiting - 1 /\ waiting >= 1
      /\ queue' = [queue EXCEPT ![waiting - 1] = p] /\ pc' = [pc EXCEPT ![p] = "asleep"]
      /\ UNCHANGED <<value, waiting, pstate, reg, posted, seen>>
  BY QuietFacts DEF StoreAndSwitch, Goto, hist, ResumedAlone
<1>2. /\ \A q \in Procs : q # p => pc[q] \notin ResumedPcs
      /\ Filled = waiting - 1
  BY <1>1, OnlyResumed DEF ResumedPcs
<1>3. Filled' = Filled + 1 /\ Filled \in Slots
  <2>1. \A q \in Procs : pc'[q] \notin ResumedPcs
    BY <1>1, <1>2, QuietFacts DEF ResumedPcs
  <2>2. Filled' = waiting'
    BY <2>1 DEF Filled, ResumedPcs
  <2> QED BY <1>1, <1>2, <2>2, QuietFacts DEF Slots
<1>4. /\ Awake' = Awake /\ InSection' = InSection
      /\ p \notin Asleep /\ Asleep' = Asleep \cup {p}
  BY <1>1, QuietFacts DEF Awake, Asleep, InSection, ResumedPcs
<1>5. QueueOK'
  BY <1>1, <1>2, <1>3, <1>4, QueueGrows
<1>6. ResumedAlone'
  BY <1>1, <1>2, QuietFacts DEF ResumedAlone, ResumedPcs
<1>7. value' >= 0 /\ LockOK' /\ WokenEnough' /\ Conserved'
  BY <1>1, <1>4, QuietFacts DEF LockOK, WokenEnough, Conserved
<1> QED
  BY <1>5, <1>6, <1>7 DEF Undisturbed

\* It loads the value.
LEMMA LoadQuiet ==
  ASSUME Quiet, NEW p \in Procs, LoadValue(p)
  PROVE  Undisturbed'
<1>1. /\ pc[p] = "load" /\ value # 0
      /\ reg' = [reg EXCEPT ![p] = value] /\ pc' = [pc EXCEPT ![p] = "take"]
      /\ UNCHANGED <<value, queue, waiting, lock, pstate, current, posted, seen>>
  BY QuietFacts DEF LoadValue, Goto, hist, sem, ResumedAlone
<1>2. /\ \A q \in Procs : q # p => pc[q] \notin ResumedPcs
      /\ Filled = waiting /\ current = p /\ lock = 0
  BY <1>1, OnlyResumed DEF ResumedPcs
<1>3. Filled' = Filled
  BY <1>1, <1>2, QuietFacts DEF Filled, ResumedPcs
<1>4. Awake' = Awake /\ Asleep' = Asleep /\ InSection' = InSection
  BY <1>1, QuietFacts DEF Awake, Asleep, InSection, ResumedPcs
<1>5. QueueOK'
  BY <1>1, <1>3, <1>4, QueueUnchanged
<1>6. ResumedAlone'
  BY <1>1, <1>2, QuietFacts DEF ResumedAlone, ResumedPcs
<1>7. value' >= 0 /\ LockOK' /\ WokenEnough' /\ Conserved'
  BY <1>1, <1>4, QuietFacts DEF LockOK, WokenEnough, Conserved
<1> QED
  BY <1>5, <1>6, <1>7 DEF Undisturbed

\* It takes a unit, and is not waiting for one any more.
LEMMA TakeQuiet ==
  ASSUME Quiet, NEW p \in Procs, TakeValue(p)
  PROVE  Undisturbed'
<1>1. /\ pc[p] = "take" /\ value # 0 /\ value' = value - 1 /\ lock' = 0
      /\ pc' = [pc EXCEPT ![p] = "in"] /\ pstate[p] = 1
      /\ UNCHANGED <<queue, waiting, pstate, reg, current, posted, seen>>
  BY QuietFacts DEF TakeValue, Goto, hist, ResumedAlone, Running
<1>2. /\ \A q \in Procs : q # p => pc[q] \notin ResumedPcs
      /\ Filled = waiting
  BY <1>1, OnlyResumed DEF ResumedPcs
<1>3. Filled' = Filled
  BY <1>1, <1>2, QuietFacts DEF Filled, ResumedPcs
<1>4. /\ Awake' = Awake \ {p} /\ p \in Awake /\ Asleep' = Asleep
      /\ InSection' = InSection \cup {p} /\ p \notin InSection
  BY <1>1, QuietFacts DEF Awake, Asleep, InSection, ResumedPcs
<1>5. QueueOK'
  BY <1>1, <1>3, <1>4, QueueUnchanged
<1>6. ResumedAlone'
  BY <1>1, <1>2, QuietFacts DEF ResumedAlone, ResumedPcs
<1>7. /\ Cardinality(InSection') = Cardinality(InSection) + 1
      /\ Cardinality(Awake') = Cardinality(Awake) - 1
  BY <1>4, QuietFacts, FS_AddElement, FS_RemoveElement
<1>8. value' >= 0 /\ LockOK' /\ WokenEnough' /\ Conserved'
  BY <1>1, <1>7, QuietFacts DEF LockOK, WokenEnough, Conserved
<1> QED
  BY <1>5, <1>6, <1>8 DEF Undisturbed

\* The head of the queue leaves it, and is not blocked any more.
LEMMA QueueShrinks ==
  ASSUME Quiet, QueueRight, waiting > 0, Filled = waiting, Filled' = waiting', Dequeued,
         Asleep' = Asleep \ {queue[0]}
  PROVE  QueueRight'
<1>1. PICK n \in Nat : n = waiting - 1
  BY QuietFacts
<1>2. /\ Filled' = n /\ Filled - 1 = n /\ n + 1 <= PROCESS_LIMIT
      /\ Slots = 0..(PROCESS_LIMIT - 1)
  BY <1>1, QuietFacts DEF Dequeued, Slots
<1>3. \A i \in 0..(n - 1) : i \in 0..n /\ i + 1 \in 0..n /\ i \in Slots /\ i + 1 # 0
  BY <1>2, QuietFacts
<1>4. \A i \in 0..(n - 1) : queue'[i] = queue[i+1]
  BY <1>1, <1>2, <1>3 DEF Dequeued
<1>5. /\ \A i, j \in 0..n : queue[i] = queue[j] => i = j
      /\ \A i \in 0..n : queue[i] \in Asleep
      /\ \A q \in Asleep : \E i \in 0..n : queue[i] = q
  BY <1>2 DEF QueueRight
<1>6. \A i, j \in 0..(n - 1) : queue'[i] = queue'[j] => i = j
  <2> SUFFICES ASSUME NEW i \in 0..(n - 1), NEW j \in 0..(n - 1), queue'[i] = queue'[j]
               PROVE  i = j
    OBVIOUS
  <2>1. i + 1 = j + 1
    BY <1>3, <1>4, <1>5
  <2> QED BY <2>1
<1>7. \A i \in 0..(n - 1) : queue'[i] \in Asleep'
  <2> SUFFICES ASSUME NEW i \in 0..(n - 1) PROVE queue'[i] \in Asleep'
    OBVIOUS
  <2>1. 0 \in 0..n
    OBVIOUS
  <2> QED BY <2>1, <1>3, <1>4, <1>5
<1>8. \A q \in Asleep' : \E i \in 0..(n - 1) : queue'[i] = q
  <2> SUFFICES ASSUME NEW q \in Asleep' PROVE \E i \in 0..(n - 1) : queue'[i] = q
    OBVIOUS
  <2>1. PICK k \in 0..n : queue[k] = q
    BY <1>5
  <2>2. k # 0
    BY <2>1
  <2>3. k - 1 \in 0..(n - 1) /\ (k - 1) + 1 = k
    BY <2>2
  <2> QED BY <2>1, <2>3, <1>4
<1>9. 0..(Filled' - 1) = 0..(n - 1)
  BY <1>2
<1> QED BY <1>6, <1>7, <1>8, <1>9 DEF QueueRight

\* sem_post gives a unit back and wakes the head of the queue.
LEMMA PostQuiet ==
  ASSUME Quiet, NEW p \in Procs, SemPost(p), ~Spin(p)
  PROVE  Undisturbed'
<1>1. /\ current = p /\ lock = 0 /\ value' = value + 1
      /\ pc[p] \in UserPcs /\ pc' = [pc EXCEPT ![p] = "out"]
      /\ waiting = 0 => UNCHANGED <<queue, waiting, pstate>>
      /\ waiting # 0 => Dequeued /\ Woken
      /\ UNCHANGED <<lock, reg, current, seen>>
  BY DEF SemPost, Goto, UserPcs
<1>2. \/ /\ p \in Lockers /\ pc[p] \in {"in", "failed"} /\ posted' = posted
      \/ /\ p \in Posters /\ pc[p] = "out" /\ posted' = posted + 1
  BY ProcessAssumption DEF SemPost
<1>3. (\A q \in Procs : pc[q] \notin ResumedPcs) /\ Filled = waiting
  BY <1>1, NobodyResumed DEF ResumedPcs, UserPcs
<1>4. \A q \in Procs : pc'[q] \notin ResumedPcs
  BY <1>1, <1>3, QuietFacts DEF ResumedPcs
<1>5. Filled' = waiting'
  BY <1>4 DEF Filled, ResumedPcs
<1>6. waiting # 0 => waiting > 0 /\ waiting' = waiting - 1
  BY <1>1, QuietFacts DEF Dequeued
<1>7. pc'[p] = "out" /\ \A q \in Procs : q # p => pc'[q] = pc[q]
  BY <1>1, QuietFacts
<1>8. "killedBehind" \notin seen /\ waiting # 0 =>
        /\ queue[0] \in Asleep
        /\ pstate' = [pstate EXCEPT ![queue[0]] = 1]
  <2> SUFFICES ASSUME "killedBehind" \notin seen, waiting # 0
               PROVE  queue[0] \in Asleep /\ pstate' = [pstate EXCEPT ![queue[0]] = 1]
    OBVIOUS
  <2>1. 0 \in 0..(Filled - 1)
    BY <1>3, <1>6, QuietFacts
  <2>2. queue[0] \in Asleep
    BY <2>1, QuietFacts DEF QueueOK, QueueRight
  <2>3. queue[0] # NoProcess
    BY <2>2, QuietFacts DEF Asleep
  <2> QED BY <2>2, <2>3, <1>1 DEF Woken
<1>9. QueueOK'
  <2> SUFFICES ASSUME "killedBehind" \notin seen PROVE QueueRight'
    BY <1>1 DEF QueueOK
  <2>1. QueueRight
    BY QuietFacts DEF QueueOK
  <2>2. CASE waiting = 0
    <3>1. Asleep' = Asleep
      BY <1>1, <1>7, <2>2 DEF Asleep, UserPcs
    <3> QED BY <1>1, <1>3, <1>5, <2>1, <2>2, <3>1 DEF QueueRight
  <2>3. CASE waiting # 0
    <3>1. Asleep' = Asleep \ {queue[0]}
      <4>1. \A q \in Procs : pc'[q] = "asleep" <=> pc[q] = "asleep"
        BY <1>1, <1>7 DEF UserPcs
      <4>2. \A q \in Procs : pstate'[q] = IF q = queue[0] THEN 1 ELSE pstate[q]
        BY <1>8, <2>3, QuietFacts
      <4> QED BY <4>1, <4>2 DEF Asleep
    <3> QED BY <1>1, <1>3, <1>5, <1>6, <2>1, <2>3, <3>1, QueueShrinks
  <2> QED BY <2>2, <2>3
<1>10. ResumedAlone'
  BY <1>4 DEF ResumedAlone, ResumedPcs
<1>11. LockOK'
  BY <1>1 DEF LockOK
<1>12. WokenEnough'
  <2> SUFFICES ASSUME "killed" \notin seen, waiting' > 0
               PROVE  value' <= Cardinality(Awake')
    BY <1>1 DEF WokenEnough
  <2>1. waiting # 0 /\ "killedBehind" \notin seen
    BY <1>1, QuietFacts DEF KilledSeen
  <2>2. value <= Cardinality(Awake)
    BY <1>6, <2>1, QuietFacts DEF WokenEnough
  <2>3. queue[0] \in Asleep /\ \A q \in Procs : pstate'[q] = IF q = queue[0] THEN 1 ELSE pstate[q]
    BY <1>8, <2>1, QuietFacts
  <2>4. Awake' = Awake \cup {queue[0]} /\ queue[0] \notin Awake
    <3>1. \A q \in Procs : pc'[q] \in {"asleep"} \union ResumedPcs
                             <=> pc[q] \in {"asleep"} \union ResumedPcs
      BY <1>1, <1>7 DEF UserPcs, ResumedPcs
    <3> QED BY <2>3, <3>1 DEF Awake, Asleep
  <2>5. Cardinality(Awake') = Cardinality(Awake) + 1
    BY <2>4, QuietFacts, FS_AddElement
  <2> QED BY <1>1, <2>2, <2>5, QuietFacts
<1>13. Conserved'
  <2>1. CASE p \in Lockers /\ pc[p] \in {"in", "failed"} /\ posted' = posted
    <3>1. InSection' = InSection \ {p} /\ p \in InSection
      BY <1>7, <2>1 DEF InSection
    <3>2. Cardinality(InSection') = Cardinality(InSection) - 1
      BY <3>1, QuietFacts, FS_RemoveElement
    <3> QED BY <1>1, <2>1, <3>2, QuietFacts DEF Conserved
  <2>2. CASE p \in Posters /\ pc[p] = "out" /\ posted' = posted + 1
    <3>1. InSection' = InSection
      BY <1>7, <2>2 DEF InSection
    <3> QED BY <1>1, <2>2, <3>1, QuietFacts DEF Conserved
  <2> QED BY <1>2, <2>1, <2>2
<1>14. value' >= 0
  BY <1>1, QuietFacts
<1> QED
  BY <1>9, <1>10, <1>11, <1>12, <1>13, <1>14 DEF Undisturbed

\* killPid: if the process is queued, it is the head, or "killedBehind" is seen.
LEMMA KillQuiet ==
  ASSUME Quiet, NEW p \in Procs, KillPid(p)
  PROVE  Undisturbed'
<1>1. /\ current \in Procs /\ pc[current] = "out"
      /\ pc' = [pc EXCEPT ![p] = "dead"] /\ pstate' = [pstate EXCEPT ![p] = 0]
      /\ "killed" \in seen' /\ seen \subseteq seen'
      /\ "killedBehind" \notin seen' => (p \in Queued => p = queue[0])
      /\ Forgotten(p)
      /\ UNCHANGED <<value, lock, reg, current, posted>>
  BY DEF KillPid, Goto, Procs
<1>2. (\A q \in Procs : pc[q] \notin ResumedPcs) /\ Filled = waiting
  BY <1>1, NobodyResumed DEF ResumedPcs
<1>3. \A q \in Procs : pc'[q] \notin ResumedPcs
  BY <1>1, <1>2, QuietFacts DEF ResumedPcs
<1>4. Filled' = waiting'
  BY <1>3 DEF Filled, ResumedPcs
<1>5. Asleep' = Asleep \ {p}
  BY <1>1, QuietFacts DEF Asleep
<1>6. QueueOK'
  <2> SUFFICES ASSUME "killedBehind" \notin seen' PROVE QueueRight'
    BY DEF QueueOK
  <2>1. QueueRight
    BY <1>1, QuietFacts DEF QueueOK
  <2>2. CASE p \in Queued
    <3>1. waiting > 0
      BY <2>2, QuietFacts DEF Queued
    <3> QED BY <1>1, <1>2, <1>4, <1>5, <2>1, <2>2, <3>1, QueueShrinks DEF Forgotten
  <2>3. CASE p \notin Queued
    <3>1. UNCHANGED <<queue, waiting>>
      BY <1>1, <2>3 DEF Forgotten
    <3>2. p \notin Asleep
      BY <1>2, <2>1, <2>3 DEF QueueRight, Queued
    <3>3. Asleep' = Asleep
      BY <1>5, <3>2
    <3> QED BY <1>2, <1>4, <2>1, <3>1, <3>3 DEF QueueRight
  <2> QED BY <2>2, <2>3
<1>7. ResumedAlone'
  BY <1>3 DEF ResumedAlone, ResumedPcs
<1>8. value' >= 0 /\ LockOK' /\ WokenEnough' /\ Conserved'
  BY <1>1, QuietFacts DEF LockOK, WokenEnough, Conserved
<1> QED
  BY <1>6, <1>7, <1>8 DEF Undisturbed

LEMMA UndisturbedStep ==
  ASSUME IInv, [Next]_vars, hits' = 0
  PROVE  Undisturbed'
<1>1. Quiet
  BY StillUndisturbed
<1>2. CASE Tick
  BY <1>1, <1>2, TickQuiet
<1>3. ASSUME NEW p \in Procs, SemWait(p) PROVE Undisturbed'
  <2>1. CASE Spin(p)
    BY <1>1, <1>3, <2>1, SpinQuiet DEF SemWait, UserPcs
  <2>2. CASE ~Spin(p)
    <3>1. /\ lock = 0
          /\ waiting = PROCESS_LIMIT \/ waiting < PROCESS_LIMIT \/ ~SeesZero(value)
      BY <1>3, <2>2 DEF SemWait
    <3> QED BY <1>1, <1>3, <3>1, TakesQuiet, RefusedQuiet, SleepsQuiet
  <2> QED BY <2>1, <2>2
<1>4. ASSUME NEW p \in Procs, SemPost(p) PROVE Undisturbed'
  <2>1. current = p /\ pc[p] \in UserPcs
    BY <1>4 DEF SemPost, UserPcs
  <2> QED BY <1>1, <1>4, <2>1, SpinQuiet, PostQuiet
<1>5. ASSUME NEW p \in Procs, \/ Resume(p) \/ TestValue(p) \/ TestWaiting(p)
                              \/ CountWaiting(p) \/ BlockCurrent(p) \/ StoreAndSwitch(p)
                              \/ LoadValue(p) \/ TakeValue(p) \/ KillPid(p)
      PROVE  Undisturbed'
  BY <1>1, <1>5, ResumeQuiet, TestValueQuiet, TestWaitingQuiet, CountQuiet, BlockQuiet,
     StoreQuiet, LoadQuiet, TakeQuiet, KillQuiet
<1>6. CASE UNCHANGED vars
  BY <1>1, <1>6, StutterQuiet
<1> QED
  BY <1>2, <1>3, <1>4, <1>5, <1>6 DEF Next

LEMMA UndisturbedInit == Init => Undisturbed
<1> SUFFICES ASSUME Init PROVE Undisturbed
  OBVIOUS
<1>1. /\ value = InitialValue /\ value >= 0 /\ lock = 0 /\ waiting = 0 /\ posted = 0
      /\ \A p \in Procs : pc[p] = "out"
  BY ValueAssumption DEF Init
<1>2. Filled = 0 /\ Asleep = {} /\ InSection = {}
  BY <1>1 DEF Filled, Asleep, InSection
<1>3. Cardinality(InSection) = 0
  BY <1>2, FS_EmptySet
<1>4. QueueRight
  BY <1>2 DEF QueueRight
<1>5. ResumedAlone
  BY <1>1 DEF ResumedAlone, ResumedPcs
<1> QED
  BY <1>1, <1>3, <1>4, <1>5, ValueAssumption
  DEF Undisturbed, QueueOK, LockOK, WokenEnough, Conserved
-----------------------------------------------------------------------------
(* The theorems                                                            *)

\* The invariant of one semaphore: types, and while no timer interrupt falls into a
\* sem_wait that was woken (semaphore.c:75-86), the value, the queue and the lock.
THEOREM InductiveInvariant == Spec => []IInv
<1>1. Init => IInv
  BY BaseInit, UndisturbedInit DEF Base, IInv
<1>2. IInv /\ [Next]_vars => IInv'
  <2> SUFFICES ASSUME IInv, [Next]_vars PROVE IInv'
    OBVIOUS
  <2>1. Base
    BY DEF IInv, Base
  <2>2. TypeOK' /\ CountOK' /\ Running' /\ KilledSeen'
    BY <2>1, TypeStep, RestStep
  <2> QED BY <2>2, UndisturbedStep DEF IInv
<1> QED BY <1>1, <1>2, PTL DEF Spec

\* The queue of sem->waiting entries names the processes blocked in sem_wait, once
\* each, and the lock is left held only behind a sem_wait refused by a full queue
\* (semaphore.c:72-106), until the timer hits a resumed sem_wait.
THEOREM QueueNamesSleepers == Spec => []Inv
<1>1. IInv => Inv
  <2> SUFFICES ASSUME IInv PROVE Inv
    OBVIOUS
  <2>1. TypeOK
    BY DEF IInv
  <2>2. ASSUME hits = 0 PROVE Quiet
    BY <2>2 DEF IInv, Quiet, Base
  <2>3. QueueIsBlocked
    <3> SUFFICES ASSUME hits = 0, "killedBehind" \notin seen,
                        current \in Procs => pc[current] \notin {"block", "store"}
                 PROVE  /\ \A i, j \in 0..(waiting - 1) : queue[i] = queue[j] => i = j
                        /\ Queued = {p \in Procs : pc[p] = "asleep" /\ pstate[p] = 0}
      BY DEF QueueIsBlocked
    <3>1. QueueRight /\ ResumedAlone
      BY <2>2, QuietFacts DEF QueueOK
    <3>2. Filled = waiting
      BY <3>1 DEF Filled, ResumedAlone, ResumedPcs
    <3> QED BY <3>1, <3>2 DEF QueueRight, Queued, Asleep
  <2>4. LockedOnlyWhenFull
    BY <2>2, QuietFacts DEF LockedOnlyWhenFull, LockOK
  <2> QED BY <2>1, <2>3, <2>4 DEF Inv
<1> QED BY <1>1, InductiveInvariant, PTL

\* Units are neither created nor lost by sem_wait and sem_post (semaphore.c:84, 93),
\* until a disturbance: the value and those in their sections add up to what it was
\* opened with and what was posted from outside, and the value is not negative.
THEOREM UnitsStay == Spec => []UnitsConserved
<1>1. IInv => UnitsConserved
  BY DEF IInv, Undisturbed, Conserved, UnitsConserved
<1> QED BY <1>1, InductiveInvariant, PTL

\* While somebody is queued, every unit has a woken process that has not taken it yet
\* (semaphore.c:100-103): no wake-up is lost, until a disturbance.
THEOREM WakeUpsStay == Spec => []NoLostWakeup
<1>1. IInv => NoLostWakeup
  BY DEF IInv, Undisturbed, WokenEnough, NoLostWakeup, Awake
<1> QED BY <1>1, InductiveInvariant, PTL
-----------------------------------------------------------------------------
(* The philosophers                                                        *)

\* A philosopher process sits at every place of the table, but for the one that
\* endDining has killed and not counted yet.
SeatsTaken ==
  /\ main \in {"endKill", "endLess"} => amountPh > 0
  /\ main = "exited" => amountPh = 0
  /\ \A i \in Seats :
       at[i] # "none" <=> i < amountPh /\ ~(main = "endLess" /\ i = amountPh - 1)

\* Who is between taking and returning the mutex is alone there and has it.
OneHolder ==
  /\ \A i \in Seats : at[i] \in {"take", "put"} => mutex = 0
  /\ \A i, j \in Seats :
       at[i] \in {"take", "put"} /\ at[j] \in {"take", "put"} => i = j

\* Nobody sleeps on a semaphore that has a unit.
SleepsRightly == \A i \in Seats : at[i] = "asleep" => philoSem[i] = 0

\* A philosopher that neither eats nor waits is in the state THINKING.
RestsThinking == \A i \in Seats : at[i] \in {"thinking", "take"} => state[i] = "THINKING"

\* The units of a philosopher, in its semaphore or being eaten with, that were not
\* granted.
Spare(i) == philoSem[i] + Ate(i) - Granted(i)

\* A semaphore that endDining could not close.
LeftOpen(i) ==
  /\ open[i]
  /\ i >= amountPh \/ (main \in {"endKill", "endLess"} /\ i = amountPh - 1)

\* One spare unit is the most that anybody has.  Who was asleep when endDining came
\* had none, so that its semaphore, found again by addPh, has one at the most.
SpareBounds ==
  /\ \A i \in Seats : Spare(i) <= 1
  /\ \A i \in Seats : LeftOpen(i) => Spare(i) <= 0
  /\ main = "menu" => \A i \in AtTable : Spare(i) >= 0

OpenAtTable == main = "menu" => \A i \in AtTable : open[i]

\* What NobodyForgotten says, while somebody has the mutex, too.
Looked ==
  main = "menu" /\ ~removed /\ ~reseated =>
    \A i \in AtTable : state[i] = "HUNGRY" =>
      state[left(i)] = "EATING" \/ state[right(i)] = "EATING"

DiningIInv ==
  /\ DiningTypeOK /\ SeatsTaken /\ OneHolder /\ SleepsRightly /\ RestsThinking
  /\ SpareBounds /\ OpenAtTable /\ NoStrayPost /\ StatesExclude /\ Looked

-----------------------------------------------------------------------------
(* checkAvailability                                                       *)

Tables == [state : [Seats -> {"THINKING", "EATING", "HUNGRY"}], sem : [Seats -> Nat],
           at : [Seats -> PhiloPcs], stray : BOOLEAN]

\* What it changes, part by part.
LEMMA CheckedProperties ==
  ASSUME NEW t \in Tables, NEW i \in Seats, NEW l, NEW r
  PROVE  /\ Checked(t, i, l, r) \in Tables
         /\ ~MayEat(t, i, l, r) => Checked(t, i, l, r) = t
         /\ MayEat(t, i, l, r) =>
              /\ Checked(t, i, l, r).state = [t.state EXCEPT ![i] = "EATING"]
              /\ Checked(t, i, l, r).sem = [t.sem EXCEPT ![i] = @ + 1]
              /\ Checked(t, i, l, r).at =
                   [t.at EXCEPT ![i] = IF @ = "asleep" THEN "wait" ELSE @]
         /\ open[i] => Checked(t, i, l, r).stray = t.stray
<1> DEFINE c == [state |-> [t.state EXCEPT ![i] = "EATING"],
                 sem |-> [t.sem EXCEPT ![i] = @ + 1],
                 at |-> [t.at EXCEPT ![i] = IF @ = "asleep" THEN "wait" ELSE @],
                 stray |-> t.stray \/ ~open[i]]
<1>1. c \in Tables
  BY DEF Tables, PhiloPcs
<1>2. MayEat(t, i, l, r) => Checked(t, i, l, r) = c
  BY DEF Checked, Told, Tables
<1>3. ~MayEat(t, i, l, r) => Checked(t, i, l, r) = t
  BY DEF Checked
<1>4. open[i] => c.stray = t.stray
  BY DEF Tables
<1> QED BY <1>1, <1>2, <1>3, <1>4

\* It leaves a philosopher as it is, or grants one that was HUNGRY a unit.
SameAt(t, c, j) ==
  c.state[j] = t.state[j] /\ c.sem[j] = t.sem[j] /\ c.at[j] = t.at[j]

GrantedAt(t, c, j) ==
  /\ t.state[j] = "HUNGRY" /\ c.state[j] = "EATING" /\ c.sem[j] = t.sem[j] + 1
  /\ c.at[j] = IF t.at[j] = "asleep" THEN "wait" ELSE t.at[j]

Grants(t, c) ==
  c \in Tables /\ \A j \in Seats : SameAt(t, c, j) \/ GrantedAt(t, c, j)

LEMMA CheckedGrants ==
  ASSUME NEW t \in Tables, NEW i \in Seats, NEW l, NEW r
  PROVE  Grants(t, Checked(t, i, l, r))
<1> DEFINE c == Checked(t, i, l, r)
<1> SUFFICES Grants(t, c)
  OBVIOUS
<1>1. c \in Tables
  BY CheckedProperties
<1>2. CASE MayEat(t, i, l, r)
  <2>0. /\ c.state = [t.state EXCEPT ![i] = "EATING"]
        /\ c.sem = [t.sem EXCEPT ![i] = @ + 1]
        /\ c.at = [t.at EXCEPT ![i] = IF @ = "asleep" THEN "wait" ELSE @]
    BY <1>2, CheckedProperties
  <2> HIDE DEF c
  <2>1. ASSUME NEW j \in Seats PROVE SameAt(t, c, j) \/ GrantedAt(t, c, j)
    <3>1. CASE j = i
      <4>1. c.state[j] = "EATING" /\ c.sem[j] = t.sem[j] + 1
        BY <2>0, <3>1 DEF Tables
      <4>2. c.at[j] = IF t.at[j] = "asleep" THEN "wait" ELSE t.at[j]
        BY <2>0, <3>1 DEF Tables
      <4> QED BY <1>2, <3>1, <4>1, <4>2 DEF GrantedAt, MayEat
    <3>2. CASE j # i
      BY <2>0, <3>2 DEF Tables, SameAt
    <3> QED BY <3>1, <3>2
  <2> QED BY <1>1, <2>1 DEF Grants
<1>3. CASE ~MayEat(t, i, l, r)
  <2>1. c = t
    BY <1>3 DEF Checked
  <2> QED BY <2>1 DEF Grants, SameAt
<1> QED BY <1>2, <1>3

\* Nobody is granted twice.
LEMMA GrantsTransitive ==
  ASSUME NEW t \in Tables, NEW c, NEW d, Grants(t, c), Grants(c, d)
  PROVE  Grants(t, d)
BY DEF Grants, SameAt, GrantedAt, Tables

-----------------------------------------------------------------------------
(* The neighbours at a table of amountPh                                   *)

LEMMA NeighboursAtTable ==
  ASSUME amountPh \in Nat, NEW i \in AtTable
  PROVE  left(i) \in AtTable /\ right(i) \in AtTable
BY DEF AtTable, left, right

LEMMA NeighboursMutual ==
  ASSUME amountPh \in Nat, NEW i \in AtTable, NEW j \in AtTable
  PROVE  j = left(i) <=> i = right(j)
BY DEF AtTable, left, right

\* No two neighbours are EATING in the table t.
ExcludedIn(t) ==
  \A i, j \in AtTable :
    Neighbours(i, j) => ~(t.state[i] = "EATING" /\ t.state[j] = "EATING")

LEMMA CheckedExcludes ==
  ASSUME amountPh \in 0..MAX_PH, NEW t \in Tables, NEW i \in AtTable, ExcludedIn(t)
  PROVE  ExcludedIn(Checked(t, i, left(i), right(i)))
<1> DEFINE l == left(i)
           r == right(i)
           c == Checked(t, i, l, r)
<1> SUFFICES ExcludedIn(c)
  OBVIOUS
<1>1. /\ AtTable \subseteq Seats /\ i \in Seats /\ l \in Seats /\ r \in Seats
      /\ amountPh \in Nat
  BY MaxAssumption, NeighboursAtTable DEF AtTable, Seats
<1>2. CASE MayEat(t, i, l, r)
  <2>1. c.state = [t.state EXCEPT ![i] = "EATING"]
    BY <1>1, <1>2 DEF Checked, Told, Tables
  <2>2. t.state[l] # "EATING" /\ t.state[r] # "EATING"
    BY <1>2 DEF MayEat
  <2> SUFFICES ASSUME NEW a \in AtTable, NEW b \in AtTable, Neighbours(a, b),
                      c.state[a] = "EATING", c.state[b] = "EATING"
               PROVE  FALSE
    BY DEF ExcludedIn
  <2>3. a # b /\ (b = left(a) \/ b = right(a))
    BY DEF Neighbours
  <2>4. \A x \in AtTable : x # i => c.state[x] = t.state[x]
    BY <1>1, <2>1 DEF Tables
  <2>5. CASE a = i
    BY <2>2, <2>3, <2>4, <2>5
  <2>6. CASE b = i
    <3>1. a = right(i) \/ a = left(i)
      BY <1>1, <2>3, <2>6, NeighboursMutual
    <3> QED BY <3>1, <2>2, <2>3, <2>4, <2>6
  <2>7. CASE a # i /\ b # i
    BY <2>4, <2>7 DEF ExcludedIn
  <2> QED BY <2>5, <2>6, <2>7
<1>3. CASE ~MayEat(t, i, l, r)
  <2>1. c = t
    BY <1>3 DEF Checked
  <2> QED BY <2>1
<1> QED BY <1>2, <1>3

\* A philosopher in the table t was not overlooked.
LookedAt(t, k) ==
  t.state[k] = "HUNGRY" => t.state[left(k)] = "EATING" \/ t.state[right(k)] = "EATING"

LEMMA CheckedLooks ==
  ASSUME amountPh \in 0..MAX_PH, NEW t \in Tables, NEW i \in AtTable
  PROVE  /\ LookedAt(Checked(t, i, left(i), right(i)), i)
         /\ \A k \in AtTable :
              LookedAt(t, k) => LookedAt(Checked(t, i, left(i), right(i)), k)
<1> DEFINE l == left(i)
           r == right(i)
           c == Checked(t, i, l, r)
<1>1. /\ AtTable \subseteq Seats /\ i \in Seats /\ l \in Seats /\ r \in Seats
      /\ \A k \in AtTable : left(k) \in Seats /\ right(k) \in Seats
      /\ amountPh \in Nat
  BY MaxAssumption, NeighboursAtTable DEF AtTable, Seats
<1>2. CASE MayEat(t, i, l, r)
  <2>1. c.state = [t.state EXCEPT ![i] = "EATING"]
    BY <1>1, <1>2 DEF Checked, Told, Tables
  <2>2. \A k \in Seats : c.state[k] = IF k = i THEN "EATING" ELSE t.state[k]
    BY <2>1 DEF Tables
  <2> QED BY <1>1, <2>2 DEF LookedAt
<1>3. CASE ~MayEat(t, i, l, r)
  <2>1. c = t
    BY <1>3 DEF Checked
  <2> QED BY <1>3, <2>1 DEF MayEat, LookedAt
<1> QED BY <1>2, <1>3

-----------------------------------------------------------------------------
(* What the steps that change the table do at each place                   *)

LEMMA TableType ==
  ASSUME DiningTypeOK
  PROVE  /\ Table \in Tables
         /\ Table.state = state /\ Table.sem = philoSem /\ Table.at = at
         /\ Table.stray = stray
BY DEF DiningTypeOK, Table, Tables

Stays(j) == state'[j] = state[j] /\ philoSem'[j] = philoSem[j] /\ at'[j] = at[j]

IsGranted(j) ==
  /\ state[j] = "HUNGRY" /\ state'[j] = "EATING" /\ philoSem'[j] = philoSem[j] + 1
  /\ at'[j] = IF at[j] = "asleep" THEN "wait" ELSE at[j]

TableTyped == Table \in Tables

\* Lines 89-90: the philosopher is HUNGRY, or EATING and told so.
LEMMA TakeEffect ==
  ASSUME DiningTypeOK, SeatsTaken, NEW i \in Seats, takeChopsticks(i)
  PROVE  /\ TableTyped' /\ i \in AtTable
         /\ \A j \in Seats : j # i => Stays(j)
         /\ at'[i] = "wait"
         /\ \/ state'[i] = "HUNGRY" /\ philoSem'[i] = philoSem[i]
            \/ state'[i] = "EATING" /\ philoSem'[i] = philoSem[i] + 1
         /\ open[i] => stray' = stray
         /\ ExcludedIn(Table) => ExcludedIn(Table)'
         /\ state[i] # "EATING" /\ (\A k \in AtTable : LookedAt(Table, k)) =>
              \A k \in AtTable : LookedAt(Table, k)'
<1> DEFINE t == [Table EXCEPT !.state[i] = "HUNGRY"]
           l == left(i)
           r == right(i)
           c == Checked(t, i, l, r)
<1>1. /\ i \in AtTable /\ AtTable \subseteq Seats /\ amountPh \in 0..MAX_PH
      /\ amountPh \in Nat /\ UNCHANGED amountPh /\ Table \in Tables
  BY TableType, MaxAssumption DEF takeChopsticks, SeatsTaken, DiningTypeOK, AtTable, Seats
<1>2. /\ t \in Tables /\ t.sem = philoSem /\ t.at = at /\ t.stray = stray
      /\ t.state = [state EXCEPT ![i] = "HUNGRY"]
  BY TableType DEF Tables
<1>3. /\ state' = c.state /\ philoSem' = c.sem /\ stray' = c.stray
      /\ at' = [c.at EXCEPT ![i] = "wait"]
  BY DEF takeChopsticks, SetTable, Hungry
<1> HIDE DEF t
<1>4. /\ c \in Tables
      /\ ~MayEat(t, i, l, r) => c = t
      /\ MayEat(t, i, l, r) =>
           /\ c.state = [t.state EXCEPT ![i] = "EATING"]
           /\ c.sem = [t.sem EXCEPT ![i] = @ + 1]
           /\ c.at = [t.at EXCEPT ![i] = IF @ = "asleep" THEN "wait" ELSE @]
      /\ open[i] => c.stray = t.stray
  <2> HIDE DEF l, r
  <2>1. c \in Tables
    BY <1>2, CheckedProperties
  <2>2. ~MayEat(t, i, l, r) => c = t
    BY DEF Checked
  <2>3. ASSUME MayEat(t, i, l, r)
        PROVE  /\ c.state = [t.state EXCEPT ![i] = "EATING"]
               /\ c.sem = [t.sem EXCEPT ![i] = @ + 1]
               /\ c.at = [t.at EXCEPT ![i] = IF @ = "asleep" THEN "wait" ELSE @]
    BY <1>2, <2>3 DEF Checked, Told, Tables
  <2>4. open[i] => c.stray = t.stray
    BY <1>2 DEF Checked, Told, Tables, PhiloPcs
  <2> QED BY <2>1, <2>2, <2>3, <2>4
<1>5. ExcludedIn(t) => ExcludedIn(c)
  BY <1>1, <1>2, CheckedExcludes
<1>6. LookedAt(c, i) /\ \A k \in AtTable : LookedAt(t, k) => LookedAt(c, k)
  BY <1>1, <1>2, CheckedLooks
<1> HIDE DEF c, l, r
<1>7. TableTyped'
  BY <1>3, <1>4 DEF TableTyped, Table, Tables, PhiloPcs
<1>8. \A j \in Seats : j # i => Stays(j)
  BY <1>2, <1>3, <1>4, TableType DEF Stays, Tables
<1>9. /\ at'[i] = "wait"
      /\ \/ state'[i] = "HUNGRY" /\ philoSem'[i] = philoSem[i]
         \/ state'[i] = "EATING" /\ philoSem'[i] = philoSem[i] + 1
  BY <1>2, <1>3, <1>4, TableType DEF Tables
<1>10. ExcludedIn(Table) => ExcludedIn(Table)'
  <2>1. ASSUME ExcludedIn(Table) PROVE ExcludedIn(t)
    BY <1>1, <1>2, <2>1, TableType DEF ExcludedIn, Tables
  <2> QED BY <1>1, <1>3, <1>5, <2>1 DEF ExcludedIn, Table, AtTable, Neighbours, left, right
<1>11. state[i] # "EATING" /\ (\A k \in AtTable : LookedAt(Table, k)) =>
         \A k \in AtTable : LookedAt(Table, k)'
  <2> SUFFICES ASSUME state[i] # "EATING", NEW k \in AtTable, LookedAt(Table, k)
               PROVE  LookedAt(Table, k)'
    OBVIOUS
  <2>1. k # i => LookedAt(t, k)
    BY <1>1, <1>2, TableType, NeighboursAtTable DEF LookedAt, Tables
  <2>2. LookedAt(c, k)
    BY <1>6, <2>1
  <2> QED BY <1>1, <1>3, <2>2 DEF LookedAt, Table, left, right
<1> QED
  BY <1>1, <1>2, <1>3, <1>4, <1>7, <1>8, <1>9, <1>10, <1>11

LEMMA CheckedStray ==
  ASSUME NEW t \in Tables, NEW i, NEW l, NEW r, open[i]
  PROVE  Checked(t, i, l, r).stray = t.stray
BY DEF Checked, Told, Tables

\* A table change that only grants, followed by a philosopher that goes on.
LEMMA GrantsEffect ==
  ASSUME DiningTypeOK, NEW i \in Seats, NEW c, NEW x \in PhiloPcs,
         Grants([Table EXCEPT !.state[i] = "THINKING"], c),
         state' = c.state, philoSem' = c.sem, stray' = c.stray,
         at' = [c.at EXCEPT ![i] = x]
  PROVE  /\ TableTyped' /\ \A j \in Seats : j # i => Stays(j) \/ IsGranted(j)
         /\ state'[i] = "THINKING" /\ philoSem'[i] = philoSem[i] /\ at'[i] = x
<1> DEFINE t == [Table EXCEPT !.state[i] = "THINKING"]
<1>1. /\ t \in Tables /\ t.sem = philoSem /\ t.at = at /\ t.stray = stray
      /\ t.state = [state EXCEPT ![i] = "THINKING"]
  BY TableType DEF Tables
<1> HIDE DEF t
<1>2. c \in Tables /\ Grants(t, c)
  BY DEF Grants, t
<1>3. TableTyped'
  BY <1>2 DEF TableTyped, Table, Tables
<1>4. ASSUME NEW j \in Seats, j # i PROVE Stays(j) \/ IsGranted(j)
  <2>1. SameAt(t, c, j) \/ GrantedAt(t, c, j)
    BY <1>2 DEF Grants
  <2>2. at'[j] = c.at[j] /\ t.state[j] = state[j]
    BY <1>1, <1>2, <1>4 DEF Tables, DiningTypeOK
  <2> QED BY <1>1, <2>1, <2>2 DEF SameAt, GrantedAt, Stays, IsGranted
<1>5. SameAt(t, c, i) /\ at'[i] = x
  <2>1. t.state[i] = "THINKING"
    BY <1>1 DEF DiningTypeOK
  <2> QED BY <1>2, <2>1 DEF Grants, GrantedAt, Tables
<1>6. state'[i] = "THINKING" /\ philoSem'[i] = philoSem[i]
  BY <1>1, <1>5 DEF SameAt, DiningTypeOK
<1> QED BY <1>3, <1>4, <1>5, <1>6

\* Lines 101-104: the philosopher is THINKING, and its neighbours have been looked at.
LEMMA PutEffect ==
  ASSUME DiningTypeOK, SeatsTaken, NEW i \in Seats, putChopsticks(i)
  PROVE  /\ TableTyped' /\ i \in AtTable
         /\ \A j \in Seats : j # i => Stays(j) \/ IsGranted(j)
         /\ state'[i] = "THINKING" /\ philoSem'[i] = philoSem[i] /\ at'[i] = "thinking"
         /\ (\A j \in AtTable : open[j]) => stray' = stray
         /\ ExcludedIn(Table) => ExcludedIn(Table)'
         /\ (\A k \in AtTable : LookedAt(Table, k)) =>
              \A k \in AtTable : LookedAt(Table, k)'
<1> DEFINE t == [Table EXCEPT !.state[i] = "THINKING"]
           l == left(i)
           r == right(i)
           d == Checked(t, l, left(l), right(l))
           c == Checked(d, r, left(r), right(r))
<1>1. /\ i \in AtTable /\ AtTable \subseteq Seats /\ amountPh \in 0..MAX_PH
      /\ amountPh \in Nat /\ UNCHANGED amountPh /\ Table \in Tables
  BY TableType, MaxAssumption DEF putChopsticks, SeatsTaken, DiningTypeOK, AtTable, Seats
<1>2. /\ t \in Tables /\ t.sem = philoSem /\ t.at = at /\ t.stray = stray
      /\ t.state = [state EXCEPT ![i] = "THINKING"]
  BY TableType DEF Tables
<1>3. /\ state' = c.state /\ philoSem' = c.sem /\ stray' = c.stray
      /\ at' = [c.at EXCEPT ![i] = "thinking"]
  BY DEF putChopsticks, SetTable, Thinking
<1>4. l \in AtTable /\ r \in AtTable /\ l \in Seats /\ r \in Seats
  BY <1>1, NeighboursAtTable
<1>5. /\ Grants(t, c)
      /\ d \in Tables
      /\ open[l] /\ open[r] => c.stray = stray
      /\ ExcludedIn(t) => ExcludedIn(c)
      /\ LookedAt(c, l) /\ LookedAt(c, r)
      /\ \A k \in AtTable : LookedAt(t, k) => LookedAt(c, k)
  <2> HIDE DEF t, l, r
  <2>1. Grants(t, d) /\ d \in Tables
    BY <1>2, <1>4, CheckedGrants DEF Grants
  <2>2. Grants(d, c)
    <3> HIDE DEF d
    <3> QED BY <1>4, <2>1, CheckedGrants
  <2>3. Grants(t, c)
    <3> HIDE DEF d, c
    <3> QED BY <1>2, <2>1, <2>2, GrantsTransitive
  <2>4. open[l] => d.stray = stray
    BY <1>2, CheckedStray
  <2>5. open[r] => c.stray = d.stray
    <3> HIDE DEF d
    <3> QED BY <2>1, CheckedStray
  <2>6. ExcludedIn(t) => ExcludedIn(d)
    BY <1>1, <1>2, <1>4, CheckedExcludes
  <2>7. ExcludedIn(d) => ExcludedIn(c)
    <3> HIDE DEF d
    <3> QED BY <1>1, <1>4, <2>1, CheckedExcludes
  <2>8. LookedAt(d, l) /\ \A k \in AtTable : LookedAt(t, k) => LookedAt(d, k)
    BY <1>1, <1>2, <1>4, CheckedLooks
  <2>9. LookedAt(c, r) /\ \A k \in AtTable : LookedAt(d, k) => LookedAt(c, k)
    <3> HIDE DEF d
    <3> QED BY <1>1, <1>4, <2>1, CheckedLooks
  <2> HIDE DEF c, d
  <2> QED BY <1>4, <2>1, <2>3, <2>4, <2>5, <2>6, <2>7, <2>8, <2>9
<1> HIDE DEF c, d
<1>6. /\ TableTyped' /\ \A j \in Seats : j # i => Stays(j) \/ IsGranted(j)
      /\ state'[i] = "THINKING" /\ philoSem'[i] = philoSem[i] /\ at'[i] = "thinking"
  <2>1. "thinking" \in PhiloPcs
    BY DEF PhiloPcs
  <2> QED BY <1>3, <1>5, <2>1, GrantsEffect
<1> HIDE DEF t
<1>7. (\A j \in AtTable : open[j]) => stray' = stray
  BY <1>3, <1>4, <1>5
<1>8. ExcludedIn(Table) => ExcludedIn(Table)'
  <2>1. ASSUME ExcludedIn(Table) PROVE ExcludedIn(t)
    BY <1>1, <1>2, <2>1, TableType DEF ExcludedIn, Tables
  <2> HIDE DEF l, r
  <2> QED BY <1>1, <1>3, <1>5, <2>1 DEF ExcludedIn, Table, AtTable, Neighbours, left, right
<1>9. (\A k \in AtTable : LookedAt(Table, k)) => \A k \in AtTable : LookedAt(Table, k)'
  <2> SUFFICES ASSUME NEW k \in AtTable, LookedAt(Table, k)
               PROVE  LookedAt(Table, k)'
    OBVIOUS
  <2>1. LookedAt(c, k)
    <3>1. CASE k = l \/ k = r
      BY <3>1, <1>5
    <3>2. CASE k # l /\ k # r
      <4>1. left(k) # i /\ right(k) # i
        BY <1>1, <3>2, NeighboursMutual
      <4>2. LookedAt(t, k)
        <5>1. left(k) \in Seats /\ right(k) \in Seats
          BY <1>1, NeighboursAtTable
        <5> QED BY <1>1, <1>2, <4>1, <5>1, TableType DEF LookedAt, Tables
      <4> QED BY <1>5, <4>2
    <3> QED BY <3>1, <3>2
  <2> QED BY <1>1, <1>3, <2>1 DEF LookedAt, Table, left, right
<1> QED
  BY <1>1, <1>6, <1>7, <1>8, <1>9

\* Lines 134-147: besides the removed philosopher itself, some that were HUNGRY are
\* granted, all of them at the table.
LEMMA RemoveEffect ==
  ASSUME DiningTypeOK, AtMenu, OpenAtTable, deletePh, at[amountPh - 1] # "asleep"
  PROVE  LET i == amountPh - 1
         IN  /\ TableTyped' /\ i \in Seats
             /\ \A j \in Seats : j # i => Stays(j) \/ IsGranted(j)
             /\ philoSem'[i] = 0 /\ at'[i] = "none" /\ stray' = stray
<1> DEFINE i == amountPh - 1
           last == i - 1
           t == Checked(Table, last, IF last - 1 < 0 THEN last ELSE last - 1, 0)
           d == Checked(t, 0, last, IF last = 0 THEN 0 ELSE 1)
           c == Left(i)
<1>1. /\ i \in Seats /\ amountPh \in 1..MAX_PH /\ Table \in Tables
      /\ \A j \in AtTable : open[j]
  BY TableType, MaxAssumption DEF deletePh, DiningTypeOK, Seats, AtMenu, OpenAtTable
<1>2. /\ state' = c.state /\ philoSem' = [c.sem EXCEPT ![i] = 0]
      /\ stray' = c.stray /\ at' = [c.at EXCEPT ![i] = "none"]
  <2>1. SetTable([c EXCEPT !.sem[i] = 0], i, "none")
    BY DEF deletePh
  <2>2. c \in Tables
    <3>1. CASE c = Table
      BY <1>1, <3>1
    <3>2. CASE c # Table
      <4>1. state[i] = "EATING" /\ i # 0 /\ c = d
        BY <3>2 DEF Left
      <4>2. last \in Seats /\ 0 \in Seats
        BY <1>1, <4>1, MaxAssumption DEF Seats
      <4>3. t \in Tables
        BY <1>1, <4>2, CheckedGrants DEF Grants
      <4> HIDE DEF t
      <4> QED BY <4>1, <4>2, <4>3, CheckedGrants DEF Grants
    <3> QED BY <3>1, <3>2
  <2> HIDE DEF c
  <2> QED BY <2>1, <2>2 DEF SetTable, Tables
<1>3. Grants(Table, c) /\ SameAt(Table, c, i) /\ c.stray = stray
  <2>1. CASE state[i] # "EATING" \/ i = 0
    <3>1. c = Table
      BY <2>1 DEF Left
    <3> QED BY <1>1, <3>1, TableType DEF Grants, SameAt
  <2>2. CASE state[i] = "EATING" /\ i # 0
    <3>1. c = d
      BY <2>2 DEF Left
    <3>2. /\ last \in Seats /\ 0 \in Seats /\ last \in AtTable /\ 0 \in AtTable
          /\ last # i
      BY <1>1, <2>2, MaxAssumption DEF Seats, AtTable
    <3>3. Grants(Table, t) /\ t \in Tables
      BY <1>1, <3>2, CheckedGrants DEF Grants
    <3>4. t.stray = stray
      BY <1>1, <3>2, CheckedStray, TableType
    <3>5. Grants(t, d) /\ d.stray = stray
      <4> HIDE DEF t
      <4>1. Grants(t, d)
        BY <3>2, <3>3, CheckedGrants
      <4>2. d.stray = t.stray
        BY <1>1, <3>2, <3>3, CheckedStray
      <4> QED BY <3>4, <4>1, <4>2
    <3> HIDE DEF t, d, c
    <3>6. Grants(Table, c)
      BY <1>1, <3>1, <3>3, <3>5, GrantsTransitive
    <3>7. SameAt(Table, c, i)
      BY <1>1, <2>2, <3>6, TableType DEF Grants, GrantedAt
    <3> QED BY <3>1, <3>5, <3>6, <3>7
  <2> QED BY <2>1, <2>2
<1> HIDE DEF c
<1>4. c \in Tables
  BY <1>3 DEF Grants
<1>5. TableTyped'
  <2>1. "none" \in PhiloPcs /\ 0 \in Nat
    BY DEF PhiloPcs
  <2> QED BY <1>2, <1>4, <2>1 DEF TableTyped, Table, Tables
<1>6. ASSUME NEW j \in Seats, j # i PROVE Stays(j) \/ IsGranted(j)
  <2>1. SameAt(Table, c, j) \/ GrantedAt(Table, c, j)
    BY <1>3 DEF Grants
  <2>2. at'[j] = c.at[j] /\ philoSem'[j] = c.sem[j]
    BY <1>2, <1>4, <1>6 DEF Tables
  <2> QED BY <1>2, <2>1, <2>2, TableType DEF SameAt, GrantedAt, Stays, IsGranted
<1>7. philoSem'[i] = 0 /\ at'[i] = "none" /\ stray' = stray
  BY <1>1, <1>2, <1>3, <1>4 DEF Tables
<1> QED BY <1>1, <1>5, <1>6, <1>7
-----------------------------------------------------------------------------
(* The steps                                                               *)

\* DiningIInv without the bound of philoSem, which follows from SpareBounds.
Parts ==
  /\ TableTyped
  /\ amountPh \in 0..MAX_PH /\ mutex \in {0, 1} /\ open \in [Seats -> BOOLEAN]
  /\ main \in MainPcs /\ {removed, reseated, refused, stray} \subseteq BOOLEAN
  /\ SeatsTaken /\ OneHolder /\ SleepsRightly /\ RestsThinking
  /\ SpareBounds /\ OpenAtTable /\ NoStrayPost /\ StatesExclude /\ Looked

LEMMA PartsSuffice == Parts => DiningIInv
<1> SUFFICES ASSUME Parts PROVE DiningIInv
  OBVIOUS
<1>1. /\ state \in [Seats -> {"THINKING", "EATING", "HUNGRY"}]
      /\ philoSem \in [Seats -> Nat] /\ at \in [Seats -> PhiloPcs]
  BY DEF Parts, TableTyped, Tables, Table
<1>2. ASSUME NEW i \in Seats PROVE philoSem[i] \in 0..2
  <2>1. philoSem[i] + Ate(i) - Granted(i) <= 1
    BY DEF Parts, SpareBounds, Spare
  <2>2. Ate(i) \in {0, 1} /\ Granted(i) \in {0, 1} /\ philoSem[i] \in Nat
    BY <1>1 DEF Ate, Granted
  <2> QED BY <2>1, <2>2
<1>3. philoSem \in [Seats -> 0..2]
  BY <1>1, <1>2
<1> QED BY <1>1, <1>3 DEF Parts, DiningIInv, DiningTypeOK

\* What the invariant says of numbers and functions, once for every step.
LEMMA IInvFacts ==
  ASSUME DiningIInv
  PROVE  /\ DiningTypeOK /\ SeatsTaken /\ OneHolder /\ SleepsRightly /\ RestsThinking
         /\ SpareBounds /\ OpenAtTable /\ NoStrayPost /\ StatesExclude /\ Looked
         /\ TableTyped
         /\ amountPh \in Nat /\ MAX_PH \in Nat \ {0} /\ amountPh <= MAX_PH
         /\ AtTable \subseteq Seats /\ Seats \subseteq Nat
         /\ \A i \in Seats : i \in AtTable <=> i < amountPh
         /\ \A i \in Seats : /\ philoSem[i] \in Nat /\ Spare(i) \in Int
                             /\ Ate(i) \in {0, 1} /\ Granted(i) \in {0, 1}
         /\ at \in [Seats -> PhiloPcs]
<1>1. DiningTypeOK /\ TableTyped
  BY TableType DEF DiningIInv, TableTyped
<1>2. /\ amountPh \in Nat /\ MAX_PH \in Nat \ {0} /\ amountPh <= MAX_PH
      /\ AtTable \subseteq Seats /\ Seats \subseteq Nat
      /\ \A i \in Seats : i \in AtTable <=> i < amountPh
  BY <1>1, MaxAssumption DEF DiningTypeOK, AtTable, Seats
<1>3. \A i \in Seats : /\ philoSem[i] \in Nat /\ Spare(i) \in Int
                       /\ Ate(i) \in {0, 1} /\ Granted(i) \in {0, 1}
  BY <1>1 DEF DiningTypeOK, Spare, Ate, Granted
<1> QED BY <1>1, <1>2, <1>3 DEF DiningIInv, DiningTypeOK

\* A place where nothing happened, or to which chopsticks were granted.
LEMMA PlaceKept ==
  ASSUME DiningIInv, NEW j \in Seats, Stays(j) \/ IsGranted(j)
  PROVE  /\ Spare(j)' = Spare(j)
         /\ at'[j] = "none" <=> at[j] = "none"
         /\ at'[j] \in {"take", "put"} <=> at[j] \in {"take", "put"}
         /\ at'[j] = "asleep" => philoSem'[j] = 0
         /\ at'[j] \in {"thinking", "take"} => state'[j] = "THINKING"
<1>1. /\ philoSem[j] \in Nat
      /\ at[j] = "asleep" => philoSem[j] = 0
      /\ at[j] \in {"thinking", "take"} => state[j] = "THINKING"
  BY IInvFacts DEF SleepsRightly, RestsThinking
<1>2. CASE Stays(j)
  BY <1>1, <1>2 DEF Stays, Spare, Ate, Granted
<1>3. CASE IsGranted(j)
  BY <1>1, <1>3 DEF IsGranted, Spare, Ate, Granted
<1> QED BY <1>2, <1>3

LEMMA LockStep ==
  ASSUME DiningIInv, NEW i \in Seats, LockMutex(i)
  PROVE  Parts'
<1>1. /\ mutex = 1 /\ mutex' = 0
      /\ at[i] \in {"thinking", "eating"}
      /\ at' = [at EXCEPT ![i] = IF at[i] = "thinking" THEN "take" ELSE "put"]
      /\ UNCHANGED <<state, amountPh, philoSem, open, main>> /\ UNCHANGED History
  BY IInvFacts DEF LockMutex, GoesTo, DiningTypeOK
<1> USE IInvFacts DEF History
<1>2. TableTyped'
  BY <1>1 DEF TableTyped, Table, Tables, PhiloPcs
<1>3. SeatsTaken'
  BY <1>1 DEF SeatsTaken
<1>4. OneHolder'
  BY <1>1 DEF OneHolder
<1>5. SleepsRightly' /\ RestsThinking'
  BY <1>1 DEF SleepsRightly, RestsThinking
<1>6. \A j \in Seats : Spare(j)' = Spare(j)
  BY <1>1 DEF Spare, Ate, Granted
<1>7. SpareBounds'
  BY <1>1, <1>6 DEF SpareBounds, LeftOpen, AtTable
<1>8. OpenAtTable' /\ NoStrayPost' /\ StatesExclude' /\ Looked'
  BY <1>1 DEF OpenAtTable, NoStrayPost, StatesExclude, Looked, AtTable, Neighbours,
              left, right
<1> QED BY <1>1, <1>2, <1>3, <1>4, <1>5, <1>7, <1>8 DEF Parts, DiningTypeOK

LEMMA TakeStep ==
  ASSUME DiningIInv, NEW i \in Seats, takeChopsticks(i)
  PROVE  Parts'
<1>1. /\ at[i] = "take" /\ mutex = 0 /\ mutex' = 1
      /\ UNCHANGED <<amountPh, open, main, removed, reseated, refused>>
      /\ state[i] = "THINKING"
  BY IInvFacts DEF takeChopsticks, OneHolder, RestsThinking
<1>2. /\ TableTyped' /\ i \in AtTable
      /\ \A j \in Seats : j # i => Stays(j)
      /\ at'[i] = "wait"
      /\ \/ state'[i] = "HUNGRY" /\ philoSem'[i] = philoSem[i]
         \/ state'[i] = "EATING" /\ philoSem'[i] = philoSem[i] + 1
      /\ open[i] => stray' = stray
      /\ ExcludedIn(Table) => ExcludedIn(Table)'
      /\ (\A k \in AtTable : LookedAt(Table, k)) => \A k \in AtTable : LookedAt(Table, k)'
  <2>1. state[i] # "EATING"
    BY <1>1
  <2> QED BY <2>1, IInvFacts, TakeEffect
<1>3. \A j \in Seats :
        /\ Spare(j)' = Spare(j)
        /\ at'[j] = "none" <=> at[j] = "none"
        /\ at'[j] \in {"take", "put"} <=> at[j] \in {"take", "put"} /\ j # i
        /\ at'[j] = "asleep" => philoSem'[j] = 0
        /\ at'[j] \in {"thinking", "take"} => state'[j] = "THINKING"
  <2>1. ASSUME NEW j \in Seats, j # i
        PROVE  /\ Spare(j)' = Spare(j)
               /\ at'[j] = "none" <=> at[j] = "none"
               /\ at'[j] \in {"take", "put"} <=> at[j] \in {"take", "put"} /\ j # i
               /\ at'[j] = "asleep" => philoSem'[j] = 0
               /\ at'[j] \in {"thinking", "take"} => state'[j] = "THINKING"
    BY <1>2, <2>1, PlaceKept
  <2>2. Spare(i)' = Spare(i)
    BY <1>1, <1>2, IInvFacts DEF Spare, Ate, Granted
  <2> QED BY <1>1, <1>2, <2>1, <2>2
<1> USE IInvFacts
<1>4. SeatsTaken'
  BY <1>1, <1>3 DEF SeatsTaken
<1>5. OneHolder'
  BY <1>1, <1>3 DEF OneHolder
<1>6. SleepsRightly' /\ RestsThinking'
  BY <1>3 DEF SleepsRightly, RestsThinking
<1>7. SpareBounds'
  BY <1>1, <1>3 DEF SpareBounds, LeftOpen, AtTable
<1>8. OpenAtTable' /\ NoStrayPost'
  BY <1>1, <1>2 DEF OpenAtTable, NoStrayPost, AtTable
<1>9. StatesExclude'
  BY <1>1, <1>2, TableType
  DEF StatesExclude, ExcludedIn, Table
<1>10. Looked'
  BY <1>1, <1>2, TableType DEF Looked, LookedAt, Table, AtTable
<1>11. stray' \in BOOLEAN
  BY <1>2 DEF TableTyped, Table, Tables
<1> QED BY <1>1, <1>2, <1>4, <1>5, <1>6, <1>7, <1>8, <1>9, <1>10, <1>11 DEF Parts, DiningTypeOK

LEMMA WaitStep ==
  ASSUME DiningIInv, NEW i \in Seats, WaitChopsticks(i)
  PROVE  Parts'
<1>1. /\ at[i] = "wait"
      /\ UNCHANGED <<state, amountPh, mutex, open, main>> /\ UNCHANGED History
      /\ \/ /\ philoSem[i] > 0 /\ philoSem' = [philoSem EXCEPT ![i] = @ - 1]
            /\ at' = [at EXCEPT ![i] = "eating"]
         \/ /\ philoSem[i] = 0 /\ UNCHANGED philoSem
            /\ at' = [at EXCEPT ![i] = "asleep"]
  BY DEF WaitChopsticks, GoesTo
<1> USE IInvFacts DEF History
<1>2. TableTyped'
  <2>1. /\ state \in [Seats -> {"THINKING", "EATING", "HUNGRY"}]
        /\ philoSem \in [Seats -> Nat]
    BY DEF DiningTypeOK
  <2>2. philoSem' \in [Seats -> Nat] /\ at' \in [Seats -> PhiloPcs]
    BY <1>1, <2>1 DEF PhiloPcs
  <2> QED BY <1>1, <2>1, <2>2 DEF TableTyped, Table, Tables, DiningTypeOK
<1>3. SeatsTaken'
  BY <1>1 DEF SeatsTaken
<1>4. OneHolder'
  BY <1>1 DEF OneHolder
<1>5. SleepsRightly' /\ RestsThinking'
  BY <1>1 DEF SleepsRightly, RestsThinking, DiningTypeOK
<1>6. \A j \in Seats : Spare(j)' = Spare(j)
  BY <1>1 DEF Spare, Ate, Granted, DiningTypeOK
<1>7. SpareBounds'
  BY <1>1, <1>6 DEF SpareBounds, LeftOpen, AtTable
<1>8. OpenAtTable' /\ NoStrayPost' /\ StatesExclude' /\ Looked'
  BY <1>1 DEF OpenAtTable, NoStrayPost, StatesExclude, Looked, AtTable, Neighbours,
              left, right
<1> QED BY <1>1, <1>2, <1>3, <1>4, <1>5, <1>7, <1>8 DEF Parts, DiningTypeOK

LEMMA PutStep ==
  ASSUME DiningIInv, NEW i \in Seats, putChopsticks(i)
  PROVE  Parts'
<1>1. /\ at[i] = "put" /\ mutex = 0 /\ mutex' = 1
      /\ UNCHANGED <<amountPh, open, main, removed, reseated, refused>>
  BY IInvFacts DEF putChopsticks, OneHolder
<1>2. /\ TableTyped' /\ i \in AtTable
      /\ \A j \in Seats : j # i => Stays(j) \/ IsGranted(j)
      /\ state'[i] = "THINKING" /\ philoSem'[i] = philoSem[i] /\ at'[i] = "thinking"
      /\ (\A j \in AtTable : open[j]) => stray' = stray
      /\ ExcludedIn(Table) => ExcludedIn(Table)'
      /\ (\A k \in AtTable : LookedAt(Table, k)) => \A k \in AtTable : LookedAt(Table, k)'
  BY IInvFacts, PutEffect
<1>3. \A j \in Seats :
        /\ j # i => Spare(j)' = Spare(j)
        /\ at'[j] = "none" <=> at[j] = "none"
        /\ at'[j] \in {"take", "put"} <=> at[j] \in {"take", "put"} /\ j # i
        /\ at'[j] = "asleep" => philoSem'[j] = 0
        /\ at'[j] \in {"thinking", "take"} => state'[j] = "THINKING"
  <2>1. ASSUME NEW j \in Seats, j # i
        PROVE  /\ Spare(j)' = Spare(j)
               /\ at'[j] = "none" <=> at[j] = "none"
               /\ at'[j] \in {"take", "put"} <=> at[j] \in {"take", "put"} /\ j # i
               /\ at'[j] = "asleep" => philoSem'[j] = 0
               /\ at'[j] \in {"thinking", "take"} => state'[j] = "THINKING"
    BY <1>2, <2>1, PlaceKept
  <2> QED BY <1>1, <1>2, <2>1
\* It returns at least what it was granted.
<1>4. Spare(i)' <= Spare(i) /\ Spare(i)' \in Nat
  <2>1. philoSem[i] + 1 - Granted(i) = Spare(i)
    BY <1>1, IInvFacts DEF Spare, Ate
  <2>2. Spare(i)' = philoSem[i]
    BY <1>2, IInvFacts DEF Spare, Ate, Granted
  <2> QED BY <2>1, <2>2, IInvFacts
<1> USE IInvFacts
<1>5. SeatsTaken'
  BY <1>1, <1>3 DEF SeatsTaken
<1>6. OneHolder'
  BY <1>1, <1>3 DEF OneHolder
<1>7. SleepsRightly' /\ RestsThinking'
  BY <1>3 DEF SleepsRightly, RestsThinking
<1>8. SpareBounds'
  <2>1. \A j \in Seats : Spare(j)' <= Spare(j) /\ Spare(j)' \in Int /\ Spare(j) \in Int
    BY <1>3, <1>4
  <2>2. \A j \in Seats : Spare(j) >= 0 => Spare(j)' >= 0
    BY <1>3, <1>4
  <2> QED BY <1>1, <2>1, <2>2 DEF SpareBounds, LeftOpen, AtTable
<1>9. OpenAtTable' /\ NoStrayPost'
  BY <1>1, <1>2 DEF OpenAtTable, NoStrayPost, AtTable
<1>10. StatesExclude'
  BY <1>1, <1>2, TableType DEF StatesExclude, ExcludedIn, Table
<1>11. Looked'
  BY <1>1, <1>2, TableType DEF Looked, LookedAt, Table, AtTable
<1>12. stray' \in BOOLEAN
  BY <1>2 DEF TableTyped, Table, Tables
<1> QED BY <1>1, <1>2, <1>5, <1>6, <1>7, <1>8, <1>9, <1>10, <1>11, <1>12 DEF Parts, DiningTypeOK

LEMMA AddStep ==
  ASSUME DiningIInv, addPh
  PROVE  Parts'
<1>0. PICK n \in Seats : n = amountPh
  BY IInvFacts, MaxAssumption DEF addPh, Seats
<1> USE <1>0
<1>1. /\ main = "menu" /\ mutex > 0 /\ n \in Seats /\ amountPh' = n + 1
      /\ state' = [state EXCEPT ![n] = "THINKING"]
      /\ philoSem' = [philoSem EXCEPT ![n] = IF open[n] THEN philoSem[n] ELSE 1]
      /\ open' = [open EXCEPT ![n] = TRUE]
      /\ at' = [at EXCEPT ![n] = "thinking"]
      /\ UNCHANGED <<mutex, main, removed, refused, stray>>
  BY IInvFacts, MaxAssumption DEF addPh, AtMenu, GoesTo, Seats
<1>2. /\ reseated' \in BOOLEAN
      /\ ~reseated' => /\ ~reseated
                       /\ n > 0 => state[0] # "HUNGRY" /\ state[n - 1] # "HUNGRY"
  BY IInvFacts DEF addPh, DiningTypeOK
<1> USE IInvFacts
<1>3. TableTyped'
  <2>1. /\ state \in [Seats -> {"THINKING", "EATING", "HUNGRY"}]
        /\ philoSem \in [Seats -> Nat]
    BY DEF DiningTypeOK
  <2>2. /\ state' \in [Seats -> {"THINKING", "EATING", "HUNGRY"}]
        /\ philoSem' \in [Seats -> Nat] /\ at' \in [Seats -> PhiloPcs]
    BY <1>1, <2>1 DEF PhiloPcs
  <2> QED BY <1>1, <2>2 DEF TableTyped, Table, Tables, DiningTypeOK
<1>4. SeatsTaken'
  BY <1>1 DEF SeatsTaken
<1>5. OneHolder'
  BY <1>1 DEF OneHolder
<1>6. SleepsRightly' /\ RestsThinking'
  BY <1>1 DEF SleepsRightly, RestsThinking, DiningTypeOK
\* A semaphore that was left open has at most the unit that was not eaten with.
<1>7. /\ \A j \in Seats : j # n => Spare(j)' = Spare(j)
      /\ Spare(n)' \in {0, 1}
  <2>1. \A j \in Seats : j # n => Spare(j)' = Spare(j)
    BY <1>1 DEF Spare, Ate, Granted, DiningTypeOK
  <2>2. Spare(n)' = philoSem'[n]
    <3>1. state'[n] = "THINKING" /\ at'[n] = "thinking" /\ philoSem'[n] \in Int
      BY <1>1 DEF DiningTypeOK
    <3> QED BY <3>1 DEF Spare, Ate, Granted
  <2>3. CASE open[n]
    <3>1. Spare(n) <= 0 /\ at[n] = "none"
      BY <1>1, <2>3 DEF SpareBounds, LeftOpen, SeatsTaken
    <3>2. philoSem[n] - Granted(n) = Spare(n)
      BY <1>1, <3>1 DEF Spare, Ate
    <3>3. philoSem'[n] = philoSem[n]
      BY <1>1, <2>3 DEF DiningTypeOK
    <3> QED BY <1>1, <2>1, <2>2, <3>1, <3>2, <3>3
  <2>4. CASE ~open[n]
    <3>1. philoSem'[n] = 1
      BY <1>1, <2>4 DEF DiningTypeOK
    <3> QED BY <2>1, <2>2, <3>1
  <2> QED BY <2>3, <2>4
<1>8. SpareBounds'
  <2>1. \A j \in Seats : j \in AtTable' <=> j \in AtTable \/ j = n
    BY <1>1 DEF AtTable
  <2>2. \A j \in AtTable' : j \in Seats
    BY <1>1 DEF AtTable, Seats
  <2>3. \A j \in Seats : j # n => (LeftOpen(j)' => LeftOpen(j))
    BY <1>1 DEF LeftOpen, DiningTypeOK
  <2>4. ~LeftOpen(n)'
    BY <1>1 DEF LeftOpen
  <2> QED BY <1>1, <1>7, <2>1, <2>2, <2>3, <2>4 DEF SpareBounds
<1>9. OpenAtTable' /\ NoStrayPost'
  BY <1>1 DEF OpenAtTable, NoStrayPost, AtTable, DiningTypeOK
\* The new philosopher is THINKING, and the others have no new neighbours.
<1>10. \A j \in Seats : state'[j] = IF j = n THEN "THINKING" ELSE state[j]
  BY <1>1 DEF DiningTypeOK
<1>11. StatesExclude'
  <2> SUFFICES ASSUME ~removed, NEW i \in AtTable', NEW j \in AtTable', Neighbours(i, j)',
                      state'[i] = "EATING", state'[j] = "EATING"
               PROVE  FALSE
    BY <1>1 DEF StatesExclude
  <2>1. i \in Seats /\ j \in Seats /\ i <= n /\ j <= n
    BY <1>1 DEF AtTable, Seats
  <2>2. i # n /\ j # n /\ state[i] = "EATING" /\ state[j] = "EATING"
    BY <1>10, <2>1
  <2>3. i \in AtTable /\ j \in AtTable /\ Neighbours(i, j)
    BY <1>1, <2>1, <2>2 DEF AtTable, Neighbours, left, right
  <2> QED BY <1>1, <2>2, <2>3 DEF StatesExclude
<1>12. Looked'
  <2> SUFFICES ASSUME ~removed, ~reseated', NEW k \in AtTable', state'[k] = "HUNGRY"
               PROVE  state'[left(k)'] = "EATING" \/ state'[right(k)'] = "EATING"
    BY <1>1 DEF Looked, left, right
  <2>1. k \in Seats /\ k <= n
    BY <1>1 DEF AtTable, Seats
  <2>2. k # n /\ state[k] = "HUNGRY" /\ k \in AtTable
    BY <1>10, <2>1 DEF AtTable, Seats
  <2>3. k # 0 /\ k # n - 1
    BY <1>2, <2>1, <2>2
  <2>4. left(k)' = left(k) /\ right(k)' = right(k) /\ left(k) \in AtTable /\ right(k) \in AtTable
    BY <1>1, <2>2, <2>3 DEF left, right, AtTable
  <2>5. state[left(k)] = "EATING" \/ state[right(k)] = "EATING"
    BY <1>1, <1>2, <2>2 DEF Looked
  <2>6. left(k) # n /\ right(k) # n /\ left(k) \in Seats /\ right(k) \in Seats
    BY <2>4 DEF AtTable
  <2> QED BY <1>10, <2>4, <2>5, <2>6
<1> QED
  BY <1>1, <1>2, <1>3, <1>4, <1>5, <1>6, <1>8, <1>9, <1>11, <1>12 DEF Parts, DiningTypeOK, Seats

LEMMA DeleteStep ==
  ASSUME DiningIInv, deletePh
  PROVE  Parts'
<1>0. PICK i : i = amountPh - 1
  OBVIOUS
<1> USE <1>0
<1>1. /\ main = "menu" /\ mutex > 0 /\ mutex = 1 /\ amountPh > 0 /\ UNCHANGED <<main, reseated>>
  BY IInvFacts DEF deletePh, AtMenu, DiningTypeOK
<1>2. CASE at[i] = "asleep"
  <2>1. /\ refused' = TRUE /\ mutex' = 0
        /\ UNCHANGED <<state, amountPh, philoSem, open, at, removed, stray>>
    BY <1>1, <1>2 DEF deletePh
  <2> USE IInvFacts
  <2>2. TableTyped' /\ SeatsTaken' /\ SleepsRightly' /\ RestsThinking' /\ OneHolder'
    BY <1>1, <2>1 DEF TableTyped, Table, SeatsTaken, SleepsRightly, RestsThinking, OneHolder
  <2>3. SpareBounds'
    BY <1>1, <2>1 DEF SpareBounds, LeftOpen, AtTable, Spare, Ate, Granted
  <2>4. OpenAtTable' /\ NoStrayPost' /\ StatesExclude' /\ Looked'
    BY <1>1, <2>1 DEF OpenAtTable, NoStrayPost, StatesExclude, Looked, AtTable, Neighbours,
                      left, right
  <2> QED BY <1>1, <2>1, <2>2, <2>3, <2>4 DEF Parts, DiningTypeOK
<1>3. CASE at[i] # "asleep"
  <2>1. /\ open' = [open EXCEPT ![i] = FALSE] /\ amountPh' = i /\ removed' = TRUE
        /\ UNCHANGED <<mutex, refused>>
    BY <1>3 DEF deletePh
  <2>2. /\ TableTyped' /\ i \in Seats
        /\ \A j \in Seats : j # i => Stays(j) \/ IsGranted(j)
        /\ philoSem'[i] = 0 /\ at'[i] = "none" /\ stray' = stray
    BY <1>3, IInvFacts, RemoveEffect DEF deletePh
  <2>3. \A j \in Seats : j # i =>
          /\ Spare(j)' = Spare(j)
          /\ at'[j] = "none" <=> at[j] = "none"
          /\ at'[j] \in {"take", "put"} <=> at[j] \in {"take", "put"}
          /\ at'[j] = "asleep" => philoSem'[j] = 0
          /\ at'[j] \in {"thinking", "take"} => state'[j] = "THINKING"
    BY <2>2, PlaceKept
  <2>4. Spare(i)' = 0 - Granted(i)' /\ Granted(i)' \in {0, 1}
    BY <2>2 DEF Spare, Ate, Granted
  <2> USE IInvFacts
  <2>5. SeatsTaken'
    BY <1>1, <2>1, <2>2, <2>3 DEF SeatsTaken
  <2>6. OneHolder'
    BY <1>1, <2>1, <2>2, <2>3 DEF OneHolder
  <2>7. SleepsRightly' /\ RestsThinking'
    BY <2>2, <2>3 DEF SleepsRightly, RestsThinking
  <2>8. SpareBounds'
    <3>1. \A j \in Seats : LeftOpen(j)' => LeftOpen(j) /\ j # i
      BY <1>1, <2>1, <2>2 DEF LeftOpen, DiningTypeOK
    <3>2. \A j \in AtTable' : j \in AtTable /\ j # i
      BY <1>1, <2>1 DEF AtTable
    <3> QED BY <1>1, <2>3, <2>4, <3>1, <3>2 DEF SpareBounds
  <2>9. OpenAtTable' /\ NoStrayPost'
    BY <1>1, <2>1, <2>2 DEF OpenAtTable, NoStrayPost, AtTable, DiningTypeOK
  <2>10. StatesExclude' /\ Looked'
    BY <2>1 DEF StatesExclude, Looked
  <2>11. stray' \in BOOLEAN /\ amountPh' \in 0..MAX_PH
    BY <1>1, <2>1, <2>2 DEF DiningTypeOK
  <2> QED BY <1>1, <2>1, <2>2, <2>5, <2>6, <2>7, <2>8, <2>9, <2>10, <2>11 DEF Parts, DiningTypeOK
<1> QED BY <1>2, <1>3

\* Steps of endDining, and the keys that lead to it: there is no promise until the
\* next dining.
LEMMA QuitStep ==
  ASSUME DiningIInv, Quit
  PROVE  Parts'
<1>1. /\ main = "menu" /\ main' = "end"
      /\ UNCHANGED <<state, amountPh, mutex, philoSem, open, at>> /\ UNCHANGED History
  BY DEF Quit
<1> USE IInvFacts DEF History
<1>2. TableTyped' /\ SeatsTaken' /\ SleepsRightly' /\ RestsThinking' /\ OneHolder'
  BY <1>1 DEF TableTyped, Table, SeatsTaken, SleepsRightly, RestsThinking, OneHolder
<1>3. SpareBounds'
  BY <1>1 DEF SpareBounds, LeftOpen, AtTable, Spare, Ate, Granted
<1>4. OpenAtTable' /\ NoStrayPost' /\ StatesExclude' /\ Looked'
  BY <1>1 DEF OpenAtTable, NoStrayPost, StatesExclude, Looked
<1> QED BY <1>1, <1>2, <1>3, <1>4 DEF Parts, DiningTypeOK, MainPcs

LEMMA EndStep ==
  ASSUME DiningIInv, endDining
  PROVE  Parts'
<1> DEFINE i == amountPh - 1
<1>1. UNCHANGED <<state, mutex, removed, reseated, refused, stray>>
  BY DEF endDining, History
<1> USE IInvFacts
<1>2. ASSUME main # "menu", main' # "menu", main' \in MainPcs, TableTyped', SeatsTaken',
             OneHolder', SleepsRightly', RestsThinking', SpareBounds',
             amountPh' \in 0..MAX_PH, open' \in [Seats -> BOOLEAN]
      PROVE  Parts'
  BY <1>1, <1>2 DEF Parts, OpenAtTable, NoStrayPost, StatesExclude, Looked, DiningTypeOK
<1>3. CASE main = "end" /\ amountPh > 0
  <2>1. /\ main' = "endKill" /\ UNCHANGED <<at, amountPh>> /\ i \in Seats
        /\ \/ at[i] = "asleep" /\ UNCHANGED <<open, philoSem>>
           \/ /\ open' = [open EXCEPT ![i] = FALSE]
              /\ philoSem' = [philoSem EXCEPT ![i] = 0]
    BY <1>3 DEF endDining, DiningTypeOK, Seats
  <2>2. TableTyped' /\ open' \in [Seats -> BOOLEAN]
    <3>1. /\ state \in [Seats -> {"THINKING", "EATING", "HUNGRY"}]
          /\ philoSem \in [Seats -> Nat] /\ open \in [Seats -> BOOLEAN]
      BY DEF DiningTypeOK
    <3>2. philoSem' \in [Seats -> Nat]
      BY <2>1, <3>1
    <3>3. open' \in [Seats -> BOOLEAN]
      BY <2>1, <3>1
    <3> QED BY <1>1, <2>1, <3>1, <3>2, <3>3 DEF TableTyped, Table, Tables, DiningTypeOK
  <2>3. SeatsTaken' /\ OneHolder'
    BY <1>1, <1>3, <2>1 DEF SeatsTaken, OneHolder
  <2>4. SleepsRightly' /\ RestsThinking'
    BY <1>1, <2>1 DEF SleepsRightly, RestsThinking, DiningTypeOK
  <2>5. SpareBounds'
    <3>1. \A j \in Seats : Spare(j)' <= Spare(j) /\ Spare(j)' \in Int
      <4>1. ASSUME NEW j \in Seats
            PROVE  /\ Ate(j)' = Ate(j) /\ Granted(j)' = Granted(j)
                   /\ philoSem'[j] \in {0, philoSem[j]}
        BY <1>1, <2>1 DEF Ate, Granted, DiningTypeOK
      <4> QED BY <4>1 DEF Spare
\* Whoever is asleep has no unit.
    <3>2. at[i] = "asleep" => Spare(i) <= 0
      BY <2>1 DEF Spare, Ate, SleepsRightly
    <3>3. \A j \in Seats : LeftOpen(j)' => LeftOpen(j) \/ (j = i /\ at[i] = "asleep")
      BY <1>3, <2>1 DEF LeftOpen, DiningTypeOK
    <3>4. \A j \in Seats : LeftOpen(j)' => Spare(j) <= 0
      BY <3>2, <3>3 DEF SpareBounds
    <3> QED BY <2>1, <3>1, <3>4 DEF SpareBounds
  <2> QED BY <1>2, <1>3, <2>1, <2>2, <2>3, <2>4, <2>5 DEF MainPcs, DiningTypeOK
<1>4. CASE main = "endKill"
  <2>1. /\ at' = [at EXCEPT ![i] = "none"] /\ main' = "endLess" /\ i \in Seats
        /\ UNCHANGED <<open, philoSem, amountPh>>
    BY <1>4 DEF endDining, GoesTo, DiningTypeOK, Seats, SeatsTaken
  <2>2. TableTyped'
    BY <1>1, <2>1 DEF TableTyped, Table, Tables, PhiloPcs
  <2>3. SeatsTaken' /\ OneHolder'
    BY <1>1, <1>4, <2>1 DEF SeatsTaken, OneHolder
  <2>4. SleepsRightly' /\ RestsThinking'
    BY <1>1, <2>1 DEF SleepsRightly, RestsThinking
  <2>5. SpareBounds'
    <3>1. \A j \in Seats : Spare(j)' <= Spare(j) /\ Spare(j)' \in Int
      <4>1. ASSUME NEW j \in Seats
            PROVE  /\ Ate(j)' \in {0, Ate(j)} /\ Granted(j)' = Granted(j)
                   /\ philoSem'[j] = philoSem[j]
        BY <1>1, <2>1 DEF Ate, Granted
      <4> QED BY <4>1 DEF Spare
    <3>2. \A j \in Seats : LeftOpen(j)' <=> LeftOpen(j)
      BY <1>4, <2>1 DEF LeftOpen
    <3> QED BY <2>1, <3>1, <3>2 DEF SpareBounds
  <2> QED BY <1>2, <1>4, <2>1, <2>2, <2>3, <2>4, <2>5 DEF MainPcs, DiningTypeOK
<1>5. CASE main = "endLess"
  <2>1. /\ amountPh' = i /\ main' = "end" /\ amountPh > 0
        /\ UNCHANGED <<open, philoSem, at>>
    BY <1>5 DEF endDining, SeatsTaken
  <2>2. TableTyped' /\ OneHolder' /\ SleepsRightly' /\ RestsThinking'
    BY <1>1, <2>1 DEF TableTyped, Table, OneHolder, SleepsRightly, RestsThinking
  <2>3. SeatsTaken' /\ amountPh' \in 0..MAX_PH
    BY <1>5, <2>1 DEF SeatsTaken, DiningTypeOK
  <2>4. SpareBounds'
    <3>1. \A j \in Seats : Spare(j)' = Spare(j) /\ (LeftOpen(j)' => LeftOpen(j))
      BY <1>1, <1>5, <2>1 DEF Spare, Ate, Granted, LeftOpen
    <3> QED BY <2>1, <3>1 DEF SpareBounds
  <2> QED BY <1>2, <1>5, <2>1, <2>2, <2>3, <2>4 DEF MainPcs, DiningTypeOK
<1>6. CASE main = "end" /\ amountPh = 0
  <2>1. main' = "exited" /\ UNCHANGED <<open, philoSem, at, amountPh>>
    BY <1>6 DEF endDining
  <2>2. TableTyped' /\ OneHolder' /\ SleepsRightly' /\ RestsThinking' /\ SeatsTaken'
    BY <1>1, <1>6, <2>1
    DEF TableTyped, Table, OneHolder, SleepsRightly, RestsThinking, SeatsTaken
  <2>3. SpareBounds'
    BY <1>1, <1>6, <2>1 DEF SpareBounds, Spare, Ate, Granted, LeftOpen
  <2> QED BY <1>2, <1>6, <2>1, <2>2, <2>3 DEF MainPcs, DiningTypeOK
<1> QED BY <1>3, <1>4, <1>5, <1>6 DEF endDining

LEMMA AgainStep ==
  ASSUME DiningIInv, philo
  PROVE  Parts'
<1>1. /\ main = "exited" /\ main' = "menu" /\ mutex' \in {0, 1} /\ amountPh = 0
      /\ removed' = FALSE /\ reseated' = FALSE /\ refused' \in BOOLEAN
      /\ stray' = FALSE
      /\ UNCHANGED <<state, amountPh, philoSem, open, at>>
  <2>1. mutex \in {0, 1}
    BY IInvFacts DEF DiningTypeOK
  <2>2. refused' \in BOOLEAN
    BY DEF philo
  <2> QED BY IInvFacts, <2>1, <2>2 DEF philo, SeatsTaken
<1> USE IInvFacts
<1>2. AtTable' = {}
  BY <1>1 DEF AtTable
<1>3. \A i \in Seats : at[i] = "none"
  BY <1>1 DEF SeatsTaken, Seats
<1>4. TableTyped' /\ SeatsTaken' /\ SleepsRightly' /\ RestsThinking' /\ OneHolder'
  <2>1. TableTyped'
    BY <1>1 DEF TableTyped, Table, Tables
  <2> QED BY <1>1, <1>3, <2>1 DEF SeatsTaken, SleepsRightly, RestsThinking, OneHolder
<1>5. SpareBounds'
  BY <1>1, <1>2 DEF SpareBounds, LeftOpen, Spare, Ate, Granted
<1>6. OpenAtTable' /\ NoStrayPost' /\ StatesExclude' /\ Looked'
  BY <1>1, <1>2 DEF OpenAtTable, NoStrayPost, StatesExclude, Looked
<1> QED BY <1>1, <1>4, <1>5, <1>6 DEF Parts, DiningTypeOK, MainPcs
-----------------------------------------------------------------------------
(* The theorems                                                            *)

LEMMA InitInvariant == DiningInit => DiningIInv
<1> SUFFICES ASSUME DiningInit PROVE DiningIInv
  OBVIOUS
<1>1. DiningTypeOK
  <2>1. amountPh \in 0..MAX_PH
    BY MaxAssumption DEF DiningInit
  <2>2. /\ state \in [Seats -> {"THINKING", "EATING", "HUNGRY"}]
        /\ philoSem \in [Seats -> 0..2] /\ open \in [Seats -> BOOLEAN]
        /\ at \in [Seats -> PhiloPcs]
    BY DEF DiningInit, PhiloPcs
  <2> QED BY <2>1, <2>2 DEF DiningInit, DiningTypeOK, MainPcs
<1>2. AtTable = {}
  BY DEF DiningInit, AtTable
<1>3. SeatsTaken
  BY MaxAssumption DEF DiningInit, SeatsTaken, Seats
<1>4. OneHolder /\ SleepsRightly /\ RestsThinking
  BY DEF DiningInit, OneHolder, SleepsRightly, RestsThinking
<1>5. SpareBounds
  BY <1>2 DEF DiningInit, SpareBounds, LeftOpen, Spare, Ate, Granted
<1>6. OpenAtTable /\ NoStrayPost /\ StatesExclude /\ Looked
  BY <1>2 DEF DiningInit, OpenAtTable, NoStrayPost, StatesExclude, Looked
<1> QED BY <1>1, <1>3, <1>4, <1>5, <1>6 DEF DiningIInv

\* Every step of the philosophers, of addPh, deletePh and endDining keeps the
\* invariant (philo.c:48-208).
THEOREM DiningInvariance == DiningSpec => []DiningIInv
<1>1. DiningIInv /\ [DiningNext]_diningVars => DiningIInv'
  <2> SUFFICES ASSUME DiningIInv, [DiningNext]_diningVars PROVE DiningIInv'
    OBVIOUS
  <2>1. Parts => DiningIInv
    BY PartsSuffice
  <2>2. (Parts => DiningIInv)'
    BY PartsSuffice, PTL
  <2>3. CASE UNCHANGED diningVars
    <3>1. UNCHANGED DiningIInv
      BY <2>3 DEF diningVars, DiningIInv, DiningTypeOK, SeatsTaken, OneHolder, SleepsRightly,
                 RestsThinking,
                 SpareBounds, LeftOpen, Spare, Ate, Granted, OpenAtTable, NoStrayPost,
                 StatesExclude, Looked, AtTable, Neighbours, left, right
    <3> QED BY <3>1
  <2>4. CASE DiningNext
    <3>1. Parts'
      BY <2>4, LockStep, TakeStep, WaitStep, PutStep, AddStep, DeleteStep, QuitStep, EndStep,
         AgainStep DEF DiningNext, Philosopher
    <3> QED BY <3>1, <2>2
  <2> QED BY <2>3, <2>4
<1> QED BY <1>1, InitInvariant, PTL DEF DiningSpec

\* Between two keys no two neighbours have been granted chopsticks, while nobody was
\* removed, and no closed semaphore is posted (philo.c:98-125, 128-151).
THEOREM GrantedApart == DiningSpec => []DiningInv
<1>1. DiningIInv => DiningInv
  BY DEF DiningIInv, DiningInv
<1> QED BY <1>1, DiningInvariance, PTL

\* The unit with which addPh opens a semaphore, or finds it open, is spent at most once
\* (philo.c:56, 93, 114).
THEOREM SpareUnitOnce == DiningSpec => []OneSpareUnit
<1>1. DiningIInv => OneSpareUnit
  <2> SUFFICES ASSUME DiningIInv, NEW i \in AtTable, main = "menu"
               PROVE  philoSem[i] + Ate(i) - Granted(i) \in {0, 1}
    BY DEF OneSpareUnit
  <2>1. i \in Seats /\ Spare(i) \in Int
    BY IInvFacts
  <2>2. Spare(i) <= 1 /\ Spare(i) >= 0
    BY <2>1 DEF DiningIInv, SpareBounds
  <2> QED BY <2>1, <2>2 DEF Spare
<1> QED BY <1>1, DiningInvariance, PTL

\* A hungry philosopher has a neighbour that is EATING and will look at it again
\* (philo.c:86-117).
THEOREM HungryIsLookedAt == DiningSpec => []NobodyForgotten
<1>1. DiningIInv => NobodyForgotten
  BY DEF DiningIInv, Looked, NobodyForgotten
<1> QED BY <1>1, DiningInvariance, PTL
=============================================================================
