----------------------------- MODULE Semaphore -----------------------------
(***************************************************************************)
(* One kernel semaphore (Kernel/utils/semaphore.c: sem_wait, sem_post,     *)
(* deleteProcessFromSemaphores) and the processes that use it the way      *)
(* test_sync's inc does: wait, critical section, post.                     *)
(*                                                                         *)
(* A system call starts with interrupts off, so the first turn of sem_wait *)
(* and all of sem_post are single steps.  A waiter that blocks resumes     *)
(* behind the `sti; int 20h` of runScheduler (Kernel/asm/libasm.asm):      *)
(*   - with interrupts on, so every later access is a step of its own and  *)
(*     the timer may interrupt between any two of them;                    *)
(*   - through the code of _xchg, which runScheduler falls into for lack   *)
(*     of a ret and which stores rsi = 0 at rdi = &sem->lock.              *)
(* The steps of a resumed waiter follow the order of the compiled accesses *)
(* of lines 75-86 (the build does not optimise).                           *)
(*                                                                         *)
(* The scheduler appears only through Tick: the timer may hand the CPU to  *)
(* any ready process.                                                      *)
(***************************************************************************)
EXTENDS Integers, FiniteSets

CONSTANTS
  Lockers,        \* processes that wait, work and post
  Posters,        \* processes that only post and kill others
  NoProcess,      \* the idle process; also an unused slot of the queue
  InitialValue,   \* the value the semaphore is opened with
  PROCESS_LIMIT,  \* the number of slots of the queue
  MaxPosts,       \* bound: how often the posters post
  MaxKills,       \* bound: how many lockers are ever killed
  MaxHits         \* bound: how often the timer hits a resumed sem_wait

ASSUME ProcessAssumption ==
  /\ Lockers \intersect Posters = {} /\ NoProcess \notin Lockers \union Posters
  /\ IsFiniteSet(Lockers) /\ IsFiniteSet(Posters)
ASSUME ValueAssumption == InitialValue \in Nat /\ PROCESS_LIMIT \in Nat \ {0}
ASSUME BoundAssumption == MaxPosts \in Nat /\ MaxKills \in Nat /\ MaxHits \in Nat

Procs == Lockers \union Posters
Slots == 0..(PROCESS_LIMIT - 1)

\* Where a process is.  "out" and "in" are user code; "failed" is user code after
\* a sem_wait that returned -1, which the program does not look at; "spin" is the
\* loop on a held lock with interrupts off; the others are the lines of a resumed
\* sem_wait.
UserPcs    == {"out", "in", "failed"}
ResumedPcs == {"test", "slot", "count", "block", "store", "load", "take"}
Pcs        == UserPcs \union ResumedPcs \union {"spin", "asleep", "dead"}

VARIABLES
  value,        \* sem->value
  queue,        \* sem->queue, by slot; slots from waiting on are stale
  waiting,      \* sem->waiting
  lock,         \* sem->lock
  pstate,       \* pcb.pstate of every process: 1 ready, 0 blocked
  pc,           \* where every process is
  reg,          \* the register a resumed process has loaded
  current,      \* the running process, or NoProcess
  posted,       \* history: posts of the posters so far
  hits,         \* history: timer interrupts of a resumed sem_wait so far
  seen          \* history: which disturbances have happened so far

sem  == <<value, queue, waiting, lock>>
vars == <<value, queue, waiting, lock, pstate, pc, reg, current, posted,
          hits, seen>>
hist == <<posted, hits, seen>>

\* Other disturbances: a sem_wait was refused, a process was killed, a process was
\* killed that was queued behind another one.
Disturbances == {"refused", "killed", "killedBehind"}

Queued == {queue[i] : i \in 0..(waiting - 1)}
Goto(p, l) == pc' = [pc EXCEPT ![p] = l]
-----------------------------------------------------------------------------
Init ==
  /\ value = InitialValue
  /\ queue = [i \in Slots |-> NoProcess]
  /\ waiting = 0
  /\ lock = 0
  /\ pstate = [p \in Procs |-> 1]
  /\ pc = [p \in Procs |-> "out"]
  /\ reg = [p \in Procs |-> 0]
  /\ current = NoProcess
  /\ posted = 0
  /\ hits = 0
  /\ seen = {}

\* The timer interrupt, in user code or in a resumed system call.
Tick ==
  /\ current \in Procs => pc[current] # "spin"
  /\ \E p \in {q \in Procs : pstate[q] = 1 /\ pc[q] # "dead"} \union {NoProcess} :
       current' = p
  /\ IF current \in Procs /\ pc[current] \in ResumedPcs
     THEN hits < MaxHits /\ hits' = hits + 1
     ELSE UNCHANGED hits
  /\ UNCHANGED <<sem, pstate, pc, reg, posted, seen>>

\* The end of a step that runs int 20h: any ready process goes on.
Switch(ps) ==
  \E p \in {q \in Procs : ps[q] = 1 /\ pc[q] # "dead"} \union {NoProcess} :
    current' = p

\* Lines 79-80 on the first turn.
Enqueued(p) ==
  /\ queue' = [queue EXCEPT ![waiting] = p]
  /\ waiting' = waiting + 1
  /\ lock' = 0

\* The system call finds the lock held and spins with interrupts off for good.
Spin(p) ==
  /\ lock = 1
  /\ Goto(p, "spin")
  /\ UNCHANGED <<sem, pstate, reg, current, hist>>

\* Wrong on purpose: the loop condition is one off.
SeesBelowZero(v) == v < 0

SeesZero(v) == v = 0

\* sem_wait with interrupts off: up to its return, or up to runScheduler.
SemWait(p) ==
  /\ current = p /\ p \in Lockers /\ pc[p] = "out"
  /\ \/ Spin(p)
     \/ /\ lock = 0 /\ ~SeesZero(value)
        /\ value' = value - 1
        /\ Goto(p, "in")
        /\ UNCHANGED <<queue, waiting, lock, pstate, reg, current, hist>>
     \/ /\ lock = 0 /\ SeesZero(value) /\ waiting = PROCESS_LIMIT
        /\ lock' = 1
        /\ Goto(p, "failed")
        /\ seen' = seen \union {"refused"}
        /\ UNCHANGED <<value, queue, waiting, pstate, reg, current, posted, hits>>
     \/ /\ lock = 0 /\ SeesZero(value) /\ waiting < PROCESS_LIMIT
        /\ Enqueued(p)
        /\ pstate' = [pstate EXCEPT ![p] = 0]
        /\ Goto(p, "asleep")
        /\ Switch(pstate')
        /\ UNCHANGED <<value, reg, hist>>

\* Back from runScheduler, through _xchg, which clears the lock.
Resume(p) ==
  /\ current = p /\ pc[p] = "asleep"
  /\ lock' = 0
  /\ Goto(p, "test")
  /\ UNCHANGED <<value, queue, waiting, pstate, reg, current, hist>>

\* Line 75 with interrupts on.
TestValue(p) ==
  /\ current = p /\ pc[p] = "test"
  /\ Goto(p, IF SeesZero(value) THEN "slot" ELSE "load")
  /\ UNCHANGED <<sem, pstate, reg, current, hist>>

\* Lines 76-77 and the load of sem->waiting in line 79.
TestWaiting(p) ==
  /\ current = p /\ pc[p] = "slot"
  /\ \/ /\ waiting = PROCESS_LIMIT
        /\ Goto(p, "failed") /\ seen' = seen \union {"refused"}
        /\ UNCHANGED reg
     \/ /\ waiting < PROCESS_LIMIT
        /\ Goto(p, "count") /\ reg' = [reg EXCEPT ![p] = waiting]
        /\ UNCHANGED seen
  /\ UNCHANGED <<sem, pstate, current, posted, hits>>

\* The store of sem->waiting in line 79.
CountWaiting(p) ==
  /\ current = p /\ pc[p] = "count"
  /\ waiting' = reg[p] + 1
  /\ Goto(p, "block")
  /\ UNCHANGED <<value, queue, lock, pstate, reg, current, hist>>

\* The call of blockCurrentProcess in line 79.
BlockCurrent(p) ==
  /\ current = p /\ pc[p] = "block"
  /\ pstate' = [pstate EXCEPT ![p] = 0]
  /\ Goto(p, "store")
  /\ UNCHANGED <<sem, reg, current, hist>>

\* The store into the queue, the release of the lock and the switch.  (A timer
\* interrupt after the store only anticipates the switch.)
StoreAndSwitch(p) ==
  /\ current = p /\ pc[p] = "store"
  /\ queue' = [queue EXCEPT ![reg[p]] = p]
  /\ lock' = 0
  /\ Goto(p, "asleep")
  /\ Switch(pstate)
  /\ UNCHANGED <<value, waiting, pstate, reg, hist>>

\* Line 84 is a load and a store.
LoadValue(p) ==
  /\ current = p /\ pc[p] = "load"
  /\ reg' = [reg EXCEPT ![p] = value]
  /\ Goto(p, "take")
  /\ UNCHANGED <<sem, pstate, current, hist>>

TakeValue(p) ==
  /\ current = p /\ pc[p] = "take"
  /\ value' = reg[p] - 1
  /\ lock' = 0
  /\ Goto(p, "in")
  /\ UNCHANGED <<queue, waiting, pstate, reg, current, hist>>

\* Wrong on purpose: the woken process stays in the queue.
NotDequeued == queue' = queue /\ waiting' = waiting

\* Lines 101-103.
Dequeued ==
  /\ waiting' = waiting - 1
  /\ queue' = [i \in Slots |-> IF i < waiting - 1 THEN queue[i+1] ELSE queue[i]]

\* Wrong on purpose: the post wakes nobody.
NobodyWoken == pstate' = pstate

\* Line 100.  Slot 0 is stale when a resumed waiter was interrupted before it
\* stored itself; a write to a dead process changes freed memory only.
Woken ==
  pstate' = IF queue[0] = NoProcess THEN pstate ELSE [pstate EXCEPT ![queue[0]] = 1]

\* sem_post with interrupts off.  A locker posts after its critical section.
SemPost(p) ==
  /\ current = p
  /\ \/ p \in Lockers /\ pc[p] \in {"in", "failed"}
     \/ p \in Posters /\ pc[p] = "out" /\ posted < MaxPosts
  /\ \/ Spin(p)
     \/ /\ lock = 0
        /\ value' = value + 1
        /\ IF waiting = 0 THEN UNCHANGED <<queue, waiting, pstate>>
                          ELSE Dequeued /\ Woken
        /\ Goto(p, "out")
        /\ posted' = IF p \in Posters THEN posted + 1 ELSE posted
        /\ UNCHANGED <<lock, reg, current, hits, seen>>

\* deleteProcessFromSemaphores: the process leaves the count, but it is the head
\* of the queue that is shifted out, whichever slot the process was found in.
Forgotten(p) ==
  IF p \in Queued THEN Dequeued ELSE UNCHANGED <<queue, waiting>>

\* killPid on a locker by a process in user code (the kill command, philo.c).
KillPid(p) ==
  /\ current \in Posters /\ pc[current] = "out"
  /\ p \in Lockers /\ pc[p] # "dead"
  /\ Cardinality({q \in Procs : pc[q] = "dead"}) < MaxKills
  /\ Forgotten(p)
  /\ pstate' = [pstate EXCEPT ![p] = 0]
  /\ Goto(p, "dead")
  /\ seen' = seen \union {"killed"} \union
                (IF p \in Queued /\ p # queue[0] THEN {"killedBehind"} ELSE {})
  /\ UNCHANGED <<value, lock, reg, current, posted, hits>>

Next ==
  \/ Tick
  \/ \E p \in Procs :
       \/ SemWait(p) \/ Resume(p) \/ TestValue(p) \/ TestWaiting(p)
       \/ CountWaiting(p) \/ BlockCurrent(p) \/ StoreAndSwitch(p)
       \/ LoadValue(p) \/ TakeValue(p) \/ SemPost(p)
       \/ KillPid(p)

Spec == Init /\ [][Next]_vars
-----------------------------------------------------------------------------
(* Properties                                                              *)

TypeOK ==
  /\ value \in Int
  /\ queue \in [Slots -> Procs \union {NoProcess}]
  /\ waiting \in 0..PROCESS_LIMIT
  /\ lock \in {0, 1}
  /\ pstate \in [Procs -> {0, 1}]
  /\ pc \in [Procs -> Pcs]
  /\ reg \in [Procs -> Int]
  /\ current \in Procs \union {NoProcess}
  /\ posted \in 0..MaxPosts /\ hits \in 0..MaxHits
  /\ seen \subseteq Disturbances

InSection == {p \in Procs : pc[p] \in {"in", "failed"}}

\* Units are neither created nor lost until the timer hits a resumed sem_wait, a
\* sem_wait is refused or a process is killed.  The unlocked second turn of the loop
\* is harmless while it runs undisturbed, although the woken process may be overtaken.
UnitsConserved ==
  hits = 0 /\ seen = {} =>
    value + Cardinality(InSection) = InitialValue + posted /\ value >= 0

\* The queue names, once each, the processes asleep in sem_wait, until the timer
\* hits a resumed sem_wait or a process queued behind another one is killed: no
\* waiter is forgotten, and a post finds the one it has to wake.
QueueIsBlocked ==
  /\ hits = 0 /\ "killedBehind" \notin seen
  /\ current \in Procs => pc[current] \notin {"block", "store"}
  => /\ \A i, j \in 0..(waiting - 1) : queue[i] = queue[j] => i = j
     /\ Queued = {p \in Procs : pc[p] = "asleep" /\ pstate[p] = 0}

\* No wake-up is lost until the timer hits a resumed sem_wait or a process is
\* killed: while somebody is queued, every unit of the value has a woken process
\* that has not taken it yet.
NoLostWakeup ==
  hits = 0 /\ "killed" \notin seen /\ waiting > 0 =>
    value <= Cardinality({p \in Procs : /\ pc[p] \in {"asleep"} \union ResumedPcs
                                        /\ pstate[p] = 1})

\* Under the same conditions sem_wait leaves the lock held only when the queue is
\* full (lines 76-77): with fewer processes than slots nobody spins with
\* interrupts off, and the lock is free whenever a system call begins.
LockedOnlyWhenFull ==
  hits = 0 /\ "killed" \notin seen /\ lock = 1 => waiting = PROCESS_LIMIT

\* The invariant of the queue and the lock: sem_post finds the sleepers, and a call
\* finds the lock free.
Inv == TypeOK /\ QueueIsBlocked /\ LockedOnlyWhenFull
-----------------------------------------------------------------------------
(* What the documents promise and the code does not keep.                  *)

\* "Prueba la sincronizacion de semaforos" (Readme.md:30): the processes of
\* test_sync are alone between sem_wait and sem_post, where they change the
\* "shared memory" of test_sync.c:43.
MutualExclusion == Cardinality(InSection) <= InitialValue

\* "Blocked Process" (semaphore.c:111): the queue that the sem command lists
\* under this title holds the processes blocked on the semaphore.
QueueListsBlocked ==
  current = NoProcess => Queued = {p \in Procs : pc[p] = "asleep" /\ pstate[p] = 0}
=============================================================================
