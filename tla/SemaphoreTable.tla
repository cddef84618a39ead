--------------------------- MODULE SemaphoreTable ---------------------------
(***************************************************************************)
(* The kernel's table of semaphores (Kernel/utils/semaphore.c: sem_open,   *)
(* sem_close, deleteProcessFromSemaphores) and the handles that processes  *)
(* hold on them.                                                           *)
(*                                                                         *)
(* A handle is the address of a semaphore, so that it outlives a           *)
(* sem_close, which counts no holders; a freed semaphore keeps its         *)
(* contents until its memory is handed out again, here only for another    *)
(* semaphore.  A program is a closer, as test_sync and the philosophers    *)
(* are, who all close the same numbers, or exits without closing as inc    *)
(* does.                                                                   *)
(*                                                                         *)
(* Every call is one step: it runs with interrupts off.  A waiter that was *)
(* woken looks at the value again with interrupts on.  That is one step    *)
(* here, or the end of what this module follows: a timer interrupt hits    *)
(* the waiter after it blocked and before it is queued.  Module Semaphore  *)
(* follows what comes of such hits.  A second free of the same address is  *)
(* the other end: what alloc returns then is not known.                    *)
(***************************************************************************)
EXTENDS Integers, Sequences, FiniteSets, SequencesExt

CONSTANTS
  Procs,       \* the processes, at most as many as a queue has slots
  Closers,     \* those of them whose program closes what it opened
  Values,      \* bound: the values with which semaphores are opened
  Ids,         \* numbers of semaphores
  Cells,       \* addresses that alloc returns for a semaphore
  MAX_SEM,     \* the number of entries of the table
  MaxValue,    \* bound: the largest value a semaphore reaches
  NULL

ASSUME ProcsAssumption == Closers \subseteq Procs
ASSUME CellsAssumption ==
  NULL \notin Cells /\ MAX_SEM \in Nat /\ IsFiniteSet(Cells) /\ MAX_SEM <= Cardinality(Cells)
ASSUME ValueAssumption ==
  MaxValue \in Nat \ {0} /\ Values \subseteq Int /\ \A v \in Values : v <= MaxValue

OpenedWith == -1..1
Symmetry   == Permutations(Closers) \union Permutations(Ids) \union Permutations(Cells)

VARIABLES
  semaphores,  \* the entries below size
  mutexSem,    \* 1 while the table is locked
  cell,        \* what memory holds at each address: id, value and queue
  used,        \* the addresses that are allocated
  holds,       \* the handle a process has for a number, or NULL
  pstate,      \* "ready", "blocked", "spin" (interrupts off) or "dead"
  wants,       \* the handle a process is in sem_wait of, or NULL
  seen         \* history: which disturbances have happened so far

vars == <<semaphores, mutexSem, cell, used, holds, pstate, wants, seen>>
table == <<semaphores, mutexSem, used>>

\* A semaphore was closed that another process held; a process was killed that was
\* queued behind another one; a woken waiter was interrupted before it was queued again;
\* a semaphore was freed again through a handle that had outlived it.
Disturbances == {"orphaned", "killedBehind", "hit", "freedTwice"}

\* The module follows the behaviour up to here.
Followed == seen \intersect {"hit", "freedTwice"} = {}

Indices == 1..Len(semaphores)
\* A process that spins with interrupts off is the last one that ever runs.
Runs(p) ==
  pstate[p] = "ready" /\ wants[p] = NULL /\ \A q \in Procs : pstate[q] # "spin"
-----------------------------------------------------------------------------
Init ==
  /\ semaphores = <<>> /\ mutexSem = 0
  /\ cell = [c \in Cells |-> [id |-> NULL, value |-> 0, queue |-> <<>>]]
  /\ used = {}
  /\ holds = [p \in Procs |-> [i \in Ids |-> NULL]]
  /\ pstate = [p \in Procs |-> "ready"]
  /\ wants = [p \in Procs |-> NULL]
  /\ seen = {}

Spin(p) ==
  /\ mutexSem = 1
  /\ pstate' = [pstate EXCEPT ![p] = "spin"]
  /\ UNCHANGED <<table, cell, holds, wants, seen>>

\* Wrong on purpose: the last entry is not looked at.
FoundEarlier(id) == {i \in 1..(Len(semaphores) - 1) : cell[semaphores[i]].id = id}

\* The entries with the number id.
Found(id) == {i \in Indices : cell[semaphores[i]].id = id}

\* Line 24, which leaves the table locked.
OpenRefused(value) == Len(semaphores) = MAX_SEM \/ value < 0

sem_open(p, id, value) ==
  /\ Runs(p) /\ holds[p][id] = NULL
  /\ \/ Spin(p)
     \/ /\ mutexSem = 0 /\ OpenRefused(value)
        /\ mutexSem' = 1
        /\ UNCHANGED <<semaphores, cell, used, holds, pstate, wants, seen>>
     \/ /\ mutexSem = 0 /\ ~OpenRefused(value) /\ Found(id) # {}
        /\ \E i \in Found(id) : holds' = [holds EXCEPT ![p][id] = semaphores[i]]
        /\ UNCHANGED <<table, cell, pstate, wants, seen>>
     \/ /\ mutexSem = 0 /\ ~OpenRefused(value) /\ Found(id) = {}
        /\ \E c \in Cells \ used :
             /\ semaphores' = Append(semaphores, c)
             /\ used' = used \union {c}
             /\ cell' = [cell EXCEPT ![c] = [id |-> id, value |-> value, queue |-> <<>>]]
             /\ holds' = [holds EXCEPT ![p][id] = c]
        /\ UNCHANGED <<mutexSem, pstate, wants, seen>>

\* Lines 60-64.
Removed(i) == RemoveAt(semaphores, i)

\* sem_close looks for the number it reads through the handle: the entry that it
\* removes need not be the semaphore that it frees.
sem_close(p, id) ==
  LET h == holds[p][id]
      others == {q \in Procs \ {p} : holds[q][id] = h /\ pstate[q] # "dead"}
      orphaned == IF others = {} THEN {} ELSE {"orphaned"}
      freedTwice == IF h \in used THEN {} ELSE {"freedTwice"}
  IN  /\ Runs(p) /\ p \in Closers /\ h # NULL
      /\ cell[h].queue = <<>>
      /\ \/ Spin(p)
         \/ /\ mutexSem = 0
            /\ \/ /\ Found(cell[h].id) = {} /\ UNCHANGED <<semaphores, used, seen>>
               \/ /\ \E i \in Found(cell[h].id) : semaphores' = Removed(i)
                  /\ used' = used \ {h}
                  /\ seen' = seen \union orphaned \union freedTwice
            /\ holds' = [holds EXCEPT ![p][id] = NULL]
            /\ UNCHANGED <<mutexSem, cell, pstate, wants>>

HasUnit(h) == cell[h].value > 0

\* The value is taken, or the process is queued.
Taken(p, h) ==
  \/ /\ HasUnit(h)
     /\ cell' = [cell EXCEPT ![h].value = @ - 1]
     /\ wants' = [wants EXCEPT ![p] = NULL]
     /\ UNCHANGED pstate
  \/ /\ ~HasUnit(h)
     /\ cell' = [cell EXCEPT ![h].queue = Append(@, p)]
     /\ wants' = [wants EXCEPT ![p] = h]
     /\ pstate' = [pstate EXCEPT ![p] = "blocked"]

sem_wait(p, id) ==
  /\ Runs(p) /\ holds[p][id] # NULL
  /\ Taken(p, holds[p][id])
  /\ UNCHANGED <<table, holds, seen>>

Woken(p) ==
  pstate[p] = "ready" /\ wants[p] # NULL /\ \A q \in Procs : pstate[q] # "spin"

\* A woken waiter looks at the value again.
Resume(p) ==
  /\ Woken(p)
  /\ Taken(p, wants[p])
  /\ UNCHANGED <<table, holds, seen>>

\* The timer interrupts it in line 79, behind blockCurrentProcess: its pcb is not in
\* the queue yet, and nobody runs it so that it would get there.
Hit(p) ==
  /\ Woken(p) /\ ~HasUnit(wants[p])
  /\ pstate' = [pstate EXCEPT ![p] = "blocked"]
  /\ seen' = seen \union {"hit"}
  /\ UNCHANGED <<table, cell, holds, wants>>

\* Wrong on purpose: the woken process stays in the queue.
NotDequeued(q) == q

Dequeued(q) == Tail(q)

sem_post(p, id) ==
  LET h == holds[p][id]
  IN  /\ Runs(p) /\ h # NULL /\ cell[h].value < MaxValue
      /\ IF cell[h].queue = <<>>
         THEN /\ cell' = [cell EXCEPT ![h].value = @ + 1]
              /\ UNCHANGED pstate
         ELSE /\ cell' = [cell EXCEPT ![h].value = @ + 1, ![h].queue = Dequeued(@)]
              /\ pstate' = [pstate EXCEPT ![Head(cell[h].queue)] =
                              IF @ = "dead" THEN @ ELSE "ready"]
      /\ UNCHANGED <<table, holds, wants, seen>>

\* deleteProcessFromSemaphores takes the first slot out of the first queue of the
\* table that has p in it, whichever slot p has.
Queues(p) == {i \in Indices : p \in Range(cell[semaphores[i]].queue)}
First(s)  == CHOOSE i \in s : \A j \in s : i <= j

\* The end of a process, killed or of its own.
KillPid(p) ==
  /\ pstate[p] \in {"ready", "blocked"} /\ \A q \in Procs : pstate[q] # "spin"
  /\ pstate' = [pstate EXCEPT ![p] = "dead"]
  /\ IF Queues(p) = {} THEN UNCHANGED <<cell, seen>>
     ELSE LET c == semaphores[First(Queues(p))]
          IN  /\ cell' = [cell EXCEPT ![c].queue = Dequeued(@)]
              /\ seen' = IF Head(cell[c].queue) = p THEN seen
                         ELSE seen \union {"killedBehind"}
  /\ holds' = [holds EXCEPT ![p] = [i \in Ids |-> NULL]]
  /\ wants' = [wants EXCEPT ![p] = NULL]
  /\ UNCHANGED table

\* A new process in the place of an ended one, whose pcb no queue points to.
createProcess(p) ==
  /\ pstate[p] = "dead" /\ \A q \in Procs : pstate[q] # "spin"
  /\ \A c \in Cells : p \notin Range(cell[c].queue)
  /\ pstate' = [pstate EXCEPT ![p] = "ready"]
  /\ UNCHANGED <<table, cell, holds, wants, seen>>

Next ==
  /\ Followed
  /\ \E p \in Procs :
       \/ \E id \in Ids, v \in Values : sem_open(p, id, v)
       \/ \E id \in Ids : sem_close(p, id) \/ sem_wait(p, id) \/ sem_post(p, id)
       \/ Resume(p) \/ Hit(p)
       \/ KillPid(p)
       \/ createProcess(p)

Spec == Init /\ [][Next]_vars
-----------------------------------------------------------------------------
(* Properties                                                              *)

TypeOK ==
  /\ semaphores \in Seq(Cells) /\ Len(semaphores) <= MAX_SEM
  /\ mutexSem \in {0, 1}
  /\ cell \in [Cells -> [id : Ids \union {NULL}, value : 0..MaxValue, queue : Seq(Procs)]]
  /\ used \subseteq Cells
  /\ holds \in [Procs -> [Ids -> Cells \union {NULL}]]
  /\ pstate \in [Procs -> {"ready", "blocked", "spin", "dead"}]
  /\ wants \in [Procs -> Cells \union {NULL}]
  /\ seen \subseteq Disturbances

\* A number has at most one entry in the table, so that whoever opens it gets the
\* same semaphore.
UniqueIds ==
  \A i, j \in Indices : cell[semaphores[i]].id = cell[semaphores[j]].id => i = j

\* Until a semaphore is freed again through a handle that outlived it, the table has an
\* entry for every semaphore that is allocated and for no other, however often
\* semaphores are closed under their holders: none leaks.  And that takes a close under
\* a holder before: while those who close are the only holders nothing is freed twice.
TableIsAllocated ==
  /\ "freedTwice" \notin seen =>
       Range(semaphores) = used /\ Len(semaphores) = Cardinality(used)
  /\ "freedTwice" \in seen => "orphaned" \in seen

\* The invariant of the table.
Inv == TypeOK /\ UniqueIds /\ TableIsAllocated

\* Until a semaphore is closed under a holder, or the kill of a process in the middle
\* of a queue damages the queue, or the timer hits a woken waiter before it is queued,
\* every blocked process is in the queue of an entry, once, where sem_post and a kill
\* find it.
SleeperIsListed ==
  seen = {} =>
    \A p \in Procs :
      /\ pstate[p] = "blocked" => Cardinality(Queues(p)) = 1
      /\ pstate[p] # "blocked" => Queues(p) = {}
-----------------------------------------------------------------------------
(* What the documents promise and the code does not keep.                  *)

\* "if (sys_semClose(philoSem[index]) == -1) {" (philo.c:136): a close of what is closed
\* already is refused, so that nothing is freed twice.
ClosedOnce == "freedTwice" \notin seen

\* "if (sem == NULL){ printf("ERROR OPENING SEM\n")" (test_sync.c:60-61): a refused
\* open is reported to the program and the system goes on.
RefusalIsReported == \A p \in Procs : pstate[p] # "spin"

\* "int64_t global;  //shared memory" (test_sync.c:43), which inc protects with the
\* semaphore number SEM: processes that opened the same number share one semaphore.
SharedSemaphore ==
  \A p, q \in Procs, id \in Ids :
    holds[p][id] # NULL /\ holds[q][id] # NULL => holds[p][id] = holds[q][id]
=============================================================================
