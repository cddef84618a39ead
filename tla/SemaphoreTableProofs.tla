------------------------ MODULE SemaphoreTableProofs ------------------------
(***************************************************************************)
(* Proofs about module SemaphoreTable: the table of semaphores is what is  *)
(* allocated, and every sleeper is in the queue of an entry, for every     *)
(* number of processes, semaphores and entries.                            *)
(*                                                                         *)
(* The table rests on every allocated semaphore having an entry, which     *)
(* holds until one is freed a second time; that a second free takes a      *)
(* close under a holder, and the queues, rest on everybody having his      *)
(* handles open, which holds until such a close.                           *)
(***************************************************************************)
EXTENDS SemaphoreTable, KernelLemmas, FiniteSetTheorems

\* The entries of the table are the allocated semaphores.
EntriesUsed == \A i \in Indices : semaphores[i] \in used
UsedEntered == \A c \in used : \E i \in Indices : semaphores[i] = c

\* What the processes hold are allocated semaphores of the number they opened.
HandlesOpen ==
  \A p \in Procs, id \in Ids : holds[p][id] # NULL =>
    holds[p][id] \in used /\ cell[holds[p][id]].id = id

\* A process that is over holds nothing, one that waits is alive, and one that is
\* blocked waits.
DeadHoldNothing == \A p \in Procs : pstate[p] = "dead" => \A id \in Ids : holds[p][id] = NULL
WaitersLive ==
  \A p \in Procs : /\ wants[p] # NULL => pstate[p] \in {"ready", "blocked"}
                   /\ pstate[p] = "blocked" => wants[p] # NULL

\* What a process waits for is one of its handles.
WantsHeld == \A p \in Procs : wants[p] # NULL => \E id \in Ids : holds[p][id] = wants[p]

\* The queue q of c names those blocked in sem_wait on c, once each.
QueueRight(c, q) ==
  /\ \A i, j \in 1..Len(q) : q[i] = q[j] => i = j
  /\ \A i \in 1..Len(q) : pstate[q[i]] = "blocked" /\ wants[q[i]] = c
  /\ \A p \in Procs : pstate[p] = "blocked" /\ wants[p] = c => \E i \in 1..Len(q) : q[i] = p

Undamaged ==
  HandlesOpen /\ WantsHeld /\ \A c \in used : QueueRight(c, cell[c].queue)

\* The table, until a close under a holder and until a second free.
TableOK ==
  /\ UniqueIds /\ EntriesUsed
  /\ "freedTwice" \notin seen => UsedEntered
  /\ "orphaned" \notin seen => HandlesOpen
  /\ "freedTwice" \in seen => "orphaned" \in seen

Base == TypeOK /\ TableOK /\ DeadHoldNothing /\ WaitersLive

IInv == Base /\ (seen = {} => Undamaged)
-----------------------------------------------------------------------------
(* What holds throughout                                                   *)

Record == [id : Ids \union {NULL}, value : 0..MaxValue, queue : Seq(Procs)]

LEMMA Types ==
  ASSUME Base
  PROVE  /\ NULL \notin Cells /\ MAX_SEM \in Nat /\ MaxValue \in Nat \ {0}
         /\ semaphores \in Seq(Cells) /\ Len(semaphores) \in Nat /\ Len(semaphores) <= MAX_SEM
         /\ \A i \in Indices : semaphores[i] \in Cells
         /\ cell \in [Cells -> Record]
         /\ used \subseteq Cells /\ IsFiniteSet(used)
         /\ holds \in [Procs -> [Ids -> Cells \union {NULL}]]
         /\ pstate \in [Procs -> {"ready", "blocked", "spin", "dead"}]
         /\ wants \in [Procs -> Cells \union {NULL}]
         /\ \A c \in Cells : cell[c].queue \in Seq(Procs) /\ Len(cell[c].queue) \in Nat
<1>1. used \subseteq Cells /\ IsFiniteSet(used)
  BY CellsAssumption, FS_Subset DEF Base, TypeOK
<1>2. semaphores \in Seq(Cells) /\ cell \in [Cells -> Record]
  BY DEF Base, TypeOK, Record
<1>3. \A i \in Indices : semaphores[i] \in Cells
  BY <1>2 DEF Indices
<1>4. \A c \in Cells : cell[c].queue \in Seq(Procs) /\ Len(cell[c].queue) \in Nat
  BY <1>2 DEF Record
<1> QED
  BY <1>1, <1>2, <1>3, <1>4, CellsAssumption, ValueAssumption DEF Base, TypeOK

LEMMA BaseInit == Init => Base
<1> SUFFICES ASSUME Init PROVE Base
  OBVIOUS
<1>1. semaphores = <<>> /\ Indices = {} /\ used = {}
  BY DEF Init, Indices
<1>2. /\ semaphores \in Seq(Cells) /\ Len(semaphores) <= MAX_SEM
      /\ cell \in [Cells -> [id : Ids \union {NULL}, value : 0..MaxValue, queue : Seq(Procs)]]
  BY <1>1, CellsAssumption, ValueAssumption DEF Init
<1>3. TypeOK
  BY <1>1, <1>2 DEF Init, TypeOK
<1>4. HandlesOpen /\ DeadHoldNothing /\ WaitersLive /\ seen = {}
  BY DEF Init, HandlesOpen, DeadHoldNothing, WaitersLive
<1> QED
  BY <1>1, <1>3, <1>4 DEF Base, TableOK, UniqueIds, EntriesUsed, UsedEntered

\* What is noted when no semaphore is closed.
Notes == seen' \in {seen, seen \union {"killedBehind"}, seen \union {"hit"}}

LEMMA NotesTypes ==
  ASSUME Base, Notes
  PROVE  seen' \subseteq Disturbances
BY DEF Notes, Base, TypeOK, Disturbances

\* Steps that leave the table and the numbers of the semaphores alone, and give out
\* only handles of entries.
LEMMA SameTable ==
  ASSUME TableOK, UNCHANGED <<semaphores, used>>, Notes,
         \A c \in Cells : cell'[c].id = cell[c].id,
         \A i \in Indices : semaphores[i] \in Cells,
         used \subseteq Cells,
         \A p \in Procs, id \in Ids : holds'[p][id] # NULL =>
            \/ holds'[p][id] = holds[p][id]
            \/ holds'[p][id] \in used /\ cell[holds'[p][id]].id = id
  PROVE  TableOK'
<1>1. Indices' = Indices
  BY DEF Indices
<1>2. UniqueIds' /\ EntriesUsed' /\ (UsedEntered => UsedEntered')
  BY <1>1 DEF TableOK, UniqueIds, EntriesUsed, UsedEntered
<1>3. HandlesOpen => HandlesOpen'
  BY DEF HandlesOpen
<1>4. /\ "freedTwice" \in seen' <=> "freedTwice" \in seen
      /\ "orphaned" \in seen' <=> "orphaned" \in seen
  BY DEF Notes
<1> QED BY <1>2, <1>3, <1>4 DEF TableOK

\* One step of a process alone: it starts to spin or is new.
LEMMA StateBase ==
  ASSUME Base, NEW p \in Procs, NEW st \in {"ready", "spin"},
         pstate' = [pstate EXCEPT ![p] = st], wants[p] = NULL,
         UNCHANGED <<semaphores, mutexSem, used, cell, holds, wants, seen>>
  PROVE  Base'
<1>1. TableOK'
  BY Types, SameTable DEF Base, Notes
<1>2. TypeOK'
  BY DEF Base, TypeOK
<1>3. DeadHoldNothing' /\ WaitersLive'
  BY Types DEF Base, DeadHoldNothing, WaitersLive
<1> QED BY <1>1, <1>2, <1>3 DEF Base

LEMMA SpinBase ==
  ASSUME Base, NEW p \in Procs, Runs(p), Spin(p)
  PROVE  Base'
BY StateBase DEF Runs, Spin, table

LEMMA CreateBase ==
  ASSUME Base, NEW p \in Procs, createProcess(p)
  PROVE  Base'
<1>1. wants[p] = NULL
  BY DEF createProcess, Base, WaitersLive
<1> QED BY <1>1, StateBase DEF createProcess, table

\* sem_open with the table full, or of a number that has an entry.
LEMMA OpenOldBase ==
  ASSUME Base, NEW p \in Procs, Runs(p), NEW id \in Ids,
         NEW h \in used \union {NULL}, h # NULL => cell[h].id = id,
         mutexSem' \in {0, 1},
         holds' = IF h = NULL THEN holds ELSE [holds EXCEPT ![p][id] = h],
         UNCHANGED <<semaphores, used, cell, pstate, wants, seen>>
  PROVE  Base'
<1>1. TableOK'
  BY Types, SameTable DEF Base, Notes
<1>2. TypeOK'
  BY Types DEF Base, TypeOK
<1>3. DeadHoldNothing' /\ WaitersLive'
  BY Types DEF Base, DeadHoldNothing, WaitersLive, Runs
<1> QED BY <1>1, <1>2, <1>3 DEF Base

\* sem_open of a new number.
OpensNew(p, id, v, c) ==
  /\ Len(semaphores) < MAX_SEM /\ Found(id) = {} /\ c \in Cells \ used
  /\ semaphores' = Append(semaphores, c)
  /\ used' = used \union {c}
  /\ cell' = [cell EXCEPT ![c] = [id |-> id, value |-> v, queue |-> <<>>]]
  /\ holds' = [holds EXCEPT ![p][id] = c]
  /\ UNCHANGED <<mutexSem, pstate, wants, seen>>

LEMMA OpenNewBase ==
  ASSUME Base, NEW p \in Procs, Runs(p), NEW id \in Ids, NEW v \in 0..MaxValue,
         NEW c, OpensNew(p, id, v, c)
  PROVE  Base'
<1> USE DEF OpensNew
<1>1. PICK n \in Nat : n = Len(semaphores)
  BY Types
<1>2. /\ semaphores' \in Seq(Cells) /\ Len(semaphores') = n + 1
      /\ Indices = 1..n /\ Indices' = 1..(n + 1)
      /\ \A i \in 1..n : semaphores'[i] = semaphores[i]
      /\ semaphores'[n + 1] = c
  BY <1>1, Types, AppendProperties DEF Indices
<1>3. \A i \in 1..(n + 1) : i = n + 1 \/ i \in 1..n
  OBVIOUS
<1>4. /\ cell'[c].id = id
      /\ \A d \in Cells : d # c => cell'[d] = cell[d]
  BY Types
<1>5. \A i \in 1..n : semaphores[i] \in used /\ semaphores[i] \in Cells /\ semaphores[i] # c
                      /\ cell[semaphores[i]].id # id
  BY <1>2, Types DEF Base, TableOK, EntriesUsed, Found
<1>6. UniqueIds'
  BY <1>2, <1>3, <1>4, <1>5 DEF Base, TableOK, UniqueIds
<1>7. EntriesUsed'
  BY <1>2, <1>3, <1>5 DEF EntriesUsed
<1>8. UsedEntered => UsedEntered'
  <2>1. \A i \in 1..n : i \in 1..(n + 1)
    OBVIOUS
  <2>2. n + 1 \in 1..(n + 1)
    OBVIOUS
  <2> QED BY <1>2, <2>1, <2>2 DEF UsedEntered
<1>9. HandlesOpen => HandlesOpen'
  <2> SUFFICES ASSUME HandlesOpen, NEW q \in Procs, NEW i \in Ids, holds'[q][i] # NULL
               PROVE  holds'[q][i] \in used' /\ cell'[holds'[q][i]].id = i
    BY DEF HandlesOpen
  <2>1. CASE q = p /\ i = id
    BY <2>1, <1>4, Types
  <2>2. CASE ~(q = p /\ i = id)
    <3>1. q \in Procs /\ holds'[q][i] = holds[q][i]
      BY <2>2, Types
    <3>2. holds[q][i] \in used /\ cell[holds[q][i]].id = i
      BY <3>1 DEF HandlesOpen
    <3> QED BY <3>1, <3>2, <1>4, Types
  <2> QED BY <2>1, <2>2
<1>10. TypeOK'
  <2>1. [id |-> id, value |-> v, queue |-> <<>>]
          \in [id : Ids \union {NULL}, value : 0..MaxValue, queue : Seq(Procs)]
    BY ValueAssumption
  <2>2. cell' \in [Cells -> [id : Ids \union {NULL}, value : 0..MaxValue, queue : Seq(Procs)]]
    BY <2>1 DEF Base, TypeOK
  <2>3. holds' \in [Procs -> [Ids -> Cells \union {NULL}]]
    BY Types
  <2> QED BY <1>1, <1>2, <2>2, <2>3, Types DEF Base, TypeOK
<1>11. DeadHoldNothing' /\ WaitersLive'
  BY Types DEF Base, DeadHoldNothing, WaitersLive, Runs
<1>12. TableOK'
  BY <1>6, <1>7, <1>8, <1>9 DEF Base, TableOK
<1> QED BY <1>10, <1>11, <1>12 DEF Base

\* The other processes that hold what p has for id.
Others(p, id) ==
  {q \in Procs \ {p} : holds[q][id] = holds[p][id] /\ pstate[q] # "dead"}

\* sem_close takes out the entry k.
Closes(p, id, k) ==
  /\ k \in Indices /\ cell[semaphores[k]].id = cell[holds[p][id]].id
  /\ semaphores' = Removed(k)
  /\ used' = used \ {holds[p][id]}
  /\ holds' = [holds EXCEPT ![p][id] = NULL]
  /\ seen' = (seen \union IF Others(p, id) = {} THEN {} ELSE {"orphaned"})
                  \union IF holds[p][id] \in used THEN {} ELSE {"freedTwice"}
  /\ UNCHANGED <<mutexSem, cell, pstate, wants>>

LEMMA CloseBase ==
  ASSUME Base, Followed, NEW p \in Procs, NEW id \in Ids, holds[p][id] # NULL,
         NEW k, Closes(p, id, k)
  PROVE  Base'
<1> USE DEF Closes
<1> DEFINE h == holds[p][id]
<1>1. PICK n \in Nat : n = Len(semaphores)
  BY Types
<1>2. /\ semaphores' \in Seq(Cells) /\ Len(semaphores') = n - 1
      /\ Indices = 1..n /\ Indices' = 1..(n - 1) /\ k \in 1..n
      /\ \A i \in 1..(n - 1) :
           semaphores'[i] = IF i < k THEN semaphores[i] ELSE semaphores[i+1]
  <2>1. /\ semaphores \in Seq(Cells) /\ k \in 1..Len(semaphores)
        /\ semaphores' = RemoveAt(semaphores, k)
    BY Types DEF Indices, Removed
  <2>2. /\ RemoveAt(semaphores, k) \in Seq(Cells)
        /\ Len(RemoveAt(semaphores, k)) = Len(semaphores) - 1
        /\ \A i \in 1..(Len(semaphores) - 1) :
             RemoveAt(semaphores, k)[i] = IF i < k THEN semaphores[i] ELSE semaphores[i+1]
    BY <2>1, RemoveAtProperties, Zenon
  <2> QED BY <1>1, <2>1, <2>2 DEF Indices
<1>3. \A i \in 1..(n - 1) : i \in 1..n /\ i + 1 \in 1..n
  BY <1>2
<1>4. \A i, j \in 1..n : semaphores[i] = semaphores[j] => i = j
  BY <1>2 DEF Base, TableOK, UniqueIds
<1>5. UniqueIds'
  <2> SUFFICES ASSUME NEW i \in 1..(n - 1), NEW j \in 1..(n - 1),
                      cell[semaphores'[i]].id = cell[semaphores'[j]].id
               PROVE  i = j
    BY <1>2 DEF UniqueIds
  <2>1. \A a, b \in 1..n : cell[semaphores[a]].id = cell[semaphores[b]].id => a = b
    BY <1>2 DEF Base, TableOK, UniqueIds
  <2>2. /\ semaphores'[i] = semaphores[IF i < k THEN i ELSE i + 1]
        /\ semaphores'[j] = semaphores[IF j < k THEN j ELSE j + 1]
    BY <1>2
  <2>3. (IF i < k THEN i ELSE i + 1) = (IF j < k THEN j ELSE j + 1)
    BY <1>3, <2>1, <2>2
  <2> QED BY <1>2, <2>3
<1>0. UsedEntered /\ EntriesUsed /\ "freedTwice" \notin seen
  BY DEF Followed, Base, TableOK
<1>6. ASSUME h \in used PROVE EntriesUsed' /\ UsedEntered' /\ "freedTwice" \notin seen'
  <2>1. semaphores[k] = h
    <3>1. PICK j \in 1..n : semaphores[j] = h
      BY <1>0, <1>2, <1>6 DEF UsedEntered
    <3>2. \A a, b \in 1..n : cell[semaphores[a]].id = cell[semaphores[b]].id => a = b
      BY <1>2 DEF Base, TableOK, UniqueIds
    <3> QED BY <1>2, <3>1, <3>2
  <2>2. EntriesUsed'
    <3> SUFFICES ASSUME NEW i \in 1..(n - 1)
                 PROVE  semaphores'[i] \in used /\ semaphores'[i] # semaphores[k]
      BY <1>2, <2>1 DEF EntriesUsed
    <3>1. \A a \in 1..n : semaphores[a] \in used
      BY <1>0, <1>2 DEF EntriesUsed
    <3> QED BY <1>2, <1>3, <1>4, <3>1
  <2>3. UsedEntered'
    <3> SUFFICES ASSUME NEW c \in used, c # semaphores[k]
                 PROVE  \E i \in 1..(n - 1) : semaphores'[i] = c
      BY <1>2, <2>1 DEF UsedEntered
    <3>1. PICK j \in 1..n : semaphores[j] = c
      BY <1>0, <1>2 DEF UsedEntered
    <3>2. CASE j < k
      BY <1>2, <3>1, <3>2
    <3>3. CASE j > k
      <4>1. j - 1 \in 1..(n - 1) /\ ~(j - 1 < k) /\ (j - 1) + 1 = j
        BY <1>2, <3>3
      <4> QED BY <1>2, <3>1, <4>1
    <3> QED BY <1>2, <3>1, <3>2, <3>3
  <2>4. "freedTwice" \notin seen'
    BY <1>0, <1>6
  <2> QED BY <2>2, <2>3, <2>4
<1>7. ASSUME h \notin used
      PROVE  EntriesUsed' /\ "freedTwice" \in seen' /\ "orphaned" \in seen'
  <2>1. used' = used
    BY <1>7
  <2>2. EntriesUsed'
    <3> SUFFICES ASSUME NEW i \in 1..(n - 1) PROVE semaphores'[i] \in used
      BY <1>2, <2>1 DEF EntriesUsed
    <3>1. \A a \in 1..n : semaphores[a] \in used
      BY <1>0, <1>2 DEF EntriesUsed
    <3> QED BY <1>2, <1>3, <3>1
  <2>3. "orphaned" \in seen /\ "freedTwice" \in seen'
    BY <1>7 DEF Base, TableOK, HandlesOpen
  <2> QED BY <2>2, <2>3
<1>8. "orphaned" \notin seen' => HandlesOpen'
  <2> SUFFICES ASSUME "orphaned" \notin seen', NEW q \in Procs, NEW i \in Ids,
                      holds'[q][i] # NULL
               PROVE  holds'[q][i] \in used' /\ cell[holds'[q][i]].id = i
    BY DEF HandlesOpen
  <2>1. HandlesOpen /\ Others(p, id) = {}
    BY DEF Base, TableOK
  <2>2. holds'[q][i] = holds[q][i] /\ ~(q = p /\ i = id)
    BY Types
  <2>3. /\ cell[holds[q][i]].id = i /\ cell[h].id = id /\ holds[q][i] \in used
    BY <2>1, <2>2 DEF HandlesOpen
  <2>4. pstate[q] # "dead"
    BY <2>2 DEF Base, DeadHoldNothing
  <2>5. holds[q][i] # h
    BY <2>1, <2>2, <2>3, <2>4 DEF Others
  <2> QED BY <2>2, <2>3, <2>5
<1>9. TypeOK'
  <2>1. holds' \in [Procs -> [Ids -> Cells \union {NULL}]]
    BY Types
  <2>2. semaphores' \in Seq(Cells) /\ Len(semaphores') <= MAX_SEM
    BY <1>1, <1>2, Types
  <2>3. seen' \subseteq Disturbances
    BY DEF Base, TypeOK, Disturbances
  <2> QED BY <2>1, <2>2, <2>3 DEF Base, TypeOK
<1>10. DeadHoldNothing' /\ WaitersLive'
  BY Types DEF Base, DeadHoldNothing, WaitersLive
<1> HIDE DEF Closes, h
<1>11. TableOK'
  BY <1>5, <1>6, <1>7, <1>8 DEF TableOK
<1> QED BY <1>9, <1>10, <1>11 DEF Base

\* sem_close of what has no entry any more.
LEMMA CloseNothingBase ==
  ASSUME Base, NEW p \in Procs, NEW id \in Ids, holds' = [holds EXCEPT ![p][id] = NULL],
         UNCHANGED <<semaphores, mutexSem, used, cell, pstate, wants, seen>>
  PROVE  Base'
<1>1. TableOK'
  BY Types, SameTable DEF Base, Notes
<1>2. TypeOK'
  BY Types DEF Base, TypeOK
<1>3. DeadHoldNothing' /\ WaitersLive'
  BY Types DEF Base, DeadHoldNothing, WaitersLive
<1> QED BY <1>1, <1>2, <1>3 DEF Base

\* Steps on the value and the queue of one semaphore, and on the state of a process.
LEMMA CellBase ==
  ASSUME Base, NEW h \in Cells, NEW v \in 0..MaxValue, NEW q \in Seq(Procs),
         cell' = [cell EXCEPT ![h] = [id |-> cell[h].id, value |-> v, queue |-> q]],
         pstate' \in [Procs -> {"ready", "blocked", "spin", "dead"}],
         wants' \in [Procs -> Cells \union {NULL}],
         holds' \in [Procs -> [Ids -> Cells \union {NULL}]],
         \A r \in Procs, id \in Ids : holds'[r][id] \in {holds[r][id], NULL},
         DeadHoldNothing', WaitersLive', Notes, UNCHANGED table
  PROVE  Base'
<1>1. cell' \in [Cells -> Record] /\ \A c \in Cells : cell'[c].id = cell[c].id
  <2>1. cell[h].id \in Ids \union {NULL}
    BY Types DEF Record
  <2>2. [id |-> cell[h].id, value |-> v, queue |-> q] \in Record
    BY <2>1 DEF Record
  <2> QED BY <2>2, Types
<1>2. UNCHANGED <<semaphores, mutexSem, used>>
  BY DEF table
<1>3. TableOK'
  BY <1>1, <1>2, Types, SameTable DEF Base
<1>4. TypeOK'
  BY <1>1, <1>2, NotesTypes DEF Base, TypeOK, Record
<1> QED BY <1>3, <1>4 DEF Base

LEMMA RecordTypes ==
  ASSUME NEW rec \in Record
  PROVE  rec.value \in 0..MaxValue /\ rec.queue \in Seq(Procs) /\ rec.id \in Ids \union {NULL}
BY DEF Record

\* One field or both of a semaphore are changed.
LEMMA RecordFields ==
  ASSUME NEW rec \in Record, NEW v, NEW q
  PROVE  /\ [rec EXCEPT !.value = v] = [id |-> rec.id, value |-> v, queue |-> rec.queue]
         /\ [rec EXCEPT !.queue = q] = [id |-> rec.id, value |-> rec.value, queue |-> q]
         /\ [rec EXCEPT !.value = v, !.queue = q] = [id |-> rec.id, value |-> v, queue |-> q]
<1>1. [rec EXCEPT !.value = v] = [id |-> rec.id, value |-> v, queue |-> rec.queue]
  BY DEF Record
<1>2. [rec EXCEPT !.queue = q] = [id |-> rec.id, value |-> rec.value, queue |-> q]
  BY DEF Record
<1>3. [[id |-> rec.id, value |-> v, queue |-> rec.queue] EXCEPT !.queue = q]
        = [id |-> rec.id, value |-> v, queue |-> q]
  OBVIOUS
<1> QED BY <1>1, <1>2, <1>3, Zenon

LEMMA CellFields ==
  ASSUME Base, NEW h \in Cells, NEW v, NEW q,
         cell' = [cell EXCEPT ![h] = [id |-> cell[h].id, value |-> v, queue |-> q]]
  PROVE  /\ cell'[h].queue = q
         /\ \A c \in Cells : cell'[c].id = cell[c].id
         /\ \A c \in Cells : c # h => cell'[c] = cell[c]
<1>1. cell \in [Cells -> Record]
  BY Types
<1> QED BY <1>1

\* A process with a handle takes a unit or joins the queue.
Takes(p, h) ==
  /\ cell[h].value > 0
  /\ cell' = [cell EXCEPT ![h] =
                [id |-> cell[h].id, value |-> cell[h].value - 1, queue |-> cell[h].queue]]
  /\ wants' = [wants EXCEPT ![p] = NULL] /\ pstate' = pstate

Joins(p, h) ==
  /\ cell' = [cell EXCEPT ![h] = [id |-> cell[h].id, value |-> cell[h].value,
                                  queue |-> Append(cell[h].queue, p)]]
  /\ wants' = [wants EXCEPT ![p] = h] /\ pstate' = [pstate EXCEPT ![p] = "blocked"]

LEMMA TakenIs ==
  ASSUME Base, NEW p \in Procs, NEW h \in Cells, Taken(p, h)
  PROVE  Takes(p, h) \/ Joins(p, h)
<1>1. cell[h] \in Record
  BY Types
<1>2. CASE HasUnit(h)
  <2>1. cell' = [cell EXCEPT ![h] = [cell[h] EXCEPT !.value = cell[h].value - 1]]
    BY <1>2 DEF Taken
  <2>2. [cell[h] EXCEPT !.value = cell[h].value - 1]
          = [id |-> cell[h].id, value |-> cell[h].value - 1, queue |-> cell[h].queue]
    BY <1>1, RecordFields, Zenon
  <2> QED BY <1>2, <2>1, <2>2 DEF Takes, Taken, HasUnit
<1>3. CASE ~HasUnit(h)
  <2>1. cell' = [cell EXCEPT ![h] = [cell[h] EXCEPT !.queue = Append(cell[h].queue, p)]]
    BY <1>3 DEF Taken
  <2>2. [cell[h] EXCEPT !.queue = Append(cell[h].queue, p)]
          = [id |-> cell[h].id, value |-> cell[h].value, queue |-> Append(cell[h].queue, p)]
    BY <1>1, RecordFields, Zenon
  <2> QED BY <1>3, <2>1, <2>2 DEF Joins, Taken
<1> QED BY <1>2, <1>3

LEMMA TakenBase ==
  ASSUME Base, NEW p \in Procs, pstate[p] = "ready", NEW h \in Cells,
         Taken(p, h), UNCHANGED <<table, holds, seen>>
  PROVE  Base'
<1>1. Takes(p, h) \/ Joins(p, h)
  BY TakenIs
<1>2. h # NULL /\ cell[h].value \in 0..MaxValue /\ cell[h].queue \in Seq(Procs)
  <2>1. cell[h] \in Record /\ h # NULL
    BY Types
  <2> QED BY <2>1, RecordTypes
<1>3. /\ pstate' \in [Procs -> {"ready", "blocked", "spin", "dead"}]
      /\ wants' \in [Procs -> Cells \union {NULL}]
      /\ Notes
  <2>1. Notes
    BY DEF Notes
  <2>2. pstate \in [Procs -> {"ready", "blocked", "spin", "dead"}] /\ NULL \notin Cells
        /\ wants \in [Procs -> Cells \union {NULL}]
    BY Types
  <2> QED BY <1>1, <2>1, <2>2 DEF Takes, Joins
<1>4. WaitersLive'
  BY <1>1, <1>2, Types DEF Base, Takes, Joins, WaitersLive
<1>5. DeadHoldNothing'
  BY <1>1, Types DEF Base, Takes, Joins, DeadHoldNothing
<1>6. /\ holds' \in [Procs -> [Ids -> Cells \union {NULL}]]
      /\ \A r \in Procs, id \in Ids : holds'[r][id] \in {holds[r][id], NULL}
      /\ UNCHANGED table
  BY Types
<1>7. CASE Takes(p, h)
  <2>1. cell[h].value - 1 \in 0..MaxValue
    BY <1>2, <1>7, ValueAssumption DEF Takes
  <2> QED BY <1>2, <1>3, <1>4, <1>5, <1>6, <1>7, <2>1, CellBase DEF Takes
<1>8. CASE Joins(p, h)
  <2>1. Append(cell[h].queue, p) \in Seq(Procs)
    BY <1>2
  <2> QED BY <1>2, <1>3, <1>4, <1>5, <1>6, <1>8, <2>1, CellBase DEF Joins
<1> QED BY <1>1, <1>7, <1>8

\* sem_post wakes the head of the queue, or nobody.
Wakes(h) ==
  /\ cell[h].queue # <<>>
  /\ cell' = [cell EXCEPT ![h] = [id |-> cell[h].id, value |-> cell[h].value + 1,
                                  queue |-> Tail(cell[h].queue)]]
  /\ pstate' = [pstate EXCEPT ![Head(cell[h].queue)] = IF @ = "dead" THEN @ ELSE "ready"]

WakesNobody(h) ==
  /\ cell[h].queue = <<>>
  /\ cell' = [cell EXCEPT ![h] = [id |-> cell[h].id, value |-> cell[h].value + 1,
                                  queue |-> cell[h].queue]]
  /\ pstate' = pstate

LEMMA PostIs ==
  ASSUME Base, NEW p \in Procs, NEW id \in Ids, sem_post(p, id)
  PROVE  /\ holds[p][id] \in Cells
         /\ Wakes(holds[p][id]) \/ WakesNobody(holds[p][id])
         /\ cell[holds[p][id]].value + 1 \in 0..MaxValue
         /\ UNCHANGED <<table, holds, wants, seen>>
         /\ \A q \in Procs : pstate[q] # "spin"
<1>1. PICK h \in Cells : h = holds[p][id]
  BY Types DEF sem_post
<1>2. cell[h] \in Record
  BY Types
<1>3. cell[h].value + 1 \in 0..MaxValue
  <2>1. cell[h].value \in 0..MaxValue
    BY <1>2, RecordTypes
  <2> QED BY <1>1, <2>1, ValueAssumption DEF sem_post
<1>4. CASE cell[h].queue = <<>>
  <2>1. /\ cell' = [cell EXCEPT ![h] = [cell[h] EXCEPT !.value = cell[h].value + 1]]
        /\ UNCHANGED pstate
    BY <1>1, <1>4 DEF sem_post
  <2>2. [cell[h] EXCEPT !.value = cell[h].value + 1]
          = [id |-> cell[h].id, value |-> cell[h].value + 1, queue |-> cell[h].queue]
    BY <1>2 DEF Record
  <2>3. WakesNobody(h)
    BY <1>4, <2>1, <2>2 DEF WakesNobody
  <2> QED BY <1>1, <1>3, <2>3 DEF sem_post, Runs
<1>5. CASE cell[h].queue # <<>>
  <2>1. /\ cell' = [cell EXCEPT ![h] = [cell[h] EXCEPT !.value = cell[h].value + 1,
                                                       !.queue = Tail(cell[h].queue)]]
        /\ pstate' = [pstate EXCEPT ![Head(cell[h].queue)] =
                        IF @ = "dead" THEN @ ELSE "ready"]
    BY <1>1, <1>2, <1>5, Types DEF sem_post, Dequeued
  <2>2. [cell[h] EXCEPT !.value = cell[h].value + 1, !.queue = Tail(cell[h].queue)]
          = [id |-> cell[h].id, value |-> cell[h].value + 1, queue |-> Tail(cell[h].queue)]
    BY <1>2, RecordFields, ZenonT(60)
  <2>3. Wakes(h)
    BY <1>5, <2>1, <2>2, Zenon DEF Wakes
  <2> QED BY <1>1, <1>3, <2>3 DEF sem_post, Runs
<1> QED BY <1>4, <1>5

LEMMA HitBase ==
  ASSUME Base, NEW p \in Procs, Hit(p)
  PROVE  Base'
<1>1. /\ wants[p] # NULL /\ pstate' = [pstate EXCEPT ![p] = "blocked"]
      /\ pstate[p] = "ready" /\ seen' = seen \union {"hit"}
      /\ UNCHANGED <<semaphores, mutexSem, used, cell, holds, wants>>
  BY DEF Hit, Woken, table
<1>2. TableOK'
  BY <1>1, Types, SameTable DEF Base, Notes
<1>3. TypeOK'
  BY <1>1 DEF Base, TypeOK, Disturbances
<1>4. DeadHoldNothing' /\ WaitersLive'
  BY <1>1, Types DEF Base, DeadHoldNothing, WaitersLive
<1> QED BY <1>2, <1>3, <1>4 DEF Base

LEMMA PostBase ==
  ASSUME Base, NEW p \in Procs, NEW id \in Ids, sem_post(p, id)
  PROVE  Base'
<1>1. PICK h \in Cells : h = holds[p][id]
  BY PostIs
<1>2. /\ Wakes(h) \/ WakesNobody(h)
      /\ cell[h].value + 1 \in 0..MaxValue
      /\ UNCHANGED <<table, holds, wants, seen>>
      /\ \A q \in Procs : pstate[q] # "spin"
  BY <1>1, PostIs
<1>3. cell[h].queue \in Seq(Procs)
  BY Types
<1>4. CASE Wakes(h)
  <2>1. PICK q \in Procs : q = Head(cell[h].queue)
    BY <1>3, <1>4 DEF Wakes
  <2>2. Tail(cell[h].queue) \in Seq(Procs)
    BY <1>3, <1>4 DEF Wakes
  <2>3. pstate' = [pstate EXCEPT ![q] = IF @ = "dead" THEN @ ELSE "ready"]
    BY <1>4, <2>1 DEF Wakes
  <2>4. DeadHoldNothing' /\ WaitersLive'
    BY <1>2, <2>1, <2>3, Types DEF Base, DeadHoldNothing, WaitersLive
  <2>5. pstate' \in [Procs -> {"ready", "blocked", "spin", "dead"}]
    BY <2>1, <2>3, Types
  <2>6. Notes
    BY <1>2 DEF Notes
  <2> QED BY <1>2, <1>4, <2>2, <2>4, <2>5, <2>6, Types, CellBase DEF Wakes
<1>5. CASE WakesNobody(h)
  <2>1. DeadHoldNothing' /\ WaitersLive' /\ Notes
    BY <1>2, <1>5 DEF WakesNobody, Base, DeadHoldNothing, WaitersLive, Notes
  <2> QED BY <1>2, <1>3, <1>5, <2>1, Types, CellBase DEF WakesNobody
<1> QED BY <1>2, <1>4, <1>5

\* A kill takes the head out of the first queue in which the process is.
LEMMA KillQueue ==
  ASSUME Base, NEW p \in Procs, Queues(p) # {}
  PROVE  /\ First(Queues(p)) \in Queues(p) /\ First(Queues(p)) \in Indices
         /\ semaphores[First(Queues(p))] \in used
         /\ semaphores[First(Queues(p))] \in Cells
         /\ cell[semaphores[First(Queues(p))]].queue # <<>>
<1>1. Queues(p) \subseteq Indices /\ Queues(p) \subseteq Nat
  BY DEF Queues, Indices
<1>2. \E i \in Queues(p) : \A j \in Queues(p) : i <= j
  BY <1>1, LeastNatural
<1>3. First(Queues(p)) \in Queues(p)
  BY <1>2 DEF First
<1>4. cell[semaphores[First(Queues(p))]].queue # <<>>
  <2>1. p \in Range(cell[semaphores[First(Queues(p))]].queue)
    BY <1>3 DEF Queues
  <2> QED BY <2>1 DEF Range
<1> QED BY <1>1, <1>3, <1>4, Types DEF Base, TableOK, EntriesUsed

LEMMA KillBase ==
  ASSUME Base, NEW p \in Procs, KillPid(p)
  PROVE  Base'
<1>1. /\ pstate' = [pstate EXCEPT ![p] = "dead"]
      /\ holds' = [holds EXCEPT ![p] = [i \in Ids |-> NULL]]
      /\ wants' = [wants EXCEPT ![p] = NULL]
      /\ UNCHANGED table
  BY DEF KillPid
<1>2. DeadHoldNothing' /\ WaitersLive'
  BY <1>1, Types DEF Base, DeadHoldNothing, WaitersLive
<1>3. /\ pstate' \in [Procs -> {"ready", "blocked", "spin", "dead"}]
      /\ holds' \in [Procs -> [Ids -> Cells \union {NULL}]]
      /\ wants' \in [Procs -> Cells \union {NULL}]
      /\ \A r \in Procs, id \in Ids : holds'[r][id] \in {holds[r][id], NULL}
  BY <1>1, Types
<1>4. CASE Queues(p) = {}
  <2>1. UNCHANGED <<cell, seen>>
    BY <1>4 DEF KillPid
  <2>2. TableOK'
    <3>1. UNCHANGED <<semaphores, used>>
      BY <1>1 DEF table
    <3> QED BY <1>3, <2>1, <3>1, Types, SameTable DEF Base, Notes
  <2>3. TypeOK'
    BY <1>1, <1>3, <2>1 DEF Base, TypeOK, table
  <2> QED BY <1>2, <2>2, <2>3 DEF Base
<1>5. CASE Queues(p) # {}
  <2> DEFINE c == semaphores[First(Queues(p))]
  <2>1. c \in Cells /\ cell[c].queue # <<>>
    BY <1>5, KillQueue
  <2>2. cell' = [cell EXCEPT ![c] = [cell[c] EXCEPT !.queue = Tail(cell[c].queue)]]
    BY <1>5, <2>1, Types DEF KillPid, Dequeued
  <2>3. Notes
    BY <1>5 DEF KillPid, Notes
  <2> HIDE DEF c
  <2>4. cell[c].value \in 0..MaxValue /\ cell[c].queue \in Seq(Procs)
    <3>1. cell[c] \in Record
      BY <2>1, Types
    <3> QED BY <3>1, RecordTypes
  <2>5. cell' = [cell EXCEPT ![c] = [id |-> cell[c].id, value |-> cell[c].value,
                                    queue |-> Tail(cell[c].queue)]]
    <3>1. cell[c] \in Record
      BY <2>1, Types
    <3>2. [cell[c] EXCEPT !.queue = Tail(cell[c].queue)]
            = [id |-> cell[c].id, value |-> cell[c].value, queue |-> Tail(cell[c].queue)]
      BY <3>1, RecordFields, Zenon
    <3> QED BY <2>2, <3>2
  <2>6. Tail(cell[c].queue) \in Seq(Procs)
    BY <2>1, <2>4
  <2> QED BY <1>1, <1>2, <1>3, <2>1, <2>3, <2>4, <2>5, <2>6, CellBase
<1> QED BY <1>4, <1>5
-----------------------------------------------------------------------------
(* Until a semaphore is orphaned or a queue is damaged                     *)

Quiet == Base /\ Undamaged /\ seen = {}

LEMMA QuietFacts ==
  ASSUME Quiet
  PROVE  /\ Base /\ UniqueIds /\ EntriesUsed /\ UsedEntered /\ HandlesOpen /\ WantsHeld
         /\ \A c \in used : QueueRight(c, cell[c].queue)
         /\ \A p \in Procs, id \in Ids : holds[p][id] # NULL =>
              holds[p][id] \in used /\ cell[holds[p][id]].id = id /\ pstate[p] # "dead"
         /\ \A p \in Procs : wants[p] # NULL =>
              wants[p] \in used /\ pstate[p] \in {"ready", "blocked"}
         /\ \A p \in Procs : pstate[p] = "blocked" => wants[p] # NULL
<1>0. UniqueIds /\ EntriesUsed /\ UsedEntered
  BY DEF Quiet, Base, TableOK
<1>1. /\ HandlesOpen /\ WantsHeld /\ Base /\ DeadHoldNothing /\ WaitersLive
      /\ \A c \in used : QueueRight(c, cell[c].queue)
  BY DEF Quiet, Undamaged, Base
<1>2. \A p \in Procs, id \in Ids : holds[p][id] # NULL =>
        holds[p][id] \in used /\ cell[holds[p][id]].id = id /\ pstate[p] # "dead"
  BY <1>1 DEF HandlesOpen, DeadHoldNothing
<1>3. \A p \in Procs : wants[p] # NULL => wants[p] \in used
  BY <1>1, <1>2 DEF WantsHeld
<1> QED BY <1>0, <1>1, <1>2, <1>3 DEF WaitersLive

\* Steps that leave the queues and the blocked processes alone.
LEMMA QueuesKept ==
  ASSUME Quiet, NEW C, C \subseteq used,
         \A c \in C : cell'[c].queue = cell[c].queue,
         \A p \in Procs : pstate'[p] = "blocked" <=> pstate[p] = "blocked",
         \A p \in Procs : pstate[p] = "blocked" => wants'[p] = wants[p]
  PROVE  \A c \in C : QueueRight(c, cell[c].queue)'
<1> SUFFICES ASSUME NEW c \in C PROVE QueueRight(c, cell[c].queue)'
  OBVIOUS
<1>1. PICK q \in Seq(Procs) : q = cell[c].queue
  BY QuietFacts, Types
<1>2. QueueRight(c, q) /\ cell'[c].queue = q /\ \A i \in 1..Len(q) : q[i] \in Procs
  BY <1>1, QuietFacts
<1> QED BY <1>2 DEF QueueRight

\* The head of a queue leaves it and is not blocked any more.
LEMMA QueueShrinks ==
  ASSUME Quiet, NEW c \in used, cell[c].queue # <<>>,
         cell'[c].queue = Tail(cell[c].queue),
         \A d \in used : d # c => cell'[d].queue = cell[d].queue,
         NEW h, h = Head(cell[c].queue), pstate'[h] # "blocked",
         \A r \in Procs : r # h => pstate'[r] = pstate[r] /\ wants'[r] = wants[r]
  PROVE  \A d \in used : QueueRight(d, cell[d].queue)'
<1>1. PICK q \in Seq(Procs) : q = cell[c].queue
  BY QuietFacts, Types
<1>2. PICK n \in Nat : n = Len(q)
  OBVIOUS
<1>3. /\ n >= 1 /\ h = q[1] /\ h \in Procs
      /\ Tail(q) \in Seq(Procs) /\ Len(Tail(q)) = n - 1
      /\ \A i \in 1..(n - 1) : Tail(q)[i] = q[i + 1]
  BY <1>1, <1>2
<1>4. /\ \A i, j \in 1..n : q[i] = q[j] => i = j
      /\ \A i \in 1..n : q[i] \in Procs /\ pstate[q[i]] = "blocked" /\ wants[q[i]] = c
      /\ \A p \in Procs : pstate[p] = "blocked" /\ wants[p] = c => \E i \in 1..n : q[i] = p
  BY <1>1, <1>2, QuietFacts DEF QueueRight
<1>5. \A i \in 1..(n - 1) : i \in 1..n /\ i + 1 \in 1..n /\ i + 1 # 1 /\ 1 \in 1..n
  OBVIOUS
<1>6. QueueRight(c, cell[c].queue)'
  <2>1. PICK t \in Seq(Procs) : t = Tail(q)
    BY <1>3
  <2>2. cell'[c].queue = t /\ Len(t) = n - 1 /\ \A i \in 1..(n - 1) : t[i] = q[i + 1]
    BY <1>1, <1>3, <2>1
  <2>3. \A i, j \in 1..(n - 1) : t[i] = t[j] => i = j
    <3> SUFFICES ASSUME NEW i \in 1..(n - 1), NEW j \in 1..(n - 1), t[i] = t[j]
                 PROVE  i = j
      OBVIOUS
    <3>1. i + 1 = j + 1
      BY <1>4, <1>5, <2>2
    <3> QED BY <3>1
  <2>4. \A i \in 1..(n - 1) : pstate'[t[i]] = "blocked" /\ wants'[t[i]] = c
    <3> SUFFICES ASSUME NEW i \in 1..(n - 1)
                 PROVE  pstate'[t[i]] = "blocked" /\ wants'[t[i]] = c
      OBVIOUS
    <3>1. i + 1 \in 1..n /\ 1 \in 1..n /\ i + 1 # 1
      BY <1>5
    <3>2. t[i] # h /\ t[i] \in Procs /\ pstate[t[i]] = "blocked" /\ wants[t[i]] = c
      BY <3>1, <1>3, <1>4, <2>2
    <3> QED BY <3>2
  <2>5. \A p \in Procs : pstate'[p] = "blocked" /\ wants'[p] = c
                           => \E i \in 1..(n - 1) : t[i] = p
    <3> SUFFICES ASSUME NEW p \in Procs, pstate'[p] = "blocked", wants'[p] = c
                 PROVE  \E i \in 1..(n - 1) : t[i] = p
      OBVIOUS
    <3>1. p # h
      OBVIOUS
    <3>2. PICK k \in 1..n : q[k] = p
      BY <3>1, <1>4
    <3>3. k - 1 \in 1..(n - 1) /\ (k - 1) + 1 = k
      BY <3>1, <3>2, <1>3
    <3> QED BY <3>2, <3>3, <2>2
  <2> QED BY <2>2, <2>3, <2>4, <2>5 DEF QueueRight
<1>7. ASSUME NEW d \in used, d # c PROVE QueueRight(d, cell[d].queue)'
  <2>1. PICK s \in Seq(Procs) : s = cell[d].queue
    BY QuietFacts, Types
  <2>2. QueueRight(d, s) /\ cell'[d].queue = s /\ \A i \in 1..Len(s) : s[i] \in Procs
    BY <1>7, <2>1, QuietFacts
  <2>3. pstate[h] = "blocked" /\ wants[h] = c
    BY <1>3, <1>4
  <2> QED BY <1>7, <2>2, <2>3 DEF QueueRight
<1> QED BY <1>6, <1>7

\* A process that was not blocked blocks behind the queue of h.
LEMMA QueueGrows ==
  ASSUME Quiet, NEW p \in Procs, pstate[p] # "blocked", NEW h \in used, Joins(p, h)
  PROVE  \A d \in used : QueueRight(d, cell[d].queue)'
<1>1. PICK q \in Seq(Procs) : q = cell[h].queue
  BY QuietFacts, Types
<1>2. PICK n \in Nat : n = Len(q)
  OBVIOUS
<1>3. /\ cell'[h].queue = Append(q, p)
      /\ \A d \in used : d # h => cell'[d].queue = cell[d].queue
  BY <1>1, QuietFacts, Types DEF Joins
<1>4. /\ Append(q, p) \in Seq(Procs) /\ Len(Append(q, p)) = n + 1
      /\ \A i \in 1..n : Append(q, p)[i] = q[i]
      /\ Append(q, p)[n + 1] = p
  BY <1>2, AppendProperties
<1>5. /\ \A i, j \in 1..n : q[i] = q[j] => i = j
      /\ \A i \in 1..n : q[i] \in Procs /\ pstate[q[i]] = "blocked" /\ wants[q[i]] = h
      /\ \A r \in Procs : pstate[r] = "blocked" /\ wants[r] = h => \E i \in 1..n : q[i] = r
  BY <1>1, <1>2, QuietFacts DEF QueueRight
<1>6. /\ \A i \in 1..(n + 1) : i = n + 1 \/ i \in 1..n
      /\ n + 1 \in 1..(n + 1) /\ \A i \in 1..n : i \in 1..(n + 1)
  OBVIOUS
<1>7. /\ pstate'[p] = "blocked" /\ wants'[p] = h
      /\ \A r \in Procs : r # p => pstate'[r] = pstate[r] /\ wants'[r] = wants[r]
  BY QuietFacts, Types DEF Joins
<1>8. \A i \in 1..n : q[i] # p
  BY <1>5
<1>9. QueueRight(h, cell[h].queue)'
  <2> DEFINE s == Append(q, p)
  <2>1. \A i, j \in 1..(n + 1) : s[i] = s[j] => i = j
    BY <1>4, <1>5, <1>6, <1>8
  <2>2. \A i \in 1..(n + 1) : pstate'[s[i]] = "blocked" /\ wants'[s[i]] = h
    BY <1>4, <1>5, <1>6, <1>7, <1>8
  <2>3. \A r \in Procs : pstate'[r] = "blocked" /\ wants'[r] = h
                           => \E i \in 1..(n + 1) : s[i] = r
    BY <1>4, <1>5, <1>6, <1>7
  <2>4. cell'[h].queue = s /\ Len(s) = n + 1
    BY <1>3, <1>4
  <2> HIDE DEF s
  <2> QED BY <2>1, <2>2, <2>3, <2>4 DEF QueueRight
<1>10. ASSUME NEW d \in used, d # h PROVE QueueRight(d, cell[d].queue)'
  <2>1. PICK s \in Seq(Procs) : s = cell[d].queue
    BY QuietFacts, Types
  <2>2. QueueRight(d, s) /\ cell'[d].queue = s /\ \A i \in 1..Len(s) : s[i] \in Procs
    BY <1>3, <1>10, <2>1, QuietFacts
  <2> QED BY <1>7, <1>10, <2>2 DEF QueueRight
<1> QED BY <1>9, <1>10

\* Steps after which everybody holds what he held, and waits for what he waited for,
\* or for nothing.
LEMMA WantsKept ==
  ASSUME WantsHeld,
         \A p \in Procs : wants'[p] # NULL =>
           wants'[p] = wants[p] /\ \A id \in Ids : holds'[p][id] = holds[p][id]
  PROVE  WantsHeld'
BY DEF WantsHeld

\* Steps that leave memory and handles alone and block nobody.
LEMMA StateQuiet ==
  ASSUME Quiet, \A p \in Procs : pstate'[p] = "blocked" <=> pstate[p] = "blocked",
         UNCHANGED <<used, cell, holds, wants>>
  PROVE  Undamaged'
<1>1. \A c \in used : QueueRight(c, cell[c].queue)'
  BY QueuesKept
<1>2. WantsHeld' /\ HandlesOpen'
  BY QuietFacts DEF WantsHeld, HandlesOpen
<1> QED BY <1>1, <1>2 DEF Undamaged

\* sem_open hands out an entry of the number.
LEMMA OpenOldQuiet ==
  ASSUME Quiet, NEW p \in Procs, Runs(p), NEW id \in Ids, NEW h \in used, cell[h].id = id,
         holds' = [holds EXCEPT ![p][id] = h],
         UNCHANGED <<semaphores, used, cell, pstate, wants, seen>>
  PROVE  Undamaged'
<1>1. \A c \in used : QueueRight(c, cell[c].queue)'
  BY QueuesKept
<1>2. HandlesOpen'
  BY QuietFacts, Types DEF HandlesOpen
<1>3. WantsHeld'
  <2>1. wants[p] = NULL
    BY DEF Runs
  <2> QED BY <2>1, QuietFacts, Types, WantsKept
<1> QED BY <1>1, <1>2, <1>3 DEF Undamaged

LEMMA OpenNewQuiet ==
  ASSUME Quiet, NEW p \in Procs, Runs(p), NEW id \in Ids, NEW v,
         NEW c, OpensNew(p, id, v, c)
  PROVE  Undamaged'
<1> USE DEF OpensNew
<1>1. \A d \in used : cell'[d] = cell[d]
  BY QuietFacts, Types
<1>2. cell'[c].queue = <<>> /\ cell'[c].id = id
  BY QuietFacts, Types
<1>3. \A d \in used : QueueRight(d, cell[d].queue)'
  BY <1>1, QueuesKept
<1>4. QueueRight(c, cell[c].queue)'
  <2>1. \A r \in Procs : wants[r] # c
    BY QuietFacts, Types
  <2> QED BY <1>2, <2>1 DEF QueueRight
<1>5. HandlesOpen'
  <2> SUFFICES ASSUME NEW q \in Procs, NEW i \in Ids, holds'[q][i] # NULL
               PROVE  holds'[q][i] \in used' /\ cell'[holds'[q][i]].id = i
    BY DEF HandlesOpen
  <2>1. CASE q = p /\ i = id
    BY <2>1, <1>2, QuietFacts, Types
  <2>2. CASE ~(q = p /\ i = id)
    <3>1. holds'[q][i] = holds[q][i]
      BY <2>2, QuietFacts, Types
    <3>2. holds[q][i] \in used /\ cell[holds[q][i]].id = i
      BY <3>1, QuietFacts
    <3> QED BY <3>1, <3>2, <1>1
  <2> QED BY <2>1, <2>2
<1>6. WantsHeld'
  <2>1. wants[p] = NULL
    BY DEF Runs
  <2> QED BY <2>1, QuietFacts, Types, WantsKept
<1> QED BY <1>3, <1>4, <1>5, <1>6 DEF Undamaged

\* sem_close while nobody else has the handle.
LEMMA CloseQuiet ==
  ASSUME Quiet, NEW p \in Procs, Runs(p), NEW id \in Ids, holds[p][id] # NULL,
         Others(p, id) = {},
         used' = used \ {holds[p][id]}, holds' = [holds EXCEPT ![p][id] = NULL],
         UNCHANGED <<cell, pstate, wants>>
  PROVE  Undamaged'
<1>1. \A d \in used' : QueueRight(d, cell[d].queue)'
  BY QueuesKept
<1>2. \A q \in Procs, i \in Ids : holds'[q][i] # NULL =>
        holds'[q][i] = holds[q][i] /\ ~(q = p /\ i = id)
  BY QuietFacts, Types
<1>3. HandlesOpen'
  <2> SUFFICES ASSUME NEW q \in Procs, NEW i \in Ids, holds'[q][i] # NULL
               PROVE  holds'[q][i] \in used' /\ cell[holds'[q][i]].id = i
    BY DEF HandlesOpen
  <2>1. holds'[q][i] = holds[q][i] /\ ~(q = p /\ i = id)
    BY <1>2
  <2>2. holds[q][i] \in used /\ cell[holds[q][i]].id = i /\ pstate[q] # "dead"
        /\ cell[holds[p][id]].id = id
    BY <2>1, QuietFacts
  <2> QED BY <2>1, <2>2 DEF Others
<1>4. WantsHeld'
  <2>1. wants[p] = NULL
    BY DEF Runs
  <2>2. \A q \in Procs : q # p => \A i \in Ids : holds'[q][i] = holds[q][i]
    BY QuietFacts, Types
  <2> QED BY <2>1, <2>2, QuietFacts, WantsKept
<1> QED BY <1>1, <1>3, <1>4 DEF Undamaged

\* sem_wait, or a woken waiter, on a semaphore that is open.
LEMMA TakenQuiet ==
  ASSUME Quiet, NEW p \in Procs, pstate[p] = "ready", NEW h \in used, Taken(p, h),
         \E id \in Ids : holds[p][id] = h, UNCHANGED <<table, holds, seen>>
  PROVE  Undamaged'
<1>1. h \in Cells /\ (Takes(p, h) \/ Joins(p, h)) /\ UNCHANGED used
  BY QuietFacts, Types, TakenIs DEF table
<1>2. HandlesOpen'
  <2>1. \A c \in Cells : cell'[c].id = cell[c].id
    <3>1. Base /\ h \in Cells
      BY <1>1, QuietFacts
    <3>2. CASE Takes(p, h)
      BY <3>1, <3>2, CellFields DEF Takes
    <3>3. CASE Joins(p, h)
      BY <3>1, <3>3, CellFields DEF Joins
    <3> QED BY <1>1, <3>2, <3>3
  <2> QED BY <1>1, <2>1, QuietFacts, Types DEF HandlesOpen
<1>3. WantsHeld'
  BY <1>1, QuietFacts, Types DEF WantsHeld, Takes, Joins
<1>4. CASE Takes(p, h)
  <2>1. \A c \in used : cell'[c].queue = cell[c].queue
    BY <1>1, <1>4, QuietFacts, Types DEF Takes
  <2>2. \A c \in used : QueueRight(c, cell[c].queue)'
    BY <1>4, <2>1, QuietFacts, Types, QueuesKept DEF Takes
  <2> QED BY <1>1, <1>2, <1>3, <2>2 DEF Undamaged
<1>5. CASE Joins(p, h)
  <2>1. \A c \in used : QueueRight(c, cell[c].queue)'
    BY <1>5, QueueGrows
  <2> QED BY <1>1, <1>2, <1>3, <2>1 DEF Undamaged
<1> QED BY <1>1, <1>4, <1>5

LEMMA PostQuiet ==
  ASSUME Quiet, NEW p \in Procs, NEW id \in Ids, sem_post(p, id)
  PROVE  Undamaged'
<1>1. PICK h \in used : h = holds[p][id]
  <2>1. holds[p][id] # NULL
    BY DEF sem_post
  <2> QED BY <2>1, QuietFacts
<1>2. /\ Wakes(h) \/ WakesNobody(h)
      /\ UNCHANGED <<used, holds, wants>>
  BY <1>1, QuietFacts, PostIs DEF table
<1>3. HandlesOpen' /\ WantsHeld'
  <2>1. \A c \in Cells : cell'[c].id = cell[c].id
    <3>1. h \in Cells /\ Base
      BY QuietFacts, Types
    <3> QED BY <1>2, <3>1, CellFields DEF Wakes, WakesNobody
  <2> QED BY <1>2, <2>1, QuietFacts, Types DEF HandlesOpen, WantsHeld
<1>4. CASE Wakes(h)
  <2>1. PICK q \in Procs : q = Head(cell[h].queue)
    BY <1>4, QuietFacts, Types DEF Wakes
  <2>2. /\ cell'[h].queue = Tail(cell[h].queue)
        /\ \A d \in used : d # h => cell'[d].queue = cell[d].queue
    BY <1>4, QuietFacts, Types DEF Wakes
  <2>3. pstate' = [pstate EXCEPT ![q] = IF @ = "dead" THEN @ ELSE "ready"]
    BY <1>4, <2>1 DEF Wakes
  <2>4. /\ pstate'[q] # "blocked"
        /\ \A r \in Procs : r # q => pstate'[r] = pstate[r] /\ wants'[r] = wants[r]
    BY <1>2, <2>3, QuietFacts, Types
  <2>5. \A c \in used : QueueRight(c, cell[c].queue)'
    BY <1>4, <2>1, <2>2, <2>4, QueueShrinks DEF Wakes
  <2> QED BY <1>2, <1>3, <2>5 DEF Undamaged
<1>5. CASE WakesNobody(h)
  <2>1. \A c \in used : cell'[c].queue = cell[c].queue
    BY <1>5, QuietFacts, Types DEF WakesNobody
  <2>2. \A c \in used : QueueRight(c, cell[c].queue)'
    BY <1>2, <1>5, <2>1, QueuesKept DEF WakesNobody
  <2> QED BY <1>2, <1>3, <2>2 DEF Undamaged
<1> QED BY <1>2, <1>4, <1>5

\* A kill, while the process is queued nowhere or is the head of its queue.
LEMMA KillQuiet ==
  ASSUME Quiet, NEW p \in Procs, KillPid(p), seen = {}, seen' = {}
  PROVE  Undamaged'
<1>1. /\ pstate' = [pstate EXCEPT ![p] = "dead"]
      /\ holds' = [holds EXCEPT ![p] = [i \in Ids |-> NULL]]
      /\ wants' = [wants EXCEPT ![p] = NULL]
      /\ UNCHANGED <<semaphores, used>>
  BY DEF KillPid, table
<1>2. \A r \in Procs : r # p =>
        pstate'[r] = pstate[r] /\ wants'[r] = wants[r] /\ holds'[r] = holds[r]
  BY <1>1, QuietFacts, Types
<1>3. pstate'[p] = "dead" /\ wants'[p] = NULL /\ \A i \in Ids : holds'[p][i] = NULL
  BY <1>1, QuietFacts, Types
<1>4. WantsHeld'
  BY <1>2, <1>3, QuietFacts DEF WantsHeld
<1>5. CASE Queues(p) = {}
  <2>1. UNCHANGED cell
    BY <1>5 DEF KillPid
  <2>2. pstate[p] # "blocked"
    <3> SUFFICES ASSUME pstate[p] = "blocked" PROVE FALSE
      OBVIOUS
    <3>1. wants[p] \in used /\ QueueRight(wants[p], cell[wants[p]].queue)
      BY QuietFacts
    <3>2. p \in Range(cell[wants[p]].queue)
      <4>1. PICK q \in Seq(Procs) : q = cell[wants[p]].queue
        BY <3>1, QuietFacts, Types
      <4>2. \E i \in 1..Len(q) : q[i] = p
        BY <3>1, <4>1 DEF QueueRight
      <4> QED BY <4>1, <4>2 DEF Range
    <3>3. PICK i \in Indices : semaphores[i] = wants[p]
      BY <3>1, QuietFacts DEF UsedEntered
    <3> QED BY <1>5, <3>2, <3>3 DEF Queues
  <2>3. \A c \in used : QueueRight(c, cell[c].queue)'
    BY <1>2, <1>3, <2>1, <2>2, QueuesKept
  <2>4. HandlesOpen'
    BY <1>1, <1>2, <1>3, <2>1, QuietFacts DEF HandlesOpen
  <2> QED BY <1>1, <1>4, <2>3, <2>4 DEF Undamaged
<1>6. CASE Queues(p) # {}
  <2>1. PICK c \in used : c = semaphores[First(Queues(p))] /\ c \in Cells /\ cell[c].queue # <<>>
    BY <1>6, QuietFacts, KillQueue
  <2>2. cell' = [cell EXCEPT ![c].queue = Tail(@)] /\ Head(cell[c].queue) = p
    <3>1. seen' = IF Head(cell[c].queue) = p THEN seen ELSE seen \union {"killedBehind"}
      BY <1>6, <2>1 DEF KillPid
    <3> QED BY <1>6, <2>1, <3>1 DEF KillPid, Dequeued
  <2>3. /\ cell'[c].queue = Tail(cell[c].queue)
        /\ \A d \in used : d # c => cell'[d].queue = cell[d].queue
        /\ \A d \in Cells : cell'[d].id = cell[d].id
    BY <2>1, <2>2, QuietFacts, Types DEF Record
  <2>4. \A d \in used : QueueRight(d, cell[d].queue)'
    BY <1>2, <1>3, <2>1, <2>2, <2>3, QueueShrinks
  <2>5. HandlesOpen'
    BY <1>1, <1>2, <1>3, <2>3, QuietFacts, Types, SMTT(30) DEF HandlesOpen
  <2> QED BY <1>1, <1>4, <2>4, <2>5 DEF Undamaged
<1> QED BY <1>5, <1>6
-----------------------------------------------------------------------------
(* The steps together                                                      *)

\* What a call of sem_open may do.
LEMMA OpenIs ==
  ASSUME Base, NEW p \in Procs, NEW id \in Ids, NEW v \in Values, sem_open(p, id, v)
  PROVE  /\ Runs(p)
         /\ \/ Spin(p)
            \/ mutexSem' = 1 /\ UNCHANGED <<semaphores, cell, used, holds, pstate, wants, seen>>
            \/ /\ UNCHANGED <<semaphores, mutexSem, used, cell, pstate, wants, seen>>
               /\ \E h \in used : cell[h].id = id /\ holds' = [holds EXCEPT ![p][id] = h]
            \/ v \in 0..MaxValue /\ \E c : OpensNew(p, id, v, c)
<1>1. CASE ~OpenRefused(v) /\ Found(id) # {}
           /\ \E i \in Found(id) : holds' = [holds EXCEPT ![p][id] = semaphores[i]]
           /\ UNCHANGED <<table, cell, pstate, wants, seen>>
  <2>1. \A i \in Found(id) : semaphores[i] \in used /\ cell[semaphores[i]].id = id
    BY DEF Found, Base, TableOK, EntriesUsed
  <2> QED BY <1>1, <2>1 DEF sem_open, table
<1>2. CASE ~OpenRefused(v) /\ Found(id) = {}
           /\ \E c \in Cells \ used :
                /\ semaphores' = Append(semaphores, c)
                /\ used' = used \union {c}
                /\ cell' = [cell EXCEPT ![c] = [id |-> id, value |-> v, queue |-> <<>>]]
                /\ holds' = [holds EXCEPT ![p][id] = c]
           /\ UNCHANGED <<mutexSem, pstate, wants, seen>>
  <2>1. Len(semaphores) < MAX_SEM /\ v \in 0..MaxValue
    BY <1>2, Types, ValueAssumption DEF OpenRefused
  <2> QED BY <1>2, <2>1 DEF sem_open, OpensNew
<1> QED BY <1>1, <1>2 DEF sem_open

\* What a call of sem_close may do.
ClosesNothing(p, id) ==
  /\ Found(cell[holds[p][id]].id) = {}
  /\ holds' = [holds EXCEPT ![p][id] = NULL]
  /\ UNCHANGED <<semaphores, mutexSem, used, cell, pstate, wants, seen>>

LEMMA CloseIs ==
  ASSUME NEW p \in Procs, NEW id \in Ids, sem_close(p, id)
  PROVE  /\ Runs(p) /\ holds[p][id] # NULL
         /\ Spin(p) \/ ClosesNothing(p, id) \/ \E k \in Indices : Closes(p, id, k)
<1>1. Runs(p) /\ holds[p][id] # NULL
  BY DEF sem_close
<1>2. \A i \in Found(cell[holds[p][id]].id) :
        i \in Indices /\ cell[semaphores[i]].id = cell[holds[p][id]].id
  BY DEF Found
<1>3. CASE Found(cell[holds[p][id]].id) = {} /\ UNCHANGED <<semaphores, used, seen>>
           /\ holds' = [holds EXCEPT ![p][id] = NULL] /\ UNCHANGED <<mutexSem, cell, pstate, wants>>
  BY <1>1, <1>3 DEF ClosesNothing
<1>4. ASSUME NEW i \in Found(cell[holds[p][id]].id), semaphores' = Removed(i),
             used' = used \ {holds[p][id]},
             seen' = (seen \union IF Others(p, id) = {} THEN {} ELSE {"orphaned"})
                         \union IF holds[p][id] \in used THEN {} ELSE {"freedTwice"},
             holds' = [holds EXCEPT ![p][id] = NULL], UNCHANGED <<mutexSem, cell, pstate, wants>>
      PROVE  \E k \in Indices : Closes(p, id, k)
  BY <1>2, <1>4 DEF Closes
<1> QED BY <1>1, <1>3, <1>4 DEF sem_close, Others

LEMMA BaseStep ==
  ASSUME Base, [Next]_vars
  PROVE  Base'
<1>1. ASSUME NEW p \in Procs, NEW id \in Ids, NEW v \in Values, sem_open(p, id, v)
      PROVE  Base'
  <2>1. Runs(p)
    BY <1>1, OpenIs
  <2>2. CASE Spin(p)
    BY <2>1, <2>2, SpinBase
  <2>3. CASE mutexSem' = 1 /\ UNCHANGED <<semaphores, cell, used, holds, pstate, wants, seen>>
    BY <2>1, <2>3, OpenOldBase
  <2>4. ASSUME UNCHANGED <<semaphores, mutexSem, used, cell, pstate, wants, seen>>,
               NEW h \in used, cell[h].id = id, holds' = [holds EXCEPT ![p][id] = h]
        PROVE  Base'
    <3>1. h # NULL /\ mutexSem' \in {0, 1}
      BY <2>4, Types DEF Base, TypeOK
    <3> QED BY <2>1, <2>4, <3>1, OpenOldBase
  <2>5. ASSUME v \in 0..MaxValue, NEW c, OpensNew(p, id, v, c) PROVE Base'
    BY <2>1, <2>5, OpenNewBase
  <2> QED BY <1>1, <2>2, <2>3, <2>4, <2>5, OpenIs
<1>2. ASSUME Followed, NEW p \in Procs, NEW id \in Ids, sem_close(p, id) PROVE Base'
  <2>1. Runs(p) /\ holds[p][id] # NULL
    BY <1>2, CloseIs
  <2>2. CASE Spin(p)
    BY <2>1, <2>2, SpinBase
  <2>3. CASE ClosesNothing(p, id)
    BY <2>3, CloseNothingBase DEF ClosesNothing
  <2>4. ASSUME NEW k \in Indices, Closes(p, id, k) PROVE Base'
    BY <1>2, <2>1, <2>4, CloseBase
  <2> QED BY <1>2, <2>2, <2>3, <2>4, CloseIs
<1>3. ASSUME NEW p \in Procs, NEW id \in Ids, sem_wait(p, id) PROVE Base'
  <2>1. holds[p][id] \in Cells /\ pstate[p] = "ready"
    BY <1>3, Types DEF sem_wait, Runs
  <2> QED BY <1>3, <2>1, TakenBase DEF sem_wait
<1>4. ASSUME NEW p \in Procs, NEW id \in Ids, sem_post(p, id) PROVE Base'
  BY <1>4, PostBase
<1>5. ASSUME NEW p \in Procs, Resume(p) PROVE Base'
  <2>1. wants[p] \in Cells /\ pstate[p] = "ready"
    BY <1>5, Types DEF Resume, Woken
  <2> QED BY <1>5, <2>1, TakenBase DEF Resume
<1>6. ASSUME NEW p \in Procs, KillPid(p) PROVE Base'
  BY <1>6, KillBase
<1>7. ASSUME NEW p \in Procs, createProcess(p) PROVE Base'
  BY <1>7, CreateBase
<1>8. CASE UNCHANGED vars
  <2>1. TableOK'
    BY <1>8 DEF vars, Base, TableOK, UniqueIds, EntriesUsed, UsedEntered, HandlesOpen, Indices
  <2> QED BY <1>8, <2>1 DEF vars, Base, TypeOK, DeadHoldNothing, WaitersLive
<1>9. ASSUME NEW p \in Procs, Hit(p) PROVE Base'
  BY <1>9, HitBase
<1> QED BY <1>1, <1>2, <1>3, <1>4, <1>5, <1>6, <1>7, <1>8, <1>9 DEF Next

\* Nothing is ever forgotten of what disturbed.
LEMMA SeenGrows ==
  ASSUME Base, [Next]_vars, seen' = {}
  PROVE  seen = {}
<1>1. ASSUME NEW p \in Procs, NEW id \in Ids, sem_close(p, id) PROVE seen = {}
  BY <1>1 DEF sem_close, Spin
<1>2. ASSUME NEW p \in Procs, KillPid(p) PROVE seen = {}
  BY <1>2 DEF KillPid
<1>3. ASSUME NEW p \in Procs, NEW id \in Ids, NEW v \in Values, sem_open(p, id, v)
      PROVE  seen = {}
  BY <1>3 DEF sem_open, Spin
<1>4. ASSUME NEW p \in Procs, NEW id \in Ids, sem_wait(p, id) \/ sem_post(p, id)
      PROVE  seen = {}
  BY <1>4 DEF sem_wait, sem_post
<1>5. ASSUME NEW p \in Procs, Resume(p) \/ Hit(p) \/ createProcess(p) PROVE seen = {}
  BY <1>5 DEF Resume, Hit, createProcess
<1>6. CASE UNCHANGED vars
  BY <1>6 DEF vars
<1> QED BY <1>1, <1>2, <1>3, <1>4, <1>5, <1>6 DEF Next

LEMMA UndamagedStep ==
  ASSUME IInv, [Next]_vars, seen' = {}
  PROVE  Undamaged'
<1>0. Quiet /\ Base /\ seen = {}
  BY SeenGrows DEF IInv, Quiet
<1>1. ASSUME NEW p \in Procs, Runs(p), Spin(p) PROVE Undamaged'
  <2>1. \A q \in Procs : pstate'[q] = "blocked" <=> pstate[q] = "blocked"
    BY <1>0, <1>1, Types DEF Spin, Runs
  <2> QED BY <1>0, <1>1, <2>1, StateQuiet DEF Spin, table
<1>2. ASSUME NEW p \in Procs, NEW id \in Ids, NEW v \in Values, sem_open(p, id, v)
      PROVE  Undamaged'
  <2>1. Runs(p)
    BY <1>0, <1>2, OpenIs
  <2>2. CASE Spin(p)
    BY <1>1, <2>1, <2>2
  <2>3. CASE mutexSem' = 1 /\ UNCHANGED <<semaphores, cell, used, holds, pstate, wants, seen>>
    BY <1>0, <2>3, StateQuiet
  <2>4. ASSUME UNCHANGED <<semaphores, mutexSem, used, cell, pstate, wants, seen>>,
               NEW h \in used, cell[h].id = id, holds' = [holds EXCEPT ![p][id] = h]
        PROVE  Undamaged'
    BY <1>0, <2>1, <2>4, OpenOldQuiet
  <2>5. ASSUME v \in 0..MaxValue, NEW c, OpensNew(p, id, v, c) PROVE Undamaged'
    BY <1>0, <2>1, <2>5, OpenNewQuiet
  <2> QED BY <1>0, <1>2, <2>2, <2>3, <2>4, <2>5, OpenIs
<1>3. ASSUME NEW p \in Procs, NEW id \in Ids, sem_close(p, id) PROVE Undamaged'
  <2>1. Runs(p) /\ holds[p][id] # NULL
    BY <1>3, CloseIs
  <2>2. CASE Spin(p)
    BY <1>1, <2>1, <2>2
  <2>3. CASE ClosesNothing(p, id)
    <3>1. PICK k \in Indices : semaphores[k] = holds[p][id]
      BY <1>0, <2>1, QuietFacts DEF UsedEntered
    <3> QED BY <2>3, <3>1 DEF ClosesNothing, Found
  <2>4. ASSUME NEW k \in Indices, Closes(p, id, k) PROVE Undamaged'
    <3>1. Others(p, id) = {}
      BY <2>4 DEF Closes
    <3> QED BY <1>0, <2>1, <2>4, <3>1, CloseQuiet DEF Closes
  <2> QED BY <1>3, <2>2, <2>3, <2>4, CloseIs
<1>4. ASSUME NEW p \in Procs, NEW id \in Ids, sem_wait(p, id) PROVE Undamaged'
  <2>1. holds[p][id] \in used /\ pstate[p] = "ready"
    BY <1>0, <1>4, QuietFacts DEF sem_wait, Runs
  <2> QED BY <1>0, <1>4, <2>1, TakenQuiet DEF sem_wait
<1>5. ASSUME NEW p \in Procs, NEW id \in Ids, sem_post(p, id) PROVE Undamaged'
  BY <1>0, <1>5, PostQuiet
<1>6. ASSUME NEW p \in Procs, Resume(p) PROVE Undamaged'
  <2>1. wants[p] \in used /\ pstate[p] = "ready" /\ \E id \in Ids : holds[p][id] = wants[p]
    BY <1>0, <1>6, QuietFacts DEF Resume, Woken, WantsHeld
  <2> QED BY <1>0, <1>6, <2>1, TakenQuiet DEF Resume
<1>7. ASSUME NEW p \in Procs, KillPid(p) PROVE Undamaged'
  BY <1>0, <1>7, KillQuiet
<1>8. ASSUME NEW p \in Procs, createProcess(p) PROVE Undamaged'
  <2>1. \A q \in Procs : pstate'[q] = "blocked" <=> pstate[q] = "blocked"
    BY <1>0, <1>8, Types DEF createProcess
  <2> QED BY <1>0, <1>8, <2>1, StateQuiet DEF createProcess, table
<1>9. CASE UNCHANGED vars
  BY <1>0, <1>9, StateQuiet DEF vars
<1>10. ASSUME NEW p \in Procs, Hit(p) PROVE FALSE
  BY <1>10 DEF Hit
<1> QED BY <1>2, <1>3, <1>4, <1>5, <1>6, <1>7, <1>8, <1>9, <1>10 DEF Next

LEMMA UndamagedInit == Init => Undamaged
BY DEF Init, Undamaged, HandlesOpen, WantsHeld
-----------------------------------------------------------------------------
(* The theorems                                                            *)

\* The invariant of the semaphore table (semaphore.c:21-106, 132-142): its entries,
\* whoever closes; until a close under a holder the handles, and until then, a damaged
\* queue and a waiter hit before it is queued, the queues.
THEOREM InductiveInvariant == Spec => []IInv
<1>1. Init => IInv
  BY BaseInit, UndamagedInit DEF IInv
<1>2. IInv /\ [Next]_vars => IInv'
  BY BaseStep, UndamagedStep DEF IInv
<1> QED BY <1>1, <1>2, PTL DEF Spec

\* A number has at most one entry; the entries are the allocated semaphores, each once,
\* until one is freed again through a handle that outlived it, which takes a close under
\* a holder before (semaphore.c:21-70): however many processes close, no semaphore leaks
\* or is freed twice as long as each closes what nobody else holds.
THEOREM TableStands == Spec => []Inv
<1>1. IInv => Inv
  <2> SUFFICES ASSUME IInv PROVE Inv
    OBVIOUS
  <2>1. Base
    BY DEF IInv
  <2>2. semaphores \in Seq(Cells) /\ Len(semaphores) \in Nat /\ IsFiniteSet(used)
    BY <2>1, Types
  <2>0. UniqueIds /\ EntriesUsed
    BY <2>1 DEF Base, TableOK
  <2>3. UsedEntered => Range(semaphores) = used
    BY <2>0, <2>2 DEF EntriesUsed, UsedEntered, Range, Indices
  <2>4. ASSUME UsedEntered PROVE Len(semaphores) = Cardinality(used)
    <3>1. semaphores \in Bijection(1..Len(semaphores), used)
      <4>1. \A i, j \in 1..Len(semaphores) : semaphores[i] = semaphores[j] => i = j
        BY <2>0 DEF UniqueIds, Indices
      <4>2. semaphores \in [1..Len(semaphores) -> used]
        BY <2>0, <2>2 DEF EntriesUsed, Indices
      <4>3. \A c \in used : \E i \in 1..Len(semaphores) : semaphores[i] = c
        BY <2>4 DEF UsedEntered, Indices
      <4> QED BY <4>1, <4>2, <4>3 DEF Bijection, Injection, Surjection, IsInjective
    <3> QED BY <2>2, <3>1, FS_CountingElements DEF ExistsBijection
  <2> QED BY <2>1, <2>3, <2>4 DEF Base, TableOK, Inv, TableIsAllocated
<1> QED BY <1>1, InductiveInvariant, PTL

\* A process blocked in sem_wait is in exactly one queue of the table, where sem_post
\* and deleteProcessFromSemaphores find it, until a semaphore is closed under a holder,
\* a kill takes the wrong process out of a queue, or the timer hits a woken waiter before
\* it is queued again (semaphore.c:61-64, 72-81, 132-142).
THEOREM SleepersListed == Spec => []SleeperIsListed
<1>1. IInv => SleeperIsListed
  <2> SUFFICES ASSUME IInv, seen = {}, NEW p \in Procs
               PROVE  /\ pstate[p] = "blocked" => Cardinality(Queues(p)) = 1
                      /\ pstate[p] # "blocked" => Queues(p) = {}
    BY DEF SleeperIsListed
  <2>1. Quiet
    BY DEF IInv, Quiet
  <2>2. \A i \in Indices : semaphores[i] \in used
    BY <2>1, QuietFacts DEF EntriesUsed
  <2>3. ASSUME NEW c \in used PROVE p \in Range(cell[c].queue)
                                      <=> pstate[p] = "blocked" /\ wants[p] = c
    <3>1. PICK q \in Seq(Procs) : q = cell[c].queue
      BY <2>1, QuietFacts, Types
    <3>2. QueueRight(c, q)
      BY <2>1, <3>1, QuietFacts
    <3>3. p \in Range(q) <=> \E i \in 1..Len(q) : q[i] = p
      BY DEF Range
    <3> QED BY <3>1, <3>2, <3>3 DEF QueueRight
  <2>4. CASE pstate[p] = "blocked"
    <3>1. wants[p] \in used
      BY <2>1, <2>4, QuietFacts
    <3>2. PICK k \in Indices : semaphores[k] = wants[p]
      BY <2>1, <3>1, QuietFacts DEF UsedEntered
    <3>3. \A i \in Indices : semaphores[i] = semaphores[k] => i = k
      BY <2>1, QuietFacts DEF UniqueIds
    <3>4. Queues(p) = {k}
      BY <2>2, <2>3, <2>4, <3>2, <3>3 DEF Queues
    <3> QED BY <2>4, <3>4, FS_Singleton
  <2>5. CASE pstate[p] # "blocked"
    BY <2>2, <2>3, <2>5 DEF Queues
  <2> QED BY <2>4, <2>5
<1> QED BY <1>1, InductiveInvariant, PTL
=============================================================================
