---------------------------- MODULE PipeTableProofs ----------------------------
(***************************************************************************)
(* Proofs about module PipeTable: the array of pipes is what is allocated, *)
(* an end is open exactly while a process has it, and a sleeper has        *)
(* somebody to wake it, for every number of processes, addresses, entries  *)
(* and numbers.                                                            *)
(*                                                                         *)
(* The three properties hold until different things go wrong, and so do    *)
(* the parts of the invariant.  That the array is right rests on a close   *)
(* finding its own pipe, so on nobody having a freed one: the ends must be *)
(* held by one process each (EndsHeld), which a kill does not disturb.     *)
(* That a sleeper has a writer rests on open ends having holders           *)
(* (OpenHeld), which a kill does.  That it is registered rests on no read  *)
(* being hit between its look and its registration (HitNoted).  Nothing    *)
(* holds after an open by number that sets a flag of another pipe, after   *)
(* pipeIds comes round, or once an exit is hit, but the types and what a   *)
(* process may have where it is (Phases).                                  *)
(***************************************************************************)
EXTENDS PipeTable, KernelLemmas

Record == [id : {NAMED} \union (MAX_PIPES .. (MAX_PIPES + PIPE_IDS - 1)),
           readOpen : BOOLEAN, writeOpen : BOOLEAN, unread : BOOLEAN,
           waiting : Procs \union {NULL}]
FdPipe == [pipe : Cells \union {NULL}, readable : BOOLEAN, writable : BOOLEAN]

PcSet == {"start", "open", "asleep", "again", "block", "store", "leave", "end"}
\* Where a process has a pipe.
Inside == {"open", "asleep", "again", "block", "store", "leave"}
USE DEF PcSet, Inside

\* What has disturbed the pipes so far at most: the classes of the properties.
Named == seen \subseteq {"killed", "unstarted", "hit"}
Held == seen \subseteq {"unstarted"}

\* Where a process is tells what it has.
Phases ==
  \A p \in Procs :
    /\ prog[p] = "none" => pc[p] = "start"
    /\ pc[p] \in {"start", "end"} => fd[p] = NoFd
    /\ pc[p] \in {"asleep", "again", "block", "store"} => fd[p].readable
    /\ ~ready[p] => pc[p] \in {"asleep", "store"}
    /\ ~(fd[p].readable /\ fd[p].writable)

\* The array has the allocated pipes, each with its own number, and the counter has
\* not given its next numbers yet.
EntriesRight ==
  /\ \A i \in Indices : pipes[i] \in used
  /\ \A c \in used : \E i \in Indices : pipes[i] = c
  /\ \A i, j \in Indices : cell[pipes[i]].id = cell[pipes[j]].id => i = j
  /\ \A i \in Indices : \/ cell[pipes[i]].id < MAX_PIPES + pipeIds
                        \/ cell[pipes[i]].id = MAX_PIPES + PIPE_IDS - 1

\* Process p has an end of pipe c that is marked open, and no other process has it.
HasEnd(p, c) ==
  /\ c \in used
  /\ fd[p].readable \/ fd[p].writable
  /\ fd[p].readable => cell[c].readOpen
  /\ fd[p].writable => cell[c].writeOpen
  /\ \A q \in Procs : fd[q].pipe = c /\ fd[q].readable = fd[p].readable => q = p

EndHeld(p) ==
  /\ pc[p] \in Inside => fd[p].pipe # NULL
  /\ fd[p].pipe # NULL => HasEnd(p, fd[p].pipe)
EndsHeld == \A p \in Procs : EndHeld(p)

\* An end that is marked open is had by somebody, unless nobody was started on it.
OpenHeld(c) ==
  /\ seen = {} \/ cell[c].id = NAMED => \E p \in Procs : fd[p].pipe = c
  /\ \A p \in Procs : fd[p].pipe = c =>
       /\ cell[c].readOpen => \E q \in Procs : fd[q].pipe = c /\ fd[q].readable
       /\ cell[c].writeOpen => \E q \in Procs : fd[q].pipe = c /\ fd[q].writable

\* A sleeper is whom its pipe will wake, and the other end is open.
SleepersNamed ==
  \A p \in Procs : ~ready[p] =>
    cell[fd[p].pipe].waiting = p /\ cell[fd[p].pipe].writeOpen

Core ==
  /\ TypeOK /\ Phases
  /\ Named => EntriesRight /\ EndsHeld
  /\ Held => (\A c \in used : OpenHeld(c)) /\ SleepersNamed

\* A read is between its look and its registration only behind a hit.
HitNoted == \A p \in Procs : pc[p] \in {"block", "store"} => "hit" \in seen

IInv == Core /\ HitNoted

\* What the type invariant and the assumptions say, for the steps to cite.
LEMMA Facts ==
  ASSUME TypeOK
  PROVE  /\ NULL \notin Cells /\ NULL \notin Procs
         /\ MAX_PIPES \in Nat /\ MAX_PIPES > 1 /\ PIPE_IDS \in Nat \ {0}
         /\ pipes \in Seq(Cells) /\ Len(pipes) \in Nat /\ Len(pipes) <= MAX_PIPES
         /\ Indices = 1..Len(pipes) /\ \A i \in Indices : pipes[i] \in Cells
         /\ pipeIds \in 0..(PIPE_IDS - 1)
         /\ cell \in [Cells -> Record] /\ used \subseteq Cells
         /\ prog \in [Procs -> {"left", "right", "p2", "p3", "none"}]
         /\ pc \in [Procs -> PcSet]
         /\ ready \in [Procs -> BOOLEAN]
         /\ fd \in [Procs -> FdPipe]
         /\ seen \subseteq Disturbances /\ count \in Nat /\ count <= MaxDisturbances
         /\ MaxDisturbances \in Nat
<1>1. pipes \in Seq(Cells) /\ Indices = 1..Len(pipes) /\ cell \in [Cells -> Record]
      /\ fd \in [Procs -> FdPipe]
  BY DEF TypeOK, Indices, Record, FdPipe
<1>2. \A i \in Indices : pipes[i] \in Cells
  BY <1>1
<1> QED BY <1>1, <1>2, CellsAssumption, ProcsAssumption, IdsAssumption, BoundAssumption DEF TypeOK

\* What a step notes.
LEMMA Noted ==
  ASSUME TypeOK, NEW s \in SUBSET Disturbances, Note(s)
  PROVE  /\ seen' \subseteq Disturbances /\ count' \in 0..MaxDisturbances
         /\ seen \subseteq seen' /\ s \subseteq seen'
<1>1. IsFiniteSet(Disturbances)
  <2>1. /\ IsFiniteSet({"missed"}) /\ IsFiniteSet({"refused"}) /\ IsFiniteSet({"wrapped"})
        /\ IsFiniteSet({"killed"}) /\ IsFiniteSet({"unstarted"}) /\ IsFiniteSet({"hit"})
        /\ IsFiniteSet({"wild"}) /\ IsFiniteSet({"cut"})
    BY FS_Singleton
  <2>2. /\ IsFiniteSet({"missed"} \union {"refused"})
        /\ IsFiniteSet({"wrapped"} \union {"killed"})
        /\ IsFiniteSet({"unstarted"} \union {"hit"})
        /\ IsFiniteSet({"wild"} \union {"cut"})
    BY <2>1, FS_Union
  <2>3. /\ IsFiniteSet(({"missed"} \union {"refused"}) \union ({"wrapped"} \union {"killed"}))
        /\ IsFiniteSet(({"unstarted"} \union {"hit"}) \union ({"wild"} \union {"cut"}))
    BY <2>2, FS_Union
  <2>4. IsFiniteSet((({"missed"} \union {"refused"}) \union ({"wrapped"} \union {"killed"}))
              \union (({"unstarted"} \union {"hit"}) \union ({"wild"} \union {"cut"})))
    BY <2>3, FS_Union
  <2>5. (({"missed"} \union {"refused"}) \union ({"wrapped"} \union {"killed"}))
          \union (({"unstarted"} \union {"hit"}) \union ({"wild"} \union {"cut"}))
          = Disturbances
    BY DEF Disturbances
  <2> QED BY <2>4, <2>5
<1>2. Cardinality(s \ {"wild"}) \in Nat
  <2>1. s \ {"wild"} \in SUBSET Disturbances
    OBVIOUS
  <2> QED BY <1>1, <2>1, FS_Subset, FS_CardinalityType
<1>3. /\ seen' = seen \union s /\ count' = count + Cardinality(s \ {"wild"})
      /\ count' <= MaxDisturbances
  BY DEF Note
<1>4. seen \subseteq Disturbances /\ count \in Nat /\ MaxDisturbances \in Nat
  BY Facts
<1> QED BY <1>2, <1>3, <1>4

\* The array of TypeOK and its parts.
LEMMA TableHolds ==
  ASSUME TypeOK, EntriesRight
  PROVE  /\ Range(pipes) = used /\ Len(pipes) = Cardinality(used)
         /\ \A i, j \in Indices : cell[pipes[i]].id = cell[pipes[j]].id => i = j
<1> USE DEF EntriesRight
<1>1. Len(pipes) \in Nat /\ Indices = 1..Len(pipes) /\ DOMAIN pipes = 1..Len(pipes)
  BY Facts
<1>2. Range(pipes) = used
  BY <1>1 DEF Range
<1>3. Len(pipes) = Cardinality(used)
  <2> DEFINE f == [i \in 1..Len(pipes) |-> pipes[i]]
  <2>1. f \in Bijection(1..Len(pipes), used)
    <3>1. f \in [1..Len(pipes) -> used]
      BY <1>1
    <3>2. \A i, j \in 1..Len(pipes) : f[i] = f[j] => i = j
      BY <1>1
    <3>3. \A c \in used : \E i \in 1..Len(pipes) : f[i] = c
      BY <1>1
    <3> QED BY <3>1, <3>2, <3>3 DEF Bijection, Injection, Surjection, IsInjective
  <2>2. ExistsBijection(1..Len(pipes), used)
    BY <2>1 DEF ExistsBijection
  <2> QED BY <1>1, <2>2, FS_CountingElements
<1> QED BY <1>2, <1>3

\* The inductive invariant is enough for the three properties.
LEMMA IInvImplies ==
  ASSUME IInv
  PROVE  Inv /\ EndsMatchHolders /\ SleeperHasWriter
<1>1. TypeOK /\ Phases /\ NULL \notin Cells
  BY Facts DEF IInv, Core
<1>2. TableIsAllocated
  BY <1>1, TableHolds DEF IInv, Core, TableIsAllocated, Named
<1>3. EndsMatchHolders
  <2> SUFFICES ASSUME seen = {}
               PROVE  /\ \A p \in Procs : fd[p].pipe # NULL => fd[p].pipe \in used
                      /\ \A c \in used :
                         /\ cell[c].readOpen <=> \E p \in Procs : fd[p].pipe = c /\ fd[p].readable
                         /\ cell[c].writeOpen <=> \E p \in Procs : fd[p].pipe = c /\ fd[p].writable
    BY DEF EndsMatchHolders
  <2>1. EndsHeld /\ \A c \in used : OpenHeld(c)
    BY DEF IInv, Core, Named, Held
  <2>2. used \subseteq Cells
    BY <1>1, Facts
  <2>3. ASSUME NEW c \in used
        PROVE  /\ cell[c].readOpen <=> \E p \in Procs : fd[p].pipe = c /\ fd[p].readable
               /\ cell[c].writeOpen <=> \E p \in Procs : fd[p].pipe = c /\ fd[p].writable
    <3>1. c # NULL
      BY <1>1, <2>2
    <3>2. PICK p \in Procs : fd[p].pipe = c
      BY <2>1 DEF OpenHeld
    <3>3. /\ cell[c].readOpen => \E q \in Procs : fd[q].pipe = c /\ fd[q].readable
          /\ cell[c].writeOpen => \E q \in Procs : fd[q].pipe = c /\ fd[q].writable
      BY <2>1, <3>2 DEF OpenHeld
    <3>4. \A q \in Procs : fd[q].pipe = c =>
            /\ fd[q].readable => cell[c].readOpen
            /\ fd[q].writable => cell[c].writeOpen
      BY <2>1, <3>1 DEF EndsHeld, EndHeld, HasEnd
    <3> QED BY <3>3, <3>4
  <2> QED BY <2>1, <2>3 DEF EndsHeld, EndHeld, HasEnd
<1>4. SleeperHasWriter
  <2> SUFFICES ASSUME Held, NEW p \in Procs, prog[p] # "none", ~ready[p]
               PROVE  /\ cell[fd[p].pipe].waiting = p
                      /\ \E q \in Procs : fd[q].pipe = fd[p].pipe /\ fd[q].writable
                                          /\ prog[q] # "none" /\ ready[q]
    BY DEF SleeperHasWriter, Held
  <2>1. EndsHeld /\ (\A c \in used : OpenHeld(c)) /\ SleepersNamed
    BY DEF IInv, Core, Named, Held
  <2>2. pc[p] \in {"asleep", "store"}
    BY <1>1 DEF Phases
  <2>3. fd[p].pipe # NULL /\ fd[p].pipe \in used
    BY <2>1, <2>2 DEF EndsHeld, EndHeld, HasEnd
  <2>4. cell[fd[p].pipe].waiting = p /\ cell[fd[p].pipe].writeOpen
    BY <2>1 DEF SleepersNamed
  <2>5. PICK q \in Procs : fd[q].pipe = fd[p].pipe /\ fd[q].writable
    BY <2>1, <2>3, <2>4 DEF OpenHeld
  <2>6. ready[q]
    BY <1>1, <2>5 DEF Phases
  <2>7. prog[q] # "none"
    BY <1>1, <2>3, <2>5 DEF Phases, NoFd
  <2> QED BY <2>4, <2>5, <2>6, <2>7
<1> QED BY <1>1, <1>2, <1>3, <1>4 DEF Inv

\* The system starts with no pipe, no process and nobody asleep.
LEMMA IInvInit == Init => IInv
<1> SUFFICES ASSUME Init PROVE IInv
  OBVIOUS
<1>1. pipes = <<>> /\ Indices = {} /\ used = {} /\ Len(pipes) = 0 /\ pipes \in Seq(Cells)
  BY DEF Init, Indices
<1>2. Closed \in Record /\ NoFd \in FdPipe
  BY DEF Closed, Record, NoFd, FdPipe
<1>3. cell \in [Cells -> Record] /\ fd \in [Procs -> FdPipe]
  BY <1>2 DEF Init
<1>4. TypeOK
  BY <1>1, <1>3, IdsAssumption, BoundAssumption DEF Init, TypeOK, Record, FdPipe
<1>5. Phases
  BY DEF Init, Phases, NoFd
<1>6. EntriesRight
  BY <1>1 DEF EntriesRight
<1>7. EndsHeld
  BY DEF Init, EndsHeld, EndHeld, NoFd
<1>8. SleepersNamed
  BY DEF Init, SleepersNamed
<1>9. HitNoted
  BY DEF Init, HitNoted
<1> QED BY <1>1, <1>4, <1>5, <1>6, <1>7, <1>8, <1>9 DEF IInv, Core
-----------------------------------------------------------------------------
(* Parts of the steps                                                      *)

\* Waking somebody makes nobody sleep.
LEMMA WokenTypes ==
  ASSUME TypeOK, NEW c
  PROVE  /\ Woken(c) \in [Procs -> BOOLEAN]
         /\ \A q \in Procs : ready[q] => Woken(c)[q]
<1>1. ready \in [Procs -> BOOLEAN]
  BY Facts
<1> QED BY <1>1 DEF Woken

\* The waiting process of the pipe is woken, and nobody else (pipes.c:158-161).
LEMMA WokenFacts ==
  ASSUME TypeOK, NEW c \in Cells
  PROVE  /\ Woken(c) \in [Procs -> BOOLEAN]
         /\ \A q \in Procs : ready[q] => Woken(c)[q]
         /\ \A q \in Procs : cell[c].waiting = q => Woken(c)[q]
         /\ \A q \in Procs : cell[c].waiting # q => Woken(c)[q] = ready[q]
<1>1. ready \in [Procs -> BOOLEAN] /\ cell[c].waiting \in Procs \union {NULL} /\ NULL \notin Procs
  BY Facts DEF Record
<1> QED BY <1>1 DEF Woken

\* The numbers stay, and with them the entries.
LEMMA EntriesKept ==
  ASSUME TypeOK, EntriesRight, UNCHANGED array, \A c \in Cells : cell'[c].id = cell[c].id
  PROVE  EntriesRight'
<1>1. \A i \in Indices : pipes[i] \in Cells
  BY Facts
<1>2. Indices' = Indices /\ pipes' = pipes /\ pipeIds' = pipeIds /\ used' = used
  BY DEF Indices, array
<1> QED BY <1>1, <1>2 DEF EntriesRight

\* The classes only shrink.
LEMMA ClassesShrink ==
  ASSUME seen \subseteq seen'
  PROVE  /\ Named' => Named
         /\ Held' => Held
         /\ Held => Named
         /\ seen' = {} => seen = {}
BY DEF Named, Held

\* deletePipeFromArray finds the pipe itself when it is in the array.
LEMMA DeleteFinds ==
  ASSUME TypeOK, EntriesRight, NEW c \in used
  PROVE  \E i \in Indices : pipes[i] = c /\ deletePipeFromArray(c) = RemoveAt(pipes, i)
<1>1. PICK i \in Indices : pipes[i] = c
  BY DEF EntriesRight
<1>2. Found(cell[c].id) = {i}
  BY <1>1 DEF Found, EntriesRight
<1>3. Min({i}) = i
  <2>1. Min({i}) \in {i}
    <3>1. i \in Nat
      BY Facts
    <3>2. \E x \in {i} : \A y \in {i} : x <= y
      BY <3>1
    <3> QED BY <3>2 DEF Min
  <2> QED BY <2>1
<1> QED BY <1>1, <1>2, <1>3 DEF deletePipeFromArray, Removed

\* Whatever deletePipeFromArray takes out, the rest is an array of pipes.
LEMMA DeleteTypes ==
  ASSUME TypeOK, NEW c
  PROVE  deletePipeFromArray(c) \in Seq(Cells) /\ Len(deletePipeFromArray(c)) <= MAX_PIPES
<1>1. pipes \in Seq(Cells) /\ Len(pipes) \in Nat /\ Len(pipes) <= MAX_PIPES /\ MAX_PIPES \in Nat
      /\ Indices = 1..Len(pipes)
  BY Facts
<1> DEFINE S == Found(cell[c].id)
<1>2. CASE S = {}
  BY <1>1, <1>2 DEF deletePipeFromArray
<1>3. CASE S # {}
  <2>1. S \in SUBSET Nat /\ S \subseteq Indices
    BY <1>1 DEF Found
  <2>2. Min(S) \in S
    <3> HIDE DEF S
    <3>1. \E x \in S : \A y \in S : x <= y
      BY <1>3, <2>1, LeastNatural
    <3> QED BY <3>1 DEF Min
  <2>3. Min(S) \in 1..Len(pipes)
    BY <1>1, <2>1, <2>2
  <2>4. RemoveAt(pipes, Min(S)) \in Seq(Cells) /\ Len(RemoveAt(pipes, Min(S))) = Len(pipes) - 1
    BY <1>1, <2>3, RemoveAtProperties
  <2> QED BY <1>1, <1>3, <2>4 DEF deletePipeFromArray, Removed
<1> QED BY <1>2, <1>3

\* A pipe leaves the array and the heap.
LEMMA EntryRemoved ==
  ASSUME TypeOK, EntriesRight, NEW c \in used,
         pipes' = deletePipeFromArray(c), used' = used \ {c}, UNCHANGED pipeIds,
         \A d \in Cells : cell'[d].id = cell[d].id
  PROVE  EntriesRight'
<1>1. PICK k \in Indices : pipes[k] = c /\ pipes' = RemoveAt(pipes, k)
  BY DeleteFinds
<1>2. /\ Len(pipes) \in Nat /\ Indices = 1..Len(pipes) /\ pipes \in Seq(Cells)
      /\ \A i \in Indices : pipes[i] \in Cells
  BY Facts
<1>3. /\ Len(pipes') = Len(pipes) - 1
      /\ \A i \in 1..(Len(pipes) - 1) : pipes'[i] = IF i < k THEN pipes[i] ELSE pipes[i+1]
  BY <1>1, <1>2, RemoveAtProperties
<1>4. Indices' = 1..(Len(pipes) - 1)
  BY <1>3 DEF Indices
<1> DEFINE old(i) == IF i < k THEN i ELSE i + 1
<1>5. \A i \in Indices' : old(i) \in Indices /\ old(i) # k /\ pipes'[i] = pipes[old(i)]
  BY <1>1, <1>2, <1>3, <1>4
<1>6. \A i, j \in Indices' : old(i) = old(j) => i = j
  BY <1>1, <1>2, <1>4
<1>7. \A i \in Indices : i # k => \E j \in Indices' : old(j) = i
  <2> SUFFICES ASSUME NEW i \in Indices, i # k PROVE \E j \in Indices' : old(j) = i
    OBVIOUS
  <2> DEFINE j == IF i < k THEN i ELSE i - 1
  <2>1. j \in Indices' /\ old(j) = i
    BY <1>1, <1>2, <1>4
  <2> QED BY <2>1
<1> HIDE DEF old
<1>8. \A i \in Indices : pipes[i] = c => i = k
  BY <1>1 DEF EntriesRight
<1>9. \A i \in Indices' : pipes'[i] \in used'
  BY <1>5, <1>8 DEF EntriesRight
<1>10. \A d \in used' : \E i \in Indices' : pipes'[i] = d
  <2> SUFFICES ASSUME NEW d \in used, d # c PROVE \E i \in Indices' : pipes'[i] = d
    OBVIOUS
  <2>1. PICK i \in Indices : pipes[i] = d
    BY DEF EntriesRight
  <2>2. PICK j \in Indices' : old(j) = i
    BY <1>1, <1>7, <2>1
  <2> QED BY <1>5, <2>1, <2>2
<1>11. \A i \in Indices' : cell'[pipes'[i]].id = cell[pipes[old(i)]].id /\ old(i) \in Indices
  BY <1>2, <1>5
<1>12. \A i, j \in Indices' : cell'[pipes'[i]].id = cell'[pipes'[j]].id => i = j
  BY <1>6, <1>11 DEF EntriesRight
<1>13. \A i \in Indices' : \/ cell'[pipes'[i]].id < MAX_PIPES + pipeIds'
                           \/ cell'[pipes'[i]].id = MAX_PIPES + PIPE_IDS - 1
  BY <1>11 DEF EntriesRight
<1> QED BY <1>9, <1>10, <1>12, <1>13 DEF EntriesRight
-----------------------------------------------------------------------------
(* closeFdPipe, in a Leave or in an Exit                                   *)

\* Memory is as in m, but that p may be forgotten by whatever pipe was to wake it.
AsIn(m, p) ==
  /\ cell' \in [Cells -> Record]
  /\ \A d \in Cells : /\ cell'[d].id = m[d].id
                      /\ cell'[d].readOpen = m[d].readOpen
                      /\ cell'[d].writeOpen = m[d].writeOpen
                      /\ m[d].waiting # p => cell'[d].waiting = m[d].waiting

Closes(p) ==
  /\ ready[p] /\ pc[p] \in {"open", "leave"}
  /\ closeFdPipe(p, AfterClose(fd[p])) /\ AsIn(AfterClose(fd[p]), p)
  /\ \/ prog' = prog /\ pc' = [pc EXCEPT ![p] = "end"]
     \/ prog' = [prog EXCEPT ![p] = "none"] /\ pc' = [pc EXCEPT ![p] = "start"]

\* It ends at NULL, frees the pipe, or wakes who waits.
ClosesNothing(p) ==
  fd[p].pipe = NULL /\ UNCHANGED <<pipes, used, ready, log>> /\ AsIn(cell, p)
Frees(p, c) ==
  /\ fd[p].pipe = c /\ c # NULL /\ OtherClosed(fd[p])
  /\ AsIn(Shut(fd[p], c), p)
  /\ pipes' = deletePipeFromArray(c) /\ used' = used \ {c}
  /\ Note(IF c \in used THEN {} ELSE {"wild"})
  /\ UNCHANGED ready
Wakes(p, c) ==
  /\ fd[p].pipe = c /\ c # NULL /\ ~OtherClosed(fd[p])
  /\ ready' = Woken(c)
  /\ AsIn([Shut(fd[p], c) EXCEPT ![c].waiting = NULL], p)
  /\ UNCHANGED <<pipes, used, log>>

\* What closeFdPipe leaves of the process that calls it, whichever way it goes.
LEMMA ClosesFacts ==
  ASSUME TypeOK, Phases, NEW p \in Procs, Closes(p)
  PROVE  /\ ready[p] /\ pc[p] \in {"open", "leave"} /\ prog[p] # "none"
         /\ fd' = [fd EXCEPT ![p] = NoFd] /\ pipeIds' = pipeIds
         /\ ClosesNothing(p) \/ \E c \in Cells : Frees(p, c) \/ Wakes(p, c)
         /\ seen \subseteq seen' /\ seen' \subseteq Disturbances /\ count' \in 0..MaxDisturbances
         /\ \A q \in Procs : q # p => fd'[q] = fd[q] /\ pc'[q] = pc[q] /\ prog'[q] = prog[q]
         /\ fd'[p] = NoFd /\ pc'[p] \in {"start", "end"}
         /\ prog'[p] = "none" => pc'[p] = "start"
         /\ prog' \in [Procs -> {"left", "right", "p2", "p3", "none"}]
         /\ pc' \in [Procs -> PcSet]
         /\ fd' \in [Procs -> FdPipe]
<1>1. ready[p] /\ pc[p] \in {"open", "leave"} /\ prog[p] # "none"
  BY DEF Closes, Phases
<1>2. fd' = [fd EXCEPT ![p] = NoFd] /\ pipeIds' = pipeIds
  BY DEF Closes, closeFdPipe
<1>3. ClosesNothing(p) \/ \E c \in Cells : Frees(p, c) \/ Wakes(p, c)
  <2> DEFINE m == AfterClose(fd[p])
  <2>1. fd[p].pipe \in Cells \union {NULL}
    BY Facts DEF FdPipe
  <2>2. AsIn(m, p)
    BY DEF Closes
  <2>3. CASE fd[p].pipe = NULL
    <3>1. m = cell
      BY <2>3 DEF AfterClose
    <3> QED BY <2>2, <2>3, <3>1 DEF Closes, closeFdPipe, ClosesNothing
  <2>4. CASE fd[p].pipe # NULL /\ OtherClosed(fd[p])
    <3>1. m = Shut(fd[p], fd[p].pipe)
      BY <2>4 DEF AfterClose
    <3> QED BY <2>1, <2>2, <2>4, <3>1 DEF Closes, closeFdPipe, Frees
  <2>5. CASE fd[p].pipe # NULL /\ ~OtherClosed(fd[p])
    <3>1. m = [Shut(fd[p], fd[p].pipe) EXCEPT ![fd[p].pipe].waiting = NULL]
      BY <2>5 DEF AfterClose
    <3> QED BY <2>1, <2>2, <2>5, <3>1 DEF Closes, closeFdPipe, Wakes
  <2> QED BY <2>3, <2>4, <2>5
<1>4. seen \subseteq seen' /\ seen' \subseteq Disturbances /\ count' \in 0..MaxDisturbances
  <2>1. CASE UNCHANGED log
    BY <2>1, Facts DEF log
  <2>2. ASSUME NEW c \in Cells, Note(IF c \in used THEN {} ELSE {"wild"})
        PROVE  seen \subseteq seen' /\ seen' \subseteq Disturbances /\ count' \in 0..MaxDisturbances
    <3>1. (IF c \in used THEN {} ELSE {"wild"}) \in SUBSET Disturbances
      BY DEF Disturbances
    <3> QED BY <2>2, <3>1, Noted
  <2> QED BY <1>3, <2>1, <2>2 DEF ClosesNothing, Frees, Wakes
<1>5. NoFd \in FdPipe
  BY DEF NoFd, FdPipe
<1>6. /\ fd \in [Procs -> FdPipe]
      /\ prog \in [Procs -> {"left", "right", "p2", "p3", "none"}]
      /\ pc \in [Procs -> PcSet]
  BY Facts
<1>7. \/ prog' = prog /\ pc' = [pc EXCEPT ![p] = "end"]
      \/ prog' = [prog EXCEPT ![p] = "none"] /\ pc' = [pc EXCEPT ![p] = "start"]
  BY DEF Closes
<1>8. /\ \A q \in Procs : q # p => fd'[q] = fd[q] /\ pc'[q] = pc[q] /\ prog'[q] = prog[q]
      /\ fd'[p] = NoFd /\ pc'[p] \in {"start", "end"}
      /\ prog'[p] = "none" => pc'[p] = "start"
  BY <1>1, <1>2, <1>6, <1>7
<1>9. /\ prog' \in [Procs -> {"left", "right", "p2", "p3", "none"}]
      /\ pc' \in [Procs -> PcSet]
      /\ fd' \in [Procs -> FdPipe]
  BY <1>2, <1>5, <1>6, <1>7
<1> QED BY <1>1, <1>2, <1>3, <1>4, <1>8, <1>9

\* One flag of one pipe is cleared.
LEMMA ShutFacts ==
  ASSUME TypeOK, NEW p \in Procs, NEW c \in Cells
  PROVE  /\ Shut(fd[p], c) \in [Cells -> Record]
         /\ \A d \in Cells : /\ d # c => Shut(fd[p], c)[d] = cell[d]
                             /\ Shut(fd[p], c)[d].id = cell[d].id
                             /\ Shut(fd[p], c)[d].waiting = cell[d].waiting
         /\ fd[p].readable => Shut(fd[p], c)[c].writeOpen = cell[c].writeOpen
                              /\ ~Shut(fd[p], c)[c].readOpen
         /\ ~fd[p].readable => Shut(fd[p], c)[c].readOpen = cell[c].readOpen
                              /\ ~Shut(fd[p], c)[c].writeOpen
<1>1. cell \in [Cells -> Record] /\ fd[p] \in FdPipe
  BY Facts
<1>2. CASE fd[p].readable
  BY <1>1, <1>2 DEF Shut, Record
<1>3. CASE ~fd[p].readable
  BY <1>1, <1>3 DEF Shut, Record
<1> QED BY <1>2, <1>3

\* The types of what the pipes themselves are made of.
MemoryTyped ==
  /\ pipes \in Seq(Cells) /\ Len(pipes) <= MAX_PIPES /\ pipeIds \in 0..(PIPE_IDS - 1)
  /\ cell \in [Cells -> Record] /\ used \subseteq Cells /\ ready \in [Procs -> BOOLEAN]

AllStayReady == \A q \in Procs : ready[q] => ready'[q]

\* Types and phases after a close.
LEMMA CloseBase ==
  ASSUME TypeOK, Phases, NEW p \in Procs, Closes(p)
  PROVE  TypeOK' /\ Phases'
<1>1. MemoryTyped' /\ AllStayReady
  <2>1. pipeIds' = pipeIds /\ pipeIds \in 0..(PIPE_IDS - 1)
    BY ClosesFacts, Facts
  <2>2. CASE ClosesNothing(p)
    BY <2>1, <2>2, Facts DEF ClosesNothing, AsIn, MemoryTyped, AllStayReady
  <2>3. ASSUME NEW c \in Cells, Frees(p, c) PROVE MemoryTyped' /\ AllStayReady
    BY <2>1, <2>3, Facts, DeleteTypes DEF Frees, AsIn, MemoryTyped, AllStayReady
  <2>4. ASSUME NEW c \in Cells, Wakes(p, c) PROVE MemoryTyped' /\ AllStayReady
    <3>2. cell' \in [Cells -> Record]
      BY <2>4 DEF Wakes, AsIn
    <3>3. ready' \in [Procs -> BOOLEAN] /\ AllStayReady
      BY <2>4, WokenFacts DEF Wakes, AllStayReady
    <3> QED BY <2>1, <2>4, <3>2, <3>3, Facts DEF Wakes, MemoryTyped
  <2> QED BY <2>2, <2>3, <2>4, ClosesFacts
<1>2. TypeOK'
  BY <1>1, ClosesFacts DEF MemoryTyped, TypeOK, Record, FdPipe
<1>3. Phases'
  <2> SUFFICES ASSUME NEW q \in Procs
               PROVE  /\ prog'[q] = "none" => pc'[q] = "start"
                      /\ pc'[q] \in {"start", "end"} => fd'[q] = NoFd
                      /\ pc'[q] \in {"asleep", "again", "block", "store"} => fd'[q].readable
                      /\ ~ready'[q] => pc'[q] \in {"asleep", "store"}
                      /\ ~(fd'[q].readable /\ fd'[q].writable)
    BY DEF Phases
  <2>1. CASE q = p
    <3>1. ready'[p]
      BY <1>1, ClosesFacts DEF AllStayReady
    <3>2. ~NoFd.readable
      BY DEF NoFd
    <3>3. fd'[p] = NoFd /\ pc'[p] \in {"start", "end"} /\ (prog'[p] = "none" => pc'[p] = "start")
      BY ClosesFacts
    <3> QED BY <2>1, <3>1, <3>2, <3>3
  <2>2. CASE q # p
    <3>1. fd'[q] = fd[q] /\ pc'[q] = pc[q] /\ prog'[q] = prog[q] /\ (ready[q] => ready'[q])
      BY <1>1, <2>2, ClosesFacts DEF AllStayReady
    <3> QED BY <3>1 DEF Phases
  <2> QED BY <2>1, <2>2
<1> QED BY <1>2, <1>3

\* Whoever shares the pipe with the one that closes has its other end.
LEMMA OtherHasOtherEnd ==
  ASSUME TypeOK, Phases, EndsHeld, NEW p \in Procs, NEW c \in Cells, fd[p].pipe = c, c # NULL,
         NEW q \in Procs, q # p, fd[q].pipe = c
  PROVE  /\ ~OtherClosed(fd[p])
         /\ fd[q].readable = ~fd[p].readable /\ fd[q].writable = fd[p].readable
<1>1. HasEnd(p, c) /\ HasEnd(q, c)
  BY DEF EndsHeld, EndHeld
<1>2. fd[q].readable # fd[p].readable
  BY <1>1 DEF HasEnd
<1>3. fd[p] \in FdPipe /\ fd[q] \in FdPipe
  BY Facts
<1>4. /\ fd[p].readable \in BOOLEAN /\ fd[p].writable \in BOOLEAN
      /\ fd[q].readable \in BOOLEAN /\ fd[q].writable \in BOOLEAN
  BY <1>3 DEF FdPipe
<1>5. ~(fd[p].readable /\ fd[p].writable) /\ ~(fd[q].readable /\ fd[q].writable)
  BY DEF Phases
<1>6. fd[q].readable = ~fd[p].readable /\ fd[q].writable = fd[p].readable
  BY <1>1, <1>2, <1>4, <1>5 DEF HasEnd
<1>7. ~OtherClosed(fd[p])
  BY <1>1, <1>6 DEF HasEnd, OtherClosed
<1> QED BY <1>6, <1>7

\* In a calm table whoever closes has a pipe.
LEMMA CloseCases ==
  ASSUME TypeOK, Phases, EndsHeld, NEW p \in Procs, Closes(p)
  PROVE  \E c \in Cells : /\ c \in used /\ fd[p].pipe = c /\ c # NULL
                          /\ Frees(p, c) \/ Wakes(p, c)
<1>1. pc[p] \in {"open", "leave"}
  BY DEF Closes
<1>2. fd[p].pipe # NULL /\ fd[p].pipe \in used
  BY <1>1 DEF EndsHeld, EndHeld, HasEnd
<1>3. ~ClosesNothing(p)
  BY <1>2 DEF ClosesNothing
<1>4. PICK c \in Cells : Frees(p, c) \/ Wakes(p, c)
  BY <1>3, ClosesFacts
<1>5. fd[p].pipe = c
  BY <1>4 DEF Frees, Wakes
<1> QED BY <1>2, <1>4, <1>5

\* The array after a close: a pipe leaves it together with its memory.
LEMMA CloseEntries ==
  ASSUME TypeOK, Phases, EntriesRight, EndsHeld, NEW p \in Procs, Closes(p)
  PROVE  EntriesRight'
<1>1. PICK c \in Cells : c \in used /\ fd[p].pipe = c /\ (Frees(p, c) \/ Wakes(p, c))
  BY CloseCases
<1>2. pipeIds' = pipeIds
  BY ClosesFacts
<1>3. CASE Frees(p, c)
  <2>1. \A d \in Cells : cell'[d].id = cell[d].id
    BY <1>3, ShutFacts DEF Frees, AsIn
  <2> QED BY <1>1, <1>2, <1>3, <2>1, EntryRemoved DEF Frees
<1>4. CASE Wakes(p, c)
  <2>1. Shut(fd[p], c) \in [Cells -> Record]
    BY ShutFacts
  <2>2. \A d \in Cells : cell'[d].id = Shut(fd[p], c)[d].id
    BY <1>4, <2>1 DEF Wakes, AsIn, Record
  <2>3. \A d \in Cells : cell'[d].id = cell[d].id
    BY <2>2, ShutFacts
  <2> QED BY <1>2, <1>4, <2>3, EntriesKept DEF Wakes, array
<1> QED BY <1>1, <1>3, <1>4

\* A pipe that another process may have is as it was.
SameFor(d, p) ==
  /\ cell'[d].id = cell[d].id
  /\ cell'[d].readOpen = cell[d].readOpen /\ cell'[d].writeOpen = cell[d].writeOpen
  /\ cell[d].waiting # p => cell'[d].waiting = cell[d].waiting

\* What the others see of a close: the cells of the pipes they have, but for the end
\* that is closed, and the waiting process of that pipe.
LEMMA CloseCells ==
  ASSUME TypeOK, Phases, EndsHeld, NEW p \in Procs, Closes(p), NEW c \in Cells,
         c \in used, fd[p].pipe = c, c # NULL, Frees(p, c) \/ Wakes(p, c)
  PROVE  /\ \A d \in Cells : d # c => SameFor(d, p)
         /\ \A d \in used : d # c => d \in used'
         /\ \A d \in used' : d \in used
         /\ cell'[c].id = cell[c].id
         /\ fd[p].readable => cell'[c].writeOpen = cell[c].writeOpen /\ ~cell'[c].readOpen
         /\ ~fd[p].readable => cell'[c].readOpen = cell[c].readOpen /\ ~cell'[c].writeOpen
         /\ (\E q \in Procs : q # p /\ fd[q].pipe = c) => Wakes(p, c) /\ used' = used
         /\ Wakes(p, c) => ready' = Woken(c) /\ used' = used
         /\ Frees(p, c) => ready' = ready /\ c \notin used'
<1>1. Shut(fd[p], c) \in [Cells -> Record]
  BY ShutFacts
<1>2. (\E q \in Procs : q # p /\ fd[q].pipe = c) => Wakes(p, c)
  BY OtherHasOtherEnd DEF Frees
<1>3. CASE Frees(p, c)
  <2>1. /\ \A d \in Cells : d # c => SameFor(d, p)
        /\ cell'[c].id = cell[c].id
        /\ fd[p].readable => cell'[c].writeOpen = cell[c].writeOpen /\ ~cell'[c].readOpen
        /\ ~fd[p].readable => cell'[c].readOpen = cell[c].readOpen /\ ~cell'[c].writeOpen
    BY <1>3, ShutFacts DEF Frees, AsIn, SameFor
  <2> QED BY <1>2, <1>3, <2>1 DEF Frees, Wakes
<1>4. CASE Wakes(p, c)
  <2> DEFINE m == [Shut(fd[p], c) EXCEPT ![c].waiting = NULL]
  <2>m. \A d \in Cells : /\ d # c => m[d] = Shut(fd[p], c)[d]
                         /\ m[c].id = Shut(fd[p], c)[c].id
                         /\ m[c].readOpen = Shut(fd[p], c)[c].readOpen
                         /\ m[c].writeOpen = Shut(fd[p], c)[c].writeOpen
    BY <1>1 DEF Record
  <2>a. AsIn(m, p)
    BY <1>4 DEF Wakes
  <2> HIDE DEF m
  <2>1. /\ \A d \in Cells : d # c => SameFor(d, p)
        /\ cell'[c].id = Shut(fd[p], c)[c].id
        /\ cell'[c].readOpen = Shut(fd[p], c)[c].readOpen
        /\ cell'[c].writeOpen = Shut(fd[p], c)[c].writeOpen
    BY <2>m, <2>a, ShutFacts DEF AsIn, SameFor
  <2>2. used' = used /\ ready' = Woken(c) /\ ~Frees(p, c)
    BY <1>4 DEF Wakes, Frees
  <2> QED BY <1>2, <2>1, <2>2, ShutFacts
<1> QED BY <1>3, <1>4

\* The ends of the others are open and theirs after a close.
LEMMA CloseEnds ==
  ASSUME TypeOK, Phases, EntriesRight, EndsHeld, NEW p \in Procs, Closes(p)
  PROVE  EndsHeld'
<1>1. PICK c \in Cells : c \in used /\ fd[p].pipe = c /\ c # NULL /\ (Frees(p, c) \/ Wakes(p, c))
  BY CloseCases
<1>2. /\ fd'[p] = NoFd /\ pc'[p] \in {"start", "end"}
      /\ \A q \in Procs : q # p => fd'[q] = fd[q] /\ pc'[q] = pc[q]
  BY ClosesFacts
<1>3. NoFd.pipe = NULL
  BY DEF NoFd
<1> SUFFICES ASSUME NEW q \in Procs
             PROVE  /\ pc'[q] \in Inside => fd'[q].pipe # NULL
                    /\ fd'[q].pipe # NULL => HasEnd(q, fd[q].pipe)'
  BY DEF EndsHeld, EndHeld
<1>4. CASE q = p
  BY <1>2, <1>3, <1>4
<1>5. CASE q # p /\ fd[q].pipe # NULL
  <2> DEFINE d == fd[q].pipe
  <2>1. HasEnd(q, d) /\ d \in used /\ d \in Cells
    <3>1. d \in used
      BY <1>5 DEF EndsHeld, EndHeld, HasEnd
    <3> QED BY <1>5, <3>1, Facts DEF EndsHeld, EndHeld
  <2>2. \A r \in Procs : fd'[r].pipe = d /\ fd'[r].readable = fd'[q].readable => r = q
    <3>1. d # NULL
      BY <1>5
    <3> HIDE DEF d
    <3>2. ASSUME NEW r \in Procs, fd'[r].pipe = d, fd'[r].readable = fd'[q].readable
          PROVE  r = q
      <4>1. r # p
        BY <1>2, <1>3, <3>1, <3>2
      <4> QED BY <1>2, <1>5, <2>1, <3>2, <4>1 DEF HasEnd
    <3> QED BY <3>2
  <2>3. CASE d # c
    <3>1. d \in used' /\ SameFor(d, p)
      BY <1>1, <2>1, <2>3, CloseCells
    <3> QED BY <1>2, <1>5, <2>1, <2>2, <3>1 DEF HasEnd, SameFor
  <2>4. CASE d = c
    <3>1. /\ fd[q].readable = ~fd[p].readable /\ fd[q].writable = fd[p].readable
      BY <1>1, <1>5, <2>4, OtherHasOtherEnd
    <3>2. used' = used
      BY <1>1, <1>5, <2>4, CloseCells
    <3>3. /\ fd[p].readable => cell'[c].writeOpen = cell[c].writeOpen
          /\ ~fd[p].readable => cell'[c].readOpen = cell[c].readOpen
      BY <1>1, CloseCells
    <3> QED BY <1>2, <1>5, <2>1, <2>2, <2>4, <3>1, <3>2, <3>3 DEF HasEnd
  <2> QED BY <1>2, <1>5, <2>3, <2>4
<1>6. CASE q # p /\ fd[q].pipe = NULL
  BY <1>2, <1>6 DEF EndsHeld, EndHeld
<1> QED BY <1>4, <1>5, <1>6

\* What a close leaves open somebody has.
LEMMA CloseOpen ==
  ASSUME TypeOK, Phases, EndsHeld, NEW p \in Procs, Closes(p),
         \A d \in used : OpenHeld(d)
  PROVE  \A d \in used' : OpenHeld(d)'
<1>1. PICK c \in Cells : c \in used /\ fd[p].pipe = c /\ c # NULL /\ (Frees(p, c) \/ Wakes(p, c))
  BY CloseCases
<1>2. /\ fd'[p] = NoFd
      /\ \A q \in Procs : q # p => fd'[q] = fd[q]
      /\ seen' = {} => seen = {}
  BY ClosesFacts
<1>3. NoFd.pipe = NULL /\ NULL \notin Cells
  BY Facts DEF NoFd
<1> SUFFICES ASSUME NEW d \in used' PROVE OpenHeld(d)'
  OBVIOUS
<1>4. d \in used /\ d \in Cells
  BY <1>1, CloseCells, Facts
<1>5. CASE d # c
  <2>1. /\ cell'[d].id = cell[d].id
        /\ cell'[d].readOpen = cell[d].readOpen /\ cell'[d].writeOpen = cell[d].writeOpen
    BY <1>1, <1>4, <1>5, CloseCells DEF SameFor
  <2>2. \A q \in Procs : fd[q].pipe = d => q # p /\ fd'[q] = fd[q]
    BY <1>1, <1>2, <1>5
  <2>3. \A q \in Procs : fd'[q].pipe = d => q # p /\ fd'[q] = fd[q]
    BY <1>2, <1>3, <1>4
  <2>4. OpenHeld(d)
    BY <1>4
  <2>5. /\ seen = {} \/ cell[d].id = NAMED => \E q \in Procs : fd[q].pipe = d
        /\ \A q \in Procs : fd[q].pipe = d =>
             /\ cell[d].readOpen => \E r \in Procs : fd[r].pipe = d /\ fd[r].readable
             /\ cell[d].writeOpen => \E r \in Procs : fd[r].pipe = d /\ fd[r].writable
    BY <2>4 DEF OpenHeld
  <2>6. /\ seen' = {} \/ cell'[d].id = NAMED => \E q \in Procs : fd'[q].pipe = d
        /\ \A q \in Procs : fd'[q].pipe = d =>
             /\ cell'[d].readOpen => \E r \in Procs : fd'[r].pipe = d /\ fd'[r].readable
             /\ cell'[d].writeOpen => \E r \in Procs : fd'[r].pipe = d /\ fd'[r].writable
    <3>1. seen' = {} \/ cell'[d].id = NAMED => \E q \in Procs : fd'[q].pipe = d
      BY <1>2, <2>1, <2>2, <2>5
    <3>2. ASSUME NEW q \in Procs, fd'[q].pipe = d
          PROVE  /\ cell'[d].readOpen => \E r \in Procs : fd'[r].pipe = d /\ fd'[r].readable
                 /\ cell'[d].writeOpen => \E r \in Procs : fd'[r].pipe = d /\ fd'[r].writable
      <4>1. fd[q].pipe = d
        BY <2>3, <3>2
      <4> QED BY <2>1, <2>2, <2>5, <4>1
    <3> QED BY <3>1, <3>2
  <2> QED BY <2>6 DEF OpenHeld
<1>6. CASE d = c
  <2>1. Wakes(p, c) /\ ~OtherClosed(fd[p])
    BY <1>1, <1>6, CloseCells DEF Wakes
  <2>2. /\ fd[p].readable => cell'[c].writeOpen = cell[c].writeOpen /\ ~cell'[c].readOpen
        /\ ~fd[p].readable => cell'[c].readOpen = cell[c].readOpen /\ ~cell'[c].writeOpen
    BY <1>1, CloseCells
  <2>3. ~(fd[p].readable /\ fd[p].writable)
    BY DEF Phases
  <2>4. OpenHeld(c)
    BY <1>1
  <2>5. CASE fd[p].readable
    <3>1. cell[c].writeOpen
      BY <1>1, <2>1, <2>5 DEF OtherClosed
    <3>2. PICK q \in Procs : fd[q].pipe = c /\ fd[q].writable
      BY <1>1, <2>4, <3>1 DEF OpenHeld
    <3>3. q # p /\ fd'[q] = fd[q]
      BY <1>2, <2>3, <2>5, <3>2
    <3> QED BY <1>6, <2>2, <2>5, <3>2, <3>3 DEF OpenHeld
  <2>6. CASE ~fd[p].readable
    <3>1. cell[c].readOpen
      BY <1>1, <2>1, <2>6 DEF OtherClosed
    <3>2. PICK q \in Procs : fd[q].pipe = c /\ fd[q].readable
      BY <1>1, <2>4, <3>1 DEF OpenHeld
    <3>3. q # p /\ fd'[q] = fd[q]
      BY <1>2, <2>6, <3>2
    <3> QED BY <1>6, <2>2, <2>6, <3>2, <3>3 DEF OpenHeld
  <2> QED BY <2>5, <2>6
<1> QED BY <1>5, <1>6

\* A close wakes the one that sleeps on the pipe, and no other pipe is touched.
LEMMA CloseSleepers ==
  ASSUME TypeOK, Phases, EndsHeld, SleepersNamed, NEW p \in Procs, Closes(p)
  PROVE  SleepersNamed'
<1>1. PICK c \in Cells : c \in used /\ fd[p].pipe = c /\ c # NULL /\ (Frees(p, c) \/ Wakes(p, c))
  BY CloseCases
<1> SUFFICES ASSUME NEW q \in Procs, ~ready'[q]
             PROVE  cell'[fd'[q].pipe].waiting = q /\ cell'[fd'[q].pipe].writeOpen
  BY DEF SleepersNamed
<1>2. ready' = Woken(c) \/ ready' = ready
  BY <1>1, CloseCells
<1>3. ~ready[q]
  BY <1>2, WokenFacts
<1>4. q # p /\ fd'[q] = fd[q] /\ pc[q] \in {"asleep", "store"}
  BY <1>3, ClosesFacts DEF Phases
<1>5. cell[fd[q].pipe].waiting = q /\ cell[fd[q].pipe].writeOpen
  BY <1>3 DEF SleepersNamed
<1>6. fd[q].pipe \in Cells
  <2>1. fd[q].pipe \in used
    BY <1>4 DEF EndsHeld, EndHeld, HasEnd
  <2> QED BY <2>1, Facts
<1>7. fd[q].pipe # c
  <2> SUFFICES ASSUME fd[q].pipe = c PROVE FALSE
    OBVIOUS
  <2>1. ready' = Woken(c)
    BY <1>1, <1>4, CloseCells
  <2> QED BY <1>5, <2>1, WokenFacts
<1>8. SameFor(fd[q].pipe, p)
  BY <1>1, <1>6, <1>7, CloseCells
<1> QED BY <1>4, <1>5, <1>8 DEF SameFor

\* closeFdPipe keeps the invariant.
LEMMA CloseKeeps ==
  ASSUME Core, NEW p \in Procs, Closes(p)
  PROVE  Core'
<1>1. TypeOK /\ Phases
  BY DEF Core
<1>2. seen \subseteq seen'
  BY <1>1, ClosesFacts
<1>3. TypeOK' /\ Phases'
  BY <1>1, CloseBase
<1>4. Named' => (EntriesRight /\ EndsHeld)'
  BY <1>1, <1>2, ClassesShrink, CloseEntries, CloseEnds DEF Core
<1>5. Held' => ((\A d \in used : OpenHeld(d)) /\ SleepersNamed)'
  BY <1>1, <1>2, ClassesShrink, CloseOpen, CloseSleepers DEF Core
<1> QED BY <1>3, <1>4, <1>5 DEF Core
-----------------------------------------------------------------------------
(* What a step leaves to those it does not touch                           *)

\* A process whose pipe no step takes keeps its end.
LEMMA EndKept ==
  ASSUME EndsHeld, NEW q \in Procs, fd'[q] = fd[q],
         pc'[q] \in Inside => pc[q] \in Inside,
         fd[q].pipe # NULL =>
           /\ fd[q].pipe \in used'
           /\ cell[fd[q].pipe].readOpen => cell'[fd[q].pipe].readOpen
           /\ cell[fd[q].pipe].writeOpen => cell'[fd[q].pipe].writeOpen
           /\ \A r \in Procs : fd'[r].pipe = fd[q].pipe /\ fd'[r].readable = fd[q].readable
                                 => fd'[r] = fd[r]
  PROVE  EndHeld(q)'
<1>1. EndHeld(q)
  BY DEF EndsHeld
<1>2. CASE fd[q].pipe = NULL
  BY <1>1, <1>2 DEF EndHeld
<1>3. CASE fd[q].pipe # NULL
  <2>1. HasEnd(q, fd[q].pipe)
    BY <1>1, <1>3 DEF EndHeld
  <2>2. \A r \in Procs : fd'[r].pipe = fd[q].pipe /\ fd'[r].readable = fd[q].readable => r = q
    BY <1>3, <2>1 DEF HasEnd
  <2>3. HasEnd(q, fd[q].pipe)'
    BY <1>3, <2>1, <2>2 DEF HasEnd
  <2> QED BY <1>1, <1>3, <2>3 DEF EndHeld
<1> QED BY <1>2, <1>3

\* So does a pipe that nobody takes or leaves.
LEMMA OpenKept ==
  ASSUME NEW d, OpenHeld(d), seen' = {} => seen = {},
         cell'[d].id = cell[d].id, cell'[d].readOpen = cell[d].readOpen,
         cell'[d].writeOpen = cell[d].writeOpen,
         \A q \in Procs : fd[q].pipe = d \/ fd'[q].pipe = d => fd'[q] = fd[q]
  PROVE  OpenHeld(d)'
<1>1. seen' = {} \/ cell'[d].id = NAMED => \E q \in Procs : fd'[q].pipe = d
  BY DEF OpenHeld
<1>2. ASSUME NEW q \in Procs, fd'[q].pipe = d
      PROVE  /\ cell'[d].readOpen => \E r \in Procs : fd'[r].pipe = d /\ fd'[r].readable
             /\ cell'[d].writeOpen => \E r \in Procs : fd'[r].pipe = d /\ fd'[r].writable
  <2>1. fd[q].pipe = d
    BY <1>2
  <2>2. /\ cell[d].readOpen => \E r \in Procs : fd[r].pipe = d /\ fd[r].readable
        /\ cell[d].writeOpen => \E r \in Procs : fd[r].pipe = d /\ fd[r].writable
    BY <2>1 DEF OpenHeld
  <2> QED BY <2>2
<1> QED BY <1>1, <1>2 DEF OpenHeld

\* Nobody falls asleep, and nobody touches the pipe of a sleeper.
LEMMA SleepersKept ==
  ASSUME SleepersNamed, AllStayReady,
         \A q \in Procs : ~ready'[q] =>
           /\ fd'[q] = fd[q]
           /\ cell'[fd[q].pipe].waiting = cell[fd[q].pipe].waiting
           /\ cell[fd[q].pipe].writeOpen => cell'[fd[q].pipe].writeOpen
  PROVE  SleepersNamed'
BY DEF SleepersNamed, AllStayReady

\* A sleeper has a pipe in a calm table.
LEMMA SleeperHasPipe ==
  ASSUME TypeOK, Phases, EndsHeld, NEW q \in Procs, ~ready[q]
  PROVE  /\ fd[q].pipe \in used /\ fd[q].pipe \in Cells /\ fd[q].readable
         /\ fd[q].pipe # NULL /\ HasEnd(q, fd[q].pipe)
         /\ pc[q] \in {"asleep", "store"}
<1>1. pc[q] \in {"asleep", "store"} /\ fd[q].readable
  BY DEF Phases
<1>2. fd[q].pipe # NULL /\ HasEnd(q, fd[q].pipe)
  BY <1>1 DEF EndsHeld, EndHeld
<1>3. fd[q].pipe \in used
  BY <1>2 DEF HasEnd
<1> QED BY <1>1, <1>2, <1>3, Facts

\* The phase of one process, and of those a step leaves where they are.
Phase(p) ==
  /\ prog[p] = "none" => pc[p] = "start"
  /\ pc[p] \in {"start", "end"} => fd[p] = NoFd
  /\ pc[p] \in {"asleep", "again", "block", "store"} => fd[p].readable
  /\ ~ready[p] => pc[p] \in {"asleep", "store"}
  /\ ~(fd[p].readable /\ fd[p].writable)

\* A process that no step moves keeps its phase.
LEMMA PhaseKept ==
  ASSUME Phases, NEW q \in Procs, prog'[q] = prog[q], pc'[q] = pc[q], fd'[q] = fd[q],
         ready[q] => ready'[q]
  PROVE  Phase(q)'
BY DEF Phases, Phase
-----------------------------------------------------------------------------
(* A new pipe                                                              *)

Makes(c, new) ==
  /\ c \in Cells \ used /\ Len(pipes) < MAX_PIPES
  /\ pipes' = Append(pipes, c) /\ used' = used \union {c}
  /\ cell' = [cell EXCEPT ![c] = new]

\* The array and the memory with a new pipe.
LEMMA MakesFacts ==
  ASSUME TypeOK, NEW c, NEW new \in Record, Makes(c, new)
  PROVE  /\ pipes' \in Seq(Cells) /\ Len(pipes') <= MAX_PIPES
         /\ cell' \in [Cells -> Record] /\ used' \subseteq Cells
         /\ \A d \in Cells : d # c => cell'[d] = cell[d]
         /\ cell'[c] = new
         /\ c \in Cells /\ c \notin used /\ used' = used \union {c} /\ c # NULL
         /\ Indices' = Indices \union {Len(pipes) + 1} /\ Len(pipes) + 1 \notin Indices
         /\ \A i \in Indices : pipes'[i] = pipes[i]
         /\ pipes'[Len(pipes) + 1] = c
<1>1. /\ pipes \in Seq(Cells) /\ Len(pipes) \in Nat /\ Indices = 1..Len(pipes)
      /\ cell \in [Cells -> Record] /\ used \subseteq Cells /\ NULL \notin Cells
      /\ MAX_PIPES \in Nat
  BY Facts
<1>3. /\ cell' \in [Cells -> Record]
      /\ \A d \in Cells : d # c => cell'[d] = cell[d]
      /\ cell'[c] = new
  BY <1>1 DEF Makes
<1>4. c \in Cells /\ c \notin used /\ used' = used \union {c} /\ c # NULL
  BY <1>1 DEF Makes
<1>5. pipes' = Append(pipes, c) /\ Len(pipes) < MAX_PIPES
  BY DEF Makes
<1>6. pipes' \in Seq(Cells) /\ Len(pipes') = Len(pipes) + 1
  BY <1>1, <1>4, <1>5
<1>7. /\ Indices' = Indices \union {Len(pipes) + 1} /\ Len(pipes) + 1 \notin Indices
      /\ \A i \in Indices : pipes'[i] = pipes[i]
      /\ pipes'[Len(pipes) + 1] = c
  <2>1. Indices' = 1..(Len(pipes) + 1)
    BY <1>6 DEF Indices
  <2> QED BY <1>1, <1>4, <1>5, <2>1
<1> QED BY <1>1, <1>3, <1>4, <1>5, <1>6, <1>7

\* A new pipe whose number nobody has keeps the array right.
LEMMA MakesEntries ==
  ASSUME TypeOK, EntriesRight, NEW c, NEW new \in Record, Makes(c, new),
         \A i \in Indices : cell[pipes[i]].id # new.id,
         \A i \in Indices : \/ cell[pipes[i]].id < MAX_PIPES + pipeIds'
                            \/ cell[pipes[i]].id = MAX_PIPES + PIPE_IDS - 1,
         new.id < MAX_PIPES + pipeIds' \/ new.id = MAX_PIPES + PIPE_IDS - 1
  PROVE  EntriesRight'
<1> DEFINE k == Len(pipes) + 1
<1>1. /\ Indices' = Indices \union {k} /\ k \notin Indices
      /\ \A i \in Indices : pipes'[i] = pipes[i] /\ pipes[i] \in used /\ pipes[i] \in Cells
      /\ pipes'[k] = c /\ c \notin used /\ used' = used \union {c}
      /\ \A d \in Cells : d # c => cell'[d] = cell[d]
      /\ cell'[c] = new
  <2>1. \A i \in Indices : pipes[i] \in used /\ pipes[i] \in Cells
    BY Facts DEF EntriesRight
  <2>2. /\ Indices' = Indices \union {k} /\ k \notin Indices
        /\ \A i \in Indices : pipes'[i] = pipes[i]
        /\ pipes'[k] = c /\ c \notin used /\ used' = used \union {c}
        /\ \A d \in Cells : d # c => cell'[d] = cell[d]
        /\ cell'[c] = new
    BY MakesFacts
  <2> QED BY <2>1, <2>2
<1> HIDE DEF k
<1>2. \A i \in Indices : cell'[pipes'[i]].id = cell[pipes[i]].id
  BY <1>1
<1>3. cell'[pipes'[k]].id = new.id
  BY <1>1
<1>4. \A i \in Indices' : pipes'[i] \in used'
  BY <1>1
<1>5. \A d \in used' : \E i \in Indices' : pipes'[i] = d
  BY <1>1 DEF EntriesRight
<1>6. \A i, j \in Indices' : cell'[pipes'[i]].id = cell'[pipes'[j]].id => i = j
  BY <1>1, <1>2, <1>3 DEF EntriesRight
<1>7. \A i \in Indices' : \/ cell'[pipes'[i]].id < MAX_PIPES + pipeIds'
                          \/ cell'[pipes'[i]].id = MAX_PIPES + PIPE_IDS - 1
  BY <1>1, <1>2, <1>3
<1> QED BY <1>4, <1>5, <1>6, <1>7 DEF EntriesRight

\* What createPipe puts there.
NewPipe == [id |-> NextId, readOpen |-> TRUE, writeOpen |-> TRUE, unread |-> FALSE,
            waiting |-> NULL]

\* createPipe takes the next number, which no entry has unless the counter came round.
LEMMA CreateMakes ==
  ASSUME TypeOK, NEW c \in Cells, createPipe(c)
  PROVE  /\ NewPipe \in Record /\ Makes(c, NewPipe)
         /\ NewPipe.id = NextId /\ NextId # NAMED
         /\ pipeIds' \in 0..(PIPE_IDS - 1)
<1>1. pipeIds \in 0..(PIPE_IDS - 1) /\ PIPE_IDS \in Nat \ {0} /\ MAX_PIPES \in Nat /\ MAX_PIPES > 1
  BY Facts
<1>2. NextId \in MAX_PIPES .. (MAX_PIPES + PIPE_IDS - 1) /\ NextId # NAMED
  BY <1>1 DEF NextId, NAMED
<1>3. pipeIds' \in 0..(PIPE_IDS - 1)
  <2>1. pipeIds' = (pipeIds + 1) % PIPE_IDS
    BY DEF createPipe, Incremented
  <2> QED BY <1>1, <2>1
<1>4. NewPipe \in Record /\ NewPipe.id = NextId
  BY <1>2 DEF NewPipe, Record
<1>5. Makes(c, NewPipe)
  BY DEF createPipe, Makes, NewPipe
<1> QED BY <1>2, <1>3, <1>4, <1>5

\* createPipe keeps the array right while the counter does not come round on a pipe.
LEMMA CreateEntries ==
  ASSUME TypeOK, EntriesRight, NEW c \in Cells, createPipe(c), Wrapping = {}
  PROVE  EntriesRight'
<1>1. pipeIds \in 0..(PIPE_IDS - 1) /\ PIPE_IDS \in Nat \ {0} /\ MAX_PIPES \in Nat /\ MAX_PIPES > 1
  BY Facts
<1>2. pipeIds' = (pipeIds + 1) % PIPE_IDS
  BY DEF createPipe, Incremented
<1>3. \A i \in Indices : cell[pipes[i]].id \in Nat
  <2>1. \A i \in Indices : cell[pipes[i]] \in Record
    BY Facts
  <2> QED BY <1>1, <2>1 DEF Record, NAMED
<1>4. CASE pipeIds = PIPE_IDS - 1
  <2>1. Indices = {}
    BY <1>4, Facts DEF Wrapping
  <2>2. NextId = MAX_PIPES + PIPE_IDS - 1
    BY <1>1, <1>4 DEF NextId
  <2> QED BY <2>1, <2>2, CreateMakes, MakesEntries
<1>5. CASE pipeIds # PIPE_IDS - 1
  <2>1. pipeIds' = pipeIds + 1
    <3>1. pipeIds + 1 \in 0..(2*PIPE_IDS - 1) /\ pipeIds + 1 < PIPE_IDS
      BY <1>1, <1>5
    <3>2. (pipeIds + 1) % PIPE_IDS = pipeIds + 1
      BY <1>1, <3>1, ModOnce
    <3> QED BY <1>2, <3>2
  <2>2. \A i \in Indices : cell[pipes[i]].id # NextId
    BY <1>1, <1>3, <1>5 DEF EntriesRight, NextId
  <2>3. \A i \in Indices : \/ cell[pipes[i]].id < MAX_PIPES + pipeIds'
                           \/ cell[pipes[i]].id = MAX_PIPES + PIPE_IDS - 1
    BY <1>1, <1>3, <2>1 DEF EntriesRight
  <2>4. NextId < MAX_PIPES + pipeIds'
    BY <1>1, <2>1 DEF NextId
  <2> QED BY <2>2, <2>3, <2>4, CreateMakes, MakesEntries
<1> QED BY <1>4, <1>5

\* Nobody has the new pipe yet, nor sleeps on it.
LEMMA NobodyHasNew ==
  ASSUME TypeOK, EndsHeld, NEW c, c \notin used, c # NULL
  PROVE  \A q \in Procs : fd[q].pipe # c
BY DEF EndsHeld, EndHeld, HasEnd
-----------------------------------------------------------------------------
(* The shell                                                               *)

\* Pipes made for nobody, or for two that hold nothing.
LEMMA CommandKeeps ==
  ASSUME Core, CommandNotFound
  PROVE  Core'
<1>1. PICK c \in Cells : createPipe(c)
  BY DEF CommandNotFound
<1>2. TypeOK /\ Phases /\ UNCHANGED <<prog, pc, ready, fd>> /\ Note({"unstarted"} \union Wrapping)
  BY DEF Core, CommandNotFound
<1>3. /\ seen' \subseteq Disturbances /\ count' \in 0..MaxDisturbances /\ seen \subseteq seen'
      /\ {"unstarted"} \union Wrapping \subseteq seen'
  <2>1. {"unstarted"} \union Wrapping \in SUBSET Disturbances
    BY DEF Wrapping, Disturbances
  <2> QED BY <1>2, <2>1, Noted
<1>4. /\ NewPipe \in Record /\ Makes(c, NewPipe) /\ NewPipe.id = NextId /\ NextId # NAMED
      /\ pipeIds' \in 0..(PIPE_IDS - 1)
  BY <1>1, <1>2, CreateMakes
<1>5. /\ pipes' \in Seq(Cells) /\ Len(pipes') <= MAX_PIPES
      /\ cell' \in [Cells -> Record] /\ used' \subseteq Cells
      /\ \A d \in Cells : d # c => cell'[d] = cell[d]
      /\ cell'[c] = NewPipe
      /\ c \in Cells /\ c \notin used /\ used' = used \union {c} /\ c # NULL
  BY <1>2, <1>4, MakesFacts
<1>6. TypeOK'
  BY <1>2, <1>3, <1>4, <1>5, Facts DEF TypeOK, Record, FdPipe
<1>7. Phases'
  BY <1>2 DEF Phases
<1>8. ASSUME EntriesRight, EndsHeld PROVE EndsHeld'
  <2> SUFFICES ASSUME NEW q \in Procs PROVE EndHeld(q)'
    BY DEF EndsHeld
  <2>1. fd[q].pipe # NULL => fd[q].pipe \in used
    BY <1>8 DEF EndsHeld, EndHeld, HasEnd
  <2>2. fd[q].pipe # NULL => fd[q].pipe \in used' /\ cell'[fd[q].pipe] = cell[fd[q].pipe]
    BY <1>2, <1>5, <2>1, Facts
  <2> QED BY <1>2, <1>8, <2>2, EndKept
<1>9. ASSUME Wrapping = {}, EntriesRight PROVE EntriesRight'
  BY <1>1, <1>2, <1>9, CreateEntries
<1>10. ASSUME EndsHeld, \A d \in used : OpenHeld(d) PROVE \A d \in used' : OpenHeld(d)'
  <2> SUFFICES ASSUME NEW d \in used' PROVE OpenHeld(d)'
    OBVIOUS
  <2>1. CASE d = c
    <3>1. \A q \in Procs : fd'[q].pipe # c
      BY <1>2, <1>5, <1>10, NobodyHasNew
    <3>2. seen' # {} /\ cell'[c].id # NAMED
      BY <1>3, <1>4, <1>5
    <3> QED BY <2>1, <3>1, <3>2 DEF OpenHeld
  <2>2. CASE d \in used
    <3>1. d # c /\ d \in Cells /\ cell'[d] = cell[d]
      BY <1>2, <1>5, <2>2, Facts
    <3> QED BY <1>2, <1>3, <1>10, <2>2, <3>1, OpenKept
  <2> QED BY <1>5, <2>1, <2>2
<1>11. ASSUME EndsHeld, SleepersNamed PROVE SleepersNamed'
  <2>1. \A q \in Procs : ~ready'[q] => cell'[fd[q].pipe] = cell[fd[q].pipe]
    <3> SUFFICES ASSUME NEW q \in Procs, ~ready[q] PROVE cell'[fd[q].pipe] = cell[fd[q].pipe]
      BY <1>2
    <3> QED BY <1>2, <1>5, <1>11, SleeperHasPipe
  <2> QED BY <1>2, <1>11, <2>1, SleepersKept DEF AllStayReady
<1>12. (Named' => Named /\ Wrapping = {}) /\ (Held' => Held /\ Named)
  BY <1>3, ClassesShrink DEF Named, Wrapping
<1> QED BY <1>6, <1>7, <1>8, <1>9, <1>10, <1>11, <1>12 DEF Core

\* A pipe too many is past what is modelled.
LEMMA ManyKeeps ==
  ASSUME Core, TooManyPipes
  PROVE  Core'
<1>1. TypeOK /\ Phases /\ UNCHANGED <<array, cell, prog, pc, ready, fd>> /\ Note({"wild"})
  BY DEF Core, TooManyPipes
<1>2. /\ seen' \subseteq Disturbances /\ count' \in 0..MaxDisturbances /\ "wild" \in seen'
  <2>1. {"wild"} \in SUBSET Disturbances
    BY DEF Disturbances
  <2> QED BY <1>1, <2>1, Noted
<1>3. TypeOK'
  BY <1>1, <1>2 DEF TypeOK, array
<1>4. Phases'
  BY <1>1 DEF Phases
<1> QED BY <1>2, <1>3, <1>4 DEF Core, Named, Held

\* The two ends of a new pipe for two processes that had none.
LEMMA PairKeeps ==
  ASSUME Core, NEW w \in Procs, NEW r \in Procs, managePipe(w, r)
  PROVE  Core'
<1>1. PICK c \in Cells :
        /\ createPipe(c)
        /\ fd' = [fd EXCEPT ![r] = [pipe |-> c, readable |-> TRUE, writable |-> FALSE],
                            ![w] = [pipe |-> c, readable |-> FALSE, writable |-> TRUE]]
  BY DEF managePipe
<1> DEFINE R == [pipe |-> c, readable |-> TRUE, writable |-> FALSE]
           W == [pipe |-> c, readable |-> FALSE, writable |-> TRUE]
<1>2. /\ TypeOK /\ Phases /\ w # r /\ prog[w] = "none" /\ prog[r] = "none"
      /\ prog' = [prog EXCEPT ![w] = "left", ![r] = "right"]
      /\ pc' = [pc EXCEPT ![w] = "open", ![r] = "open"]
      /\ ready' = [ready EXCEPT ![w] = TRUE, ![r] = TRUE]
      /\ Note(Wrapping)
  BY DEF Core, managePipe, Absent
<1>3. /\ seen' \subseteq Disturbances /\ count' \in 0..MaxDisturbances /\ seen \subseteq seen'
      /\ Wrapping \subseteq seen'
  <2>1. Wrapping \in SUBSET Disturbances
    BY DEF Wrapping, Disturbances
  <2> QED BY <1>2, <2>1, Noted
<1>4. /\ NewPipe \in Record /\ Makes(c, NewPipe) /\ NewPipe.id = NextId /\ NextId # NAMED
      /\ pipeIds' \in 0..(PIPE_IDS - 1)
  BY <1>1, <1>2, CreateMakes
<1>5. /\ pipes' \in Seq(Cells) /\ Len(pipes') <= MAX_PIPES
      /\ cell' \in [Cells -> Record] /\ used' \subseteq Cells
      /\ \A d \in Cells : d # c => cell'[d] = cell[d]
      /\ cell'[c] = NewPipe
      /\ c \in Cells /\ c \notin used /\ used' = used \union {c} /\ c # NULL
  BY <1>2, <1>4, MakesFacts
<1>6. R \in FdPipe /\ W \in FdPipe
  BY DEF FdPipe
<1>7. /\ fd \in [Procs -> FdPipe]
      /\ prog \in [Procs -> {"left", "right", "p2", "p3", "none"}]
      /\ pc \in [Procs -> PcSet]
      /\ ready \in [Procs -> BOOLEAN]
  BY <1>2, Facts
<1>8. fd' \in [Procs -> FdPipe]
  <2>1. fd' = [fd EXCEPT ![r] = R, ![w] = W]
    BY <1>1
  <2> HIDE DEF R, W
  <2> QED BY <1>6, <1>7, <2>1
<1>9. /\ fd'[r] = R /\ fd'[w] = W
      /\ \A q \in Procs : q # r /\ q # w => fd'[q] = fd[q] /\ pc'[q] = pc[q]
                                            /\ prog'[q] = prog[q] /\ ready'[q] = ready[q]
      /\ \A q \in {r, w} : pc'[q] = "open" /\ prog'[q] # "none" /\ ready'[q]
  <2>1. /\ fd'[r] = R /\ fd'[w] = W
        /\ \A q \in Procs : q # r /\ q # w => fd'[q] = fd[q]
    BY <1>1, <1>2, <1>7
  <2>2. \A q \in Procs : q # r /\ q # w => pc'[q] = pc[q] /\ prog'[q] = prog[q]
                                           /\ ready'[q] = ready[q]
    BY <1>2, <1>7
  <2>3. \A q \in {r, w} : pc'[q] = "open" /\ prog'[q] # "none" /\ ready'[q]
    BY <1>2, <1>7
  <2> QED BY <2>1, <2>2, <2>3
<1>10. TypeOK'
  <2>1. /\ prog' \in [Procs -> {"left", "right", "p2", "p3", "none"}]
        /\ pc' \in [Procs -> PcSet]
        /\ ready' \in [Procs -> BOOLEAN]
    BY <1>2, <1>7
  <2> QED BY <1>3, <1>4, <1>5, <1>8, <2>1 DEF TypeOK, Record, FdPipe
<1>11. Phases'
  <2>1. ASSUME NEW q \in Procs PROVE Phase(q)'
    <3>1. CASE q \in {r, w}
      BY <1>9, <3>1 DEF Phase
    <3>2. CASE q \notin {r, w}
      BY <1>2, <1>9, <3>2, PhaseKept
    <3> QED BY <3>1, <3>2
  <2> QED BY <2>1 DEF Phases, Phase
<1>12. fd[w].pipe = NULL /\ fd[r].pipe = NULL
  BY <1>2 DEF Phases, NoFd
<1>13. R.pipe = c /\ W.pipe = c /\ R.readable /\ ~W.readable /\ W.writable /\ ~R.writable
  OBVIOUS
<1>14. NewPipe.readOpen /\ NewPipe.writeOpen
  BY DEF NewPipe
<1> HIDE DEF R, W
<1>15. ASSUME EndsHeld PROVE EndsHeld'
  <2> SUFFICES ASSUME NEW q \in Procs PROVE EndHeld(q)'
    BY DEF EndsHeld
  <2>1. \A p \in Procs : fd[p].pipe # c
    BY <1>2, <1>5, <1>15, NobodyHasNew
  <2>2. CASE q \in {r, w}
    <3>1. \A p \in Procs : fd'[p].pipe = c /\ fd'[p].readable = fd'[q].readable => p = q
      BY <1>9, <1>13, <2>1, <2>2
    <3>2. fd'[q].pipe = c /\ HasEnd(q, c)'
      BY <1>5, <1>9, <1>13, <1>14, <2>2, <3>1 DEF HasEnd
    <3> QED BY <1>5, <3>2 DEF EndHeld
  <2>3. CASE q \notin {r, w}
    <3>1. fd[q].pipe # NULL => fd[q].pipe \in used /\ fd[q].pipe \in Cells
      BY <1>2, <1>15, Facts DEF EndsHeld, EndHeld, HasEnd
    <3>2. fd[q].pipe # NULL =>
            /\ fd[q].pipe \in used' /\ cell'[fd[q].pipe] = cell[fd[q].pipe]
            /\ \A p \in Procs : fd'[p].pipe = fd[q].pipe => fd'[p] = fd[p]
      BY <1>5, <1>9, <1>13, <3>1
    <3> QED BY <1>9, <1>15, <2>3, <3>2, EndKept
  <2> QED BY <2>2, <2>3
<1>16. ASSUME Wrapping = {}, EntriesRight PROVE EntriesRight'
  BY <1>1, <1>2, <1>16, CreateEntries
<1>17. ASSUME EndsHeld, \A d \in used : OpenHeld(d) PROVE \A d \in used' : OpenHeld(d)'
  <2> SUFFICES ASSUME NEW d \in used' PROVE OpenHeld(d)'
    OBVIOUS
  <2>1. CASE d = c
    BY <1>9, <1>13, <2>1 DEF OpenHeld
  <2>2. CASE d \in used
    <3>1. d # c /\ d \in Cells /\ d # NULL /\ cell'[d] = cell[d]
      BY <1>2, <1>5, <2>2, Facts
    <3>2. \A q \in Procs : fd[q].pipe = d \/ fd'[q].pipe = d => fd'[q] = fd[q]
      BY <1>9, <1>12, <1>13, <3>1
    <3> QED BY <1>3, <1>17, <2>2, <3>1, <3>2, OpenKept
  <2> QED BY <1>5, <2>1, <2>2
<1>18. ASSUME EndsHeld, SleepersNamed PROVE SleepersNamed'
  <2>1. AllStayReady
    BY <1>9 DEF AllStayReady
  <2>2. ASSUME NEW q \in Procs, ~ready'[q]
        PROVE  fd'[q] = fd[q] /\ cell'[fd[q].pipe] = cell[fd[q].pipe]
    <3>1. q \notin {r, w} /\ ~ready[q]
      BY <1>9, <2>2
    <3> QED BY <1>2, <1>5, <1>9, <1>18, <3>1, SleeperHasPipe
  <2> QED BY <1>18, <2>1, <2>2, SleepersKept
<1>19. (Named' => Named /\ Wrapping = {}) /\ (Held' => Held /\ Named)
  BY <1>3, ClassesShrink DEF Named, Wrapping
<1> QED BY <1>10, <1>11, <1>15, <1>16, <1>17, <1>18, <1>19 DEF Core

\* A process that starts has no pipe.
LEMMA ProcessKeeps ==
  ASSUME Core, NEW p \in Procs, NEW program \in {"p2", "p3"}, createProcess(p, program)
  PROVE  Core'
<1>1. /\ TypeOK /\ Phases /\ prog[p] = "none"
      /\ prog' = [prog EXCEPT ![p] = program]
      /\ pc' = [pc EXCEPT ![p] = "start"] /\ ready' = [ready EXCEPT ![p] = TRUE]
      /\ UNCHANGED <<array, cell, fd, log>>
  BY DEF Core, createProcess, Absent
<1>2. /\ pipes' = pipes /\ pipeIds' = pipeIds /\ used' = used /\ cell' = cell /\ fd' = fd
      /\ seen' = seen /\ count' = count
  BY <1>1 DEF array, log
<1>3. pc[p] = "start" /\ ready[p] /\ fd[p] = NoFd
  BY <1>1 DEF Phases
<1>4. pc' = pc /\ ready' = ready
  BY <1>1, <1>3, Facts
<1>5. TypeOK'
  BY <1>1, <1>2, <1>4 DEF TypeOK
<1>6. Phases'
  <2>1. \A q \in Procs : prog'[q] = "none" => prog[q] = "none"
    BY <1>1, Facts
  <2> SUFFICES ASSUME NEW q \in Procs PROVE Phase(q)'
    BY DEF Phases, Phase
  <2>2. Phase(q) /\ (prog'[q] = "none" => prog[q] = "none")
    BY <1>1, <2>1 DEF Phases, Phase
  <2> QED BY <1>2, <1>4, <2>2 DEF Phase
<1>7. EntriesRight => EntriesRight'
  BY <1>2 DEF EntriesRight, Indices
<1>8. EndsHeld => EndsHeld'
  BY <1>2, <1>4 DEF EndsHeld, EndHeld, HasEnd
<1>9. (\A d \in used : OpenHeld(d)) => \A d \in used' : OpenHeld(d)'
  BY <1>2 DEF OpenHeld
<1>10. SleepersNamed => SleepersNamed'
  BY <1>2, <1>4 DEF SleepersNamed
<1> QED BY <1>2, <1>5, <1>6, <1>7, <1>8, <1>9, <1>10 DEF Core, Named, Held
-----------------------------------------------------------------------------
(* The programs                                                            *)

\* A step that leaves the array and who has what alone, and of memory changes the
\* contents and the waiting process of a pipe.
LEMMA RestKept ==
  ASSUME TypeOK, Phases, UNCHANGED <<array, fd>>, seen \subseteq seen',
         \A d \in Cells : /\ cell'[d].id = cell[d].id
                          /\ cell'[d].readOpen = cell[d].readOpen
                          /\ cell'[d].writeOpen = cell[d].writeOpen,
         \A q \in Procs : pc'[q] \in Inside =>
                          pc[q] \in Inside
  PROVE  /\ EntriesRight => EntriesRight'
         /\ EndsHeld => EndsHeld'
         /\ EndsHeld /\ (\A d \in used : OpenHeld(d)) => \A d \in used' : OpenHeld(d)'
<1>1. EntriesRight => EntriesRight'
  BY EntriesKept
<1>2. used' = used /\ used \subseteq Cells /\ fd' = fd
  BY Facts DEF array
<1>3. ASSUME EndsHeld PROVE EndsHeld'
  <2> SUFFICES ASSUME NEW q \in Procs PROVE EndHeld(q)'
    BY DEF EndsHeld
  <2>1. fd[q].pipe # NULL => fd[q].pipe \in used /\ fd[q].pipe \in Cells
    BY <1>2, <1>3 DEF EndsHeld, EndHeld, HasEnd
  <2> QED BY <1>2, <1>3, <2>1, EndKept
<1>4. ASSUME \A d \in used : OpenHeld(d) PROVE \A d \in used' : OpenHeld(d)'
  <2> SUFFICES ASSUME NEW d \in used PROVE OpenHeld(d)'
    BY <1>2
  <2>1. d \in Cells
    BY <1>2
  <2> QED BY <1>2, <1>4, <2>1, OpenKept
<1> QED BY <1>1, <1>3, <1>4

\* What a call writes into a pipe.
LEMMA ContentsTyped ==
  ASSUME cell \in [Cells -> Record], NEW c, NEW v \in BOOLEAN, NEW q \in Procs \union {NULL},
         cell' = [cell EXCEPT ![c].unread = v, ![c].waiting = q]
  PROVE  cell' \in [Cells -> Record]
<1>1. ASSUME NEW d \in Cells PROVE cell'[d] \in Record
  <2>1. cell[d] \in Record
    OBVIOUS
  <2>2. CASE d # c
    BY <2>2
  <2>3. CASE d = c
    <3>1. cell'[c] = [cell[c] EXCEPT !.unread = v, !.waiting = q]
      BY <2>3
    <3> QED BY <2>1, <2>3, <3>1 DEF Record
  <2> QED BY <2>2, <2>3
<1>2. cell' = [d \in Cells |-> cell'[d]]
  OBVIOUS
<1> QED BY <1>1, <1>2

\* So is what a read that sleeps leaves.
LEMMA WaitingTyped ==
  ASSUME cell \in [Cells -> Record], NEW c, NEW q \in Procs \union {NULL},
         cell' = [cell EXCEPT ![c].waiting = q]
  PROVE  cell' \in [Cells -> Record]
<1>1. ASSUME NEW d \in Cells PROVE cell'[d] \in Record
  <2>1. cell[d] \in Record
    OBVIOUS
  <2>2. CASE d # c
    BY <2>2
  <2>3. CASE d = c
    <3>1. cell'[c] = [cell[c] EXCEPT !.waiting = q]
      BY <2>3
    <3> QED BY <2>1, <2>3, <3>1 DEF Record
  <2> QED BY <2>2, <2>3
<1>2. cell' = [d \in Cells |-> cell'[d]]
  OBVIOUS
<1> QED BY <1>1, <1>2

\* pipeWrite keeps the invariant: it wakes the sleeper, and forgets it.
LEMMA WriteKeeps ==
  ASSUME Core, NEW p \in Procs, pipeWrite(p)
  PROVE  Core'
<1> DEFINE c == fd[p].pipe
<1>1. /\ TypeOK /\ Phases /\ ready[p] /\ pc[p] = "open" /\ fd[p].writable
      /\ pc' = [pc EXCEPT ![p] = After(p)] /\ UNCHANGED <<array, prog, fd>>
      /\ \/ c = NULL /\ Note({"wild"}) /\ UNCHANGED <<cell, ready>>
         \/ /\ c # NULL /\ ready' = Woken(c) /\ UNCHANGED log
            /\ cell' = [cell EXCEPT ![c].unread = TRUE, ![c].waiting = NULL]
  BY DEF Core, pipeWrite
<1>2. /\ After(p) \in {"open", "leave"}
      /\ pc \in [Procs -> PcSet]
  BY <1>1, Facts DEF After
<1>3. /\ pc' \in [Procs -> PcSet]
      /\ pc'[p] \in {"open", "leave"} /\ \A q \in Procs : q # p => pc'[q] = pc[q]
  BY <1>1, <1>2
<1>4. /\ ready' \in [Procs -> BOOLEAN] /\ AllStayReady
      /\ cell' \in [Cells -> Record]
      /\ seen' \subseteq Disturbances /\ count' \in 0..MaxDisturbances /\ seen \subseteq seen'
  <2>1. CASE c = NULL
    <3>1. /\ seen' \subseteq Disturbances /\ count' \in 0..MaxDisturbances /\ seen \subseteq seen'
      <4>1. {"wild"} \in SUBSET Disturbances
        BY DEF Disturbances
      <4> QED BY <1>1, <2>1, <4>1, Noted
    <3> QED BY <1>1, <2>1, <3>1, Facts DEF AllStayReady
  <2>2. CASE c # NULL
    <3>1. ready' \in [Procs -> BOOLEAN] /\ AllStayReady
      BY <1>1, <2>2, WokenTypes DEF AllStayReady
    <3>2. cell' \in [Cells -> Record]
      <4>1. cell \in [Cells -> Record]
        BY <1>1, Facts
      <4> QED BY <1>1, <2>2, <4>1, ContentsTyped
    <3> QED BY <1>1, <2>2, <3>1, <3>2, Facts DEF log
  <2> QED BY <2>1, <2>2
<1>5. TypeOK'
  BY <1>1, <1>3, <1>4 DEF TypeOK, array, Record
<1>6. Phases'
  <2>1. ASSUME NEW q \in Procs PROVE Phase(q)'
    <3>1. CASE q = p
      <4>1. Phase(p) /\ ready'[p] /\ prog[p] # "none"
        BY <1>1, <1>4 DEF Phases, Phase, AllStayReady
      <4> QED BY <1>1, <1>3, <3>1, <4>1 DEF Phase
    <3>2. CASE q # p
      BY <1>1, <1>3, <1>4, <3>2, PhaseKept DEF AllStayReady
    <3> QED BY <3>1, <3>2
  <2> QED BY <2>1 DEF Phases, Phase
<1>7. \A d \in Cells : /\ cell'[d].id = cell[d].id
                       /\ cell'[d].readOpen = cell[d].readOpen
                       /\ cell'[d].writeOpen = cell[d].writeOpen
                       /\ d # c => cell'[d] = cell[d]
  <2>1. cell \in [Cells -> Record]
    BY <1>1, Facts
  <2> QED BY <1>1, <2>1 DEF Record
<1>8. /\ EntriesRight => EntriesRight'
      /\ EndsHeld => EndsHeld'
      /\ EndsHeld /\ (\A d \in used : OpenHeld(d)) => \A d \in used' : OpenHeld(d)'
  <2>1. \A q \in Procs : pc'[q] \in Inside =>
                         pc[q] \in Inside
    BY <1>1, <1>3
  <2>2. UNCHANGED <<array, fd>>
    BY <1>1
  <2> QED BY <1>1, <1>4, <1>7, <2>1, <2>2, RestKept
<1>9. ASSUME EndsHeld, SleepersNamed PROVE SleepersNamed'
  <2>1. c # NULL /\ c \in Cells
    <3>1. c # NULL /\ c \in used
      BY <1>1, <1>9 DEF EndsHeld, EndHeld, HasEnd
    <3> QED BY <1>1, <3>1, Facts
  <2>2. ASSUME NEW q \in Procs, ~ready'[q]
        PROVE  fd'[q] = fd[q] /\ cell'[fd[q].pipe] = cell[fd[q].pipe]
    <3>1. ~ready[q]
      BY <1>4, <2>2 DEF AllStayReady
    <3>2. fd[q].pipe \in Cells /\ cell[fd[q].pipe].waiting = q
      BY <1>1, <1>9, <3>1, SleeperHasPipe DEF SleepersNamed
    <3>3. fd[q].pipe # c
      BY <1>1, <2>1, <2>2, <3>2, WokenFacts
    <3> QED BY <1>1, <1>7, <3>2, <3>3
  <2> QED BY <1>4, <1>9, <2>2, SleepersKept
<1>10. (Named' => Named) /\ (Held' => Held /\ Named)
  BY <1>4, ClassesShrink
<1> QED BY <1>5, <1>6, <1>8, <1>9, <1>10 DEF Core

\* What a step of a read may leave: l is where the process goes on.
Reads(p, l) ==
  /\ ready[p] /\ pc[p] \in {"open", "asleep", "again", "block", "store"} /\ fd[p].readable
  /\ UNCHANGED <<array, prog, fd>>
  /\ seen \subseteq seen' /\ seen' \subseteq Disturbances /\ count' \in 0..MaxDisturbances
  /\ pc' = [pc EXCEPT ![p] = l] /\ l \in Inside
  /\ cell' \in [Cells -> Record]
  /\ \A d \in Cells : /\ cell'[d].id = cell[d].id
                      /\ cell'[d].readOpen = cell[d].readOpen
                      /\ cell'[d].writeOpen = cell[d].writeOpen
                      /\ d # fd[p].pipe => cell'[d] = cell[d]
  /\ ready' \in [Procs -> BOOLEAN]
  /\ \A q \in Procs : q # p => (ready[q] => ready'[q])
  /\ ~ready'[p] => l \in {"asleep", "store"}
  /\ Held' /\ ~ready'[p] /\ fd[p].pipe \in Cells =>
       cell'[fd[p].pipe].waiting = p /\ cell[fd[p].pipe].writeOpen

\* A read keeps the invariant: it sleeps only with a writer there.
LEMMA ReadStep ==
  ASSUME Core, NEW p \in Procs, NEW l, Reads(p, l)
  PROVE  Core'
<1> DEFINE c == fd[p].pipe
<1>1. /\ TypeOK /\ Phases /\ ready[p] /\ fd[p].readable
      /\ pc[p] \in {"open", "asleep", "again", "block", "store"}
      /\ UNCHANGED <<array, prog, fd>>
      /\ seen \subseteq seen' /\ seen' \subseteq Disturbances /\ count' \in 0..MaxDisturbances
      /\ pc' = [pc EXCEPT ![p] = l] /\ l \in Inside
      /\ cell' \in [Cells -> Record] /\ ready' \in [Procs -> BOOLEAN]
      /\ \A q \in Procs : q # p => (ready[q] => ready'[q])
      /\ ~ready'[p] => l \in {"asleep", "store"}
      /\ Held' /\ ~ready'[p] /\ c \in Cells => cell'[c].waiting = p /\ cell[c].writeOpen
  BY DEF Core, Reads
<1>2. pc \in [Procs -> PcSet]
  BY <1>1, Facts
<1>3. /\ pc' \in [Procs -> PcSet] /\ pc'[p] = l
      /\ \A q \in Procs : q # p => pc'[q] = pc[q]
  BY <1>1, <1>2
<1>5. TypeOK'
  BY <1>1, <1>3 DEF TypeOK, array, Record
<1>6. Phases'
  <2>1. ASSUME NEW q \in Procs PROVE Phase(q)'
    <3>1. CASE q = p
      <4>1. Phase(p) /\ prog[p] # "none"
        BY <1>1 DEF Phases, Phase
      <4>2. fd'[p] = fd[p] /\ prog'[p] = prog[p]
        BY <1>1
      <4> QED BY <1>1, <1>3, <3>1, <4>1, <4>2 DEF Phase
    <3>2. CASE q # p
      BY <1>1, <1>3, <3>2, PhaseKept
    <3> QED BY <3>1, <3>2
  <2> QED BY <2>1 DEF Phases, Phase
<1>7. \A d \in Cells : /\ cell'[d].id = cell[d].id
                       /\ cell'[d].readOpen = cell[d].readOpen
                       /\ cell'[d].writeOpen = cell[d].writeOpen
                       /\ d # c => cell'[d] = cell[d]
  BY DEF Reads
<1>8. /\ EntriesRight => EntriesRight'
      /\ EndsHeld => EndsHeld'
      /\ EndsHeld /\ (\A d \in used : OpenHeld(d)) => \A d \in used' : OpenHeld(d)'
  <2>1. \A q \in Procs : pc'[q] \in Inside => pc[q] \in Inside
    BY <1>1, <1>3
  <2>2. UNCHANGED <<array, fd>>
    BY <1>1
  <2> QED BY <1>1, <1>7, <2>1, <2>2, RestKept
<1>9. ASSUME Held', EndsHeld, SleepersNamed PROVE SleepersNamed'
  <2>1. c # NULL /\ c \in Cells /\ HasEnd(p, c)
    <3>1. c # NULL /\ c \in used /\ HasEnd(p, c)
      BY <1>1, <1>9 DEF EndsHeld, EndHeld, HasEnd
    <3> QED BY <1>1, <3>1, Facts
  <2> SUFFICES ASSUME NEW q \in Procs, ~ready'[q]
               PROVE  cell'[fd[q].pipe].waiting = q /\ cell'[fd[q].pipe].writeOpen
    BY <1>1 DEF SleepersNamed
  <2>2. CASE q = p
    <3>1. cell'[c].waiting = p /\ cell[c].writeOpen
      BY <1>1, <1>9, <2>1, <2>2
    <3>2. cell'[c].writeOpen = cell[c].writeOpen
      BY <1>7, <2>1
    <3> QED BY <2>2, <3>1, <3>2
  <2>3. CASE q # p
    <3>1. ~ready[q]
      BY <1>1, <2>3
    <3>2. fd[q].pipe \in Cells /\ fd[q].readable
      BY <1>1, <1>9, <3>1, SleeperHasPipe
    <3>3. fd[q].pipe # c
      BY <1>1, <2>1, <2>3, <3>2 DEF HasEnd
    <3>4. cell'[fd[q].pipe] = cell[fd[q].pipe]
      BY <1>7, <3>2, <3>3
    <3> QED BY <1>9, <3>1, <3>4 DEF SleepersNamed
  <2> QED BY <2>2, <2>3
<1>10. (Named' => Named) /\ (Held' => Held /\ Named)
  BY <1>1, ClassesShrink
<1> QED BY <1>5, <1>6, <1>8, <1>9, <1>10 DEF Core

\* What all the steps of a read have in common.
Reader(p) ==
  /\ ready[p] /\ pc[p] \in {"open", "asleep", "again", "block", "store"} /\ fd[p].readable
  /\ UNCHANGED <<array, prog, fd>>
  /\ seen \subseteq seen' /\ seen' \subseteq Disturbances /\ count' \in 0..MaxDisturbances

\* Line 160 without the timer, with a writer there or behind a hit.
LEMMA WaitsReads ==
  ASSUME TypeOK, NEW p \in Procs, Reader(p), Waits(p),
         Held' => cell[fd[p].pipe].writeOpen
  PROVE  Reads(p, "asleep")
<1> DEFINE c == fd[p].pipe
<1>1. cell \in [Cells -> Record] /\ ready \in [Procs -> BOOLEAN]
  BY Facts
<1>2. /\ cell' = [cell EXCEPT ![c].waiting = p]
      /\ ready' = [ready EXCEPT ![p] = FALSE] /\ pc' = [pc EXCEPT ![p] = "asleep"]
  BY DEF Waits
<1>3. cell' \in [Cells -> Record]
  BY <1>1, <1>2, WaitingTyped
<1>4. \A d \in Cells : /\ cell'[d].id = cell[d].id
                       /\ cell'[d].readOpen = cell[d].readOpen
                       /\ cell'[d].writeOpen = cell[d].writeOpen
                       /\ d # c => cell'[d] = cell[d]
  BY <1>1, <1>2 DEF Record
<1>5. c \in Cells => cell'[c].waiting = p
  BY <1>1, <1>2 DEF Record
<1> QED BY <1>1, <1>2, <1>3, <1>4, <1>5 DEF Reads, Reader

\* The bytes are taken and whoever waits is woken.
LEMMA TakesReads ==
  ASSUME TypeOK, NEW p \in Procs, Reader(p), Takes(fd[p].pipe),
         NEW l \in Inside, pc' = [pc EXCEPT ![p] = l]
  PROVE  Reads(p, l)
<1> DEFINE c == fd[p].pipe
<1>1. cell \in [Cells -> Record]
  BY Facts
<1>2. cell' = [cell EXCEPT ![c].unread = FALSE, ![c].waiting = NULL] /\ ready' = Woken(c)
  BY DEF Takes
<1>3. cell' \in [Cells -> Record]
  BY <1>1, <1>2, ContentsTyped
<1>4. \A d \in Cells : /\ cell'[d].id = cell[d].id
                       /\ cell'[d].readOpen = cell[d].readOpen
                       /\ cell'[d].writeOpen = cell[d].writeOpen
                       /\ d # c => cell'[d] = cell[d]
  BY <1>1, <1>2 DEF Record
<1>5. ready' \in [Procs -> BOOLEAN] /\ \A q \in Procs : ready[q] => ready'[q]
  BY <1>2, WokenTypes
<1>6. ready[p]
  BY DEF Reader
<1> QED BY <1>3, <1>4, <1>5, <1>6 DEF Reads, Reader

\* A step of a read that notes nothing.
LEMMA QuietReader ==
  ASSUME TypeOK, NEW p \in Procs, ready[p], fd[p].readable, UNCHANGED <<array, prog, fd, log>>,
         pc[p] \in {"open", "asleep", "again", "block", "store"}
  PROVE  Reader(p)
BY Facts DEF Reader, log

\* The first pipeRead of a call.
LEMMA ReadKeeps ==
  ASSUME Core, NEW p \in Procs, pipeRead(p)
  PROVE  Core'
<1>1. TypeOK /\ Reader(p)
  BY QuietReader DEF Core, pipeRead
<1>2. CASE Blocks(fd[p].pipe) /\ Waits(p)
  <2>1. cell[fd[p].pipe].writeOpen
    BY <1>2 DEF Blocks
  <2> QED BY <1>1, <1>2, <2>1, WaitsReads, ReadStep
<1>3. CASE Takes(fd[p].pipe) /\ pc' = [pc EXCEPT ![p] = After(p)]
  <2>1. After(p) \in Inside
    BY DEF After
  <2> QED BY <1>1, <1>3, <2>1, TakesReads, ReadStep
<1> QED BY <1>2, <1>3 DEF pipeRead

\* The part behind a sleep, and a further pipeRead that finds bytes or the end.
LEMMA ReadOnKeeps ==
  ASSUME Core, NEW p \in Procs, ReadOn(p)
  PROVE  Core'
<1>1. TypeOK /\ Phases /\ pc[p] \in {"asleep", "again"} /\ fd[p].readable
  BY DEF Core, ReadOn, Phases
<1>2. Reader(p)
  BY <1>1, QuietReader DEF ReadOn
<1>3. PICK l \in {"open", "leave", "again"} : pc' = [pc EXCEPT ![p] = l]
  BY DEF ReadOn, After
<1> QED BY <1>1, <1>2, <1>3, TakesReads, ReadStep DEF ReadOn

\* A further pipeRead that finds nothing.
LEMMA BlockOnKeeps ==
  ASSUME Core, NEW p \in Procs, BlockOn(p)
  PROVE  Core'
<1>1. TypeOK /\ Phases /\ pc[p] = "again" /\ fd[p].readable /\ ready[p]
      /\ cell[fd[p].pipe].writeOpen /\ UNCHANGED <<array, prog, fd>>
  BY DEF Core, BlockOn, Phases, Blocks
<1>2. CASE Waits(p) /\ UNCHANGED log
  <2>1. Reader(p)
    BY <1>1, <1>2, QuietReader
  <2> QED BY <1>1, <1>2, <2>1, WaitsReads, ReadStep
<1>3. CASE Note({"hit"}) /\ pc' = [pc EXCEPT ![p] = "block"] /\ UNCHANGED <<cell, ready>>
  <2>1. seen \subseteq seen' /\ seen' \subseteq Disturbances /\ count' \in 0..MaxDisturbances
    <3>1. {"hit"} \in SUBSET Disturbances
      BY DEF Disturbances
    <3> QED BY <1>1, <1>3, <3>1, Noted
  <2>2. cell \in [Cells -> Record] /\ ready \in [Procs -> BOOLEAN]
    BY <1>1, Facts
  <2>3. Reads(p, "block")
    BY <1>1, <1>3, <2>1, <2>2 DEF Reads
  <2> QED BY <2>3, ReadStep
<1> QED BY <1>2, <1>3 DEF BlockOn

\* A read that was hit: nothing is promised of its sleep.
LEMMA HitOnKeeps ==
  ASSUME Core, HitNoted, NEW p \in Procs, HitOn(p)
  PROVE  Core'
<1>1. TypeOK /\ Phases /\ pc[p] \in {"block", "store"} /\ fd[p].readable /\ ready[p]
      /\ UNCHANGED <<array, prog, fd, log>>
  BY DEF Core, HitOn, Phases
<1>2. Reader(p)
  BY <1>1, QuietReader
<1>3. ~Held'
  BY <1>1 DEF HitNoted, Held, log
<1>4. cell \in [Cells -> Record] /\ ready \in [Procs -> BOOLEAN]
  BY <1>1, Facts
<1>5. CASE Waits(p)
  BY <1>1, <1>2, <1>3, <1>5, WaitsReads, ReadStep
<1>6. CASE ready' = [ready EXCEPT ![p] = FALSE] /\ pc' = [pc EXCEPT ![p] = "store"]
           /\ UNCHANGED cell
  <2>1. Reads(p, "store")
    BY <1>2, <1>3, <1>4, <1>6 DEF Reads, Reader
  <2> QED BY <2>1, ReadStep
<1>7. CASE cell' = [cell EXCEPT ![fd[p].pipe].waiting = p] /\ UNCHANGED ready
           /\ pc' = [pc EXCEPT ![p] = "asleep"]
  <2>1. cell' \in [Cells -> Record]
    BY <1>4, <1>7, WaitingTyped
  <2>2. \A d \in Cells : /\ cell'[d].id = cell[d].id
                         /\ cell'[d].readOpen = cell[d].readOpen
                         /\ cell'[d].writeOpen = cell[d].writeOpen
                         /\ d # fd[p].pipe => cell'[d] = cell[d]
    BY <1>4, <1>7 DEF Record
  <2>3. Reads(p, "asleep")
    BY <1>2, <1>3, <1>4, <1>7, <2>1, <2>2 DEF Reads, Reader
  <2> QED BY <2>3, ReadStep
<1> QED BY <1>5, <1>6, <1>7 DEF HitOn
-----------------------------------------------------------------------------
(* Opening by number                                                       *)

\* The fdPipe of a process that opens by number, whatever pipe is in it.
LEMMA OpenedFacts ==
  ASSUME TypeOK, Phases, NEW p \in Procs, prog[p] \in {"p2", "p3"}, pc[p] = "start",
         NEW j \in Cells \union {NULL}, fd' = Opened(p, j),
         NEW x \in {"open", "leave"}, pc' = [pc EXCEPT ![p] = x],
         UNCHANGED <<prog, ready>>
  PROVE  /\ fd' \in [Procs -> FdPipe]
         /\ fd'[p].pipe = j
         /\ fd'[p].readable = (prog[p] = "p3") /\ fd'[p].writable = (prog[p] = "p2")
         /\ fd'[p].readable \/ fd'[p].writable
         /\ pc' \in [Procs -> PcSet]
         /\ pc'[p] = x
         /\ \A q \in Procs : q # p => fd'[q] = fd[q] /\ pc'[q] = pc[q]
         /\ fd[p].pipe = NULL /\ ready[p]
         /\ Phases'
<1>1. /\ fd \in [Procs -> FdPipe]
      /\ pc \in [Procs -> PcSet]
  BY Facts
<1> DEFINE F == [pipe |-> j, readable |-> prog[p] = "p3", writable |-> prog[p] = "p2"]
<1>2. F \in FdPipe /\ F.pipe = j /\ F.readable = (prog[p] = "p3") /\ F.writable = (prog[p] = "p2")
  BY DEF FdPipe
<1>3. fd' = [fd EXCEPT ![p] = F]
  BY DEF Opened
<1> HIDE DEF F
<1>4. fd' \in [Procs -> FdPipe] /\ fd'[p] = F /\ \A q \in Procs : q # p => fd'[q] = fd[q]
  BY <1>1, <1>2, <1>3
<1>5. /\ pc' \in [Procs -> PcSet]
      /\ pc'[p] = x /\ \A q \in Procs : q # p => pc'[q] = pc[q]
  BY <1>1
<1>6. fd[p].pipe = NULL /\ ready[p]
  BY DEF Phases, NoFd
<1>7. Phases'
  <2>1. ASSUME NEW q \in Procs PROVE Phase(q)'
    <3>1. CASE q = p
      BY <1>2, <1>4, <1>5, <1>6, <3>1 DEF Phase
    <3>2. CASE q # p
      BY <1>4, <1>5, <3>2, PhaseKept
    <3> QED BY <3>1, <3>2
  <2> QED BY <2>1 DEF Phases, Phase
<1> QED BY <1>2, <1>4, <1>5, <1>6, <1>7

\* Nobody has opened the number yet.
OpensNew(p, c, q) ==
  /\ Found(NAMED) = {} /\ Len(pipes) < MAX_PIPES
  /\ c \in Cells \ used /\ q \in Procs \union {NULL}
  /\ pipes' = Append(pipes, c) /\ used' = used \union {c}
  /\ cell' = [cell EXCEPT ![c] =
                [id |-> NAMED, readOpen |-> prog[p] = "p3", writeOpen |-> prog[p] = "p2",
                 unread |-> FALSE, waiting |-> q]]
  /\ fd' = Opened(p, c)
  /\ pc' = [pc EXCEPT ![p] = "open"]
  /\ UNCHANGED <<pipeIds, log, prog, ready>>

\* The first to open the number makes the pipe, and has the only end of it.
LEMMA OpensNewKeeps ==
  ASSUME Core, NEW p \in Procs, prog[p] \in {"p2", "p3"}, pc[p] = "start",
         NEW c, NEW q \in Procs \union {NULL}, OpensNew(p, c, q)
  PROVE  Core'
<1> DEFINE new == [id |-> NAMED, readOpen |-> prog[p] = "p3", writeOpen |-> prog[p] = "p2",
                   unread |-> FALSE, waiting |-> q]
<1>1. new \in Record /\ new.id = NAMED /\ new.readOpen = (prog[p] = "p3")
      /\ new.writeOpen = (prog[p] = "p2")
  BY DEF Record
<1>2. Makes(c, new)
  BY DEF OpensNew, Makes
<1> HIDE DEF new
<1>3. TypeOK /\ Phases
  BY DEF Core
<1>4. /\ pipes' \in Seq(Cells) /\ Len(pipes') <= MAX_PIPES
      /\ cell' \in [Cells -> Record] /\ used' \subseteq Cells
      /\ \A d \in Cells : d # c => cell'[d] = cell[d]
      /\ cell'[c] = new
      /\ c \in Cells /\ c \notin used /\ used' = used \union {c} /\ c # NULL
  BY <1>1, <1>2, <1>3, MakesFacts
<1>5. /\ fd' = Opened(p, c) /\ pc' = [pc EXCEPT ![p] = "open"] /\ UNCHANGED <<prog, ready>>
      /\ pipeIds' = pipeIds /\ seen' = seen /\ count' = count /\ Found(NAMED) = {}
  BY DEF OpensNew, log
<1>6. /\ fd' \in [Procs -> FdPipe] /\ fd'[p].pipe = c
      /\ fd'[p].readable = (prog[p] = "p3") /\ fd'[p].writable = (prog[p] = "p2")
      /\ fd'[p].readable \/ fd'[p].writable
      /\ pc' \in [Procs -> PcSet] /\ pc'[p] = "open"
      /\ \A r \in Procs : r # p => fd'[r] = fd[r] /\ pc'[r] = pc[r]
      /\ fd[p].pipe = NULL /\ ready[p] /\ Phases'
  BY <1>3, <1>4, <1>5, OpenedFacts
<1>7. TypeOK'
  BY <1>3, <1>4, <1>5, <1>6, Facts DEF TypeOK, Record, FdPipe
<1>8. ASSUME EntriesRight PROVE EntriesRight'
  <2>1. \A i \in Indices : cell[pipes[i]].id # new.id
    BY <1>1, <1>5 DEF Found
  <2>2. new.id < MAX_PIPES + pipeIds'
    BY <1>1, <1>3, <1>5, Facts DEF NAMED
  <2>3. \A i \in Indices : \/ cell[pipes[i]].id < MAX_PIPES + pipeIds'
                           \/ cell[pipes[i]].id = MAX_PIPES + PIPE_IDS - 1
    BY <1>5, <1>8 DEF EntriesRight
  <2> QED BY <1>1, <1>2, <1>3, <1>8, <2>1, <2>2, <2>3, MakesEntries
<1>9. ASSUME EndsHeld PROVE EndsHeld'
  <2> SUFFICES ASSUME NEW r \in Procs PROVE EndHeld(r)'
    BY DEF EndsHeld
  <2>1. \A s \in Procs : fd[s].pipe # c
    BY <1>3, <1>4, <1>9, NobodyHasNew
  <2>2. CASE r = p
    <3>1. \A s \in Procs : fd'[s].pipe = c => s = p
      BY <1>6, <2>1
    <3>2. HasEnd(p, c)'
      BY <1>1, <1>4, <1>6, <3>1 DEF HasEnd
    <3> QED BY <1>4, <1>6, <2>2, <3>2 DEF EndHeld
  <2>3. CASE r # p
    <3>1. fd[r].pipe # NULL => fd[r].pipe \in used /\ fd[r].pipe \in Cells
      BY <1>3, <1>9, Facts DEF EndsHeld, EndHeld, HasEnd
    <3>2. fd[r].pipe # NULL =>
            /\ fd[r].pipe \in used' /\ cell'[fd[r].pipe] = cell[fd[r].pipe]
            /\ \A s \in Procs : fd'[s].pipe = fd[r].pipe => fd'[s] = fd[s]
      BY <1>4, <1>6, <3>1
    <3> QED BY <1>6, <1>9, <2>3, <3>2, EndKept
  <2> QED BY <2>2, <2>3
<1>10. ASSUME EndsHeld, \A d \in used : OpenHeld(d) PROVE \A d \in used' : OpenHeld(d)'
  <2> SUFFICES ASSUME NEW d \in used' PROVE OpenHeld(d)'
    OBVIOUS
  <2>1. CASE d = c
    BY <1>1, <1>4, <1>6, <2>1 DEF OpenHeld
  <2>2. CASE d \in used
    <3>1. d # c /\ d \in Cells /\ d # NULL /\ cell'[d] = cell[d]
      BY <1>3, <1>4, <2>2, Facts
    <3>2. \A r \in Procs : fd[r].pipe = d \/ fd'[r].pipe = d => fd'[r] = fd[r]
      BY <1>6, <3>1
    <3> QED BY <1>5, <1>10, <2>2, <3>1, <3>2, OpenKept
  <2> QED BY <1>4, <2>1, <2>2
<1>11. ASSUME EndsHeld, SleepersNamed PROVE SleepersNamed'
  <2>1. AllStayReady
    BY <1>5 DEF AllStayReady
  <2>2. ASSUME NEW r \in Procs, ~ready'[r]
        PROVE  fd'[r] = fd[r] /\ cell'[fd[r].pipe] = cell[fd[r].pipe]
    <3>1. ~ready[r] /\ r # p
      BY <1>5, <1>6, <2>2
    <3> QED BY <1>3, <1>4, <1>6, <1>11, <3>1, SleeperHasPipe
  <2> QED BY <1>11, <2>1, <2>2, SleepersKept
<1> QED BY <1>5, <1>6, <1>7, <1>8, <1>9, <1>10, <1>11 DEF Core, Named, Held

\* One flag is set, of whichever pipe the fdPipe held.
LEMMA SetOpenFacts ==
  ASSUME TypeOK, NEW p \in Procs, prog[p] \in {"p2", "p3"}, NEW j \in Cells \union {NULL}
  PROVE  /\ SetOpen(p, j) \in [Cells -> Record]
         /\ \A d \in Cells : d # j => SetOpen(p, j)[d] = cell[d]
         /\ \A d \in Cells : /\ SetOpen(p, j)[d].id = cell[d].id
                             /\ SetOpen(p, j)[d].waiting = cell[d].waiting
                             /\ cell[d].readOpen => SetOpen(p, j)[d].readOpen
                             /\ cell[d].writeOpen => SetOpen(p, j)[d].writeOpen
         /\ j \in Cells /\ prog[p] = "p3" =>
              SetOpen(p, j)[j].readOpen /\ SetOpen(p, j)[j].writeOpen = cell[j].writeOpen
         /\ j \in Cells /\ prog[p] = "p2" =>
              SetOpen(p, j)[j].writeOpen /\ SetOpen(p, j)[j].readOpen = cell[j].readOpen
<1>1. cell \in [Cells -> Record] /\ NULL \notin Cells
  BY Facts
<1>2. CASE j = NULL
  BY <1>1, <1>2 DEF SetOpen
<1>3. CASE j \in Cells /\ prog[p] = "p3"
  <2> DEFINE new == [cell[j] EXCEPT !.readOpen = TRUE]
  <2>1. SetOpen(p, j) = [cell EXCEPT ![j] = new]
    BY <1>1, <1>3 DEF SetOpen
  <2>2. cell[j] \in Record
    BY <1>1, <1>3
  <2>3. /\ new \in Record /\ new.id = cell[j].id /\ new.waiting = cell[j].waiting
        /\ new.readOpen = TRUE
        /\ new.writeOpen = cell[j].writeOpen
    BY <2>2 DEF Record
  <2> HIDE DEF new
  <2>4. /\ SetOpen(p, j) \in [Cells -> Record]
        /\ \A d \in Cells : d # j => SetOpen(p, j)[d] = cell[d]
        /\ SetOpen(p, j)[j] = new
    BY <1>1, <1>3, <2>1, <2>3
  <2>5. \A d \in Cells : /\ SetOpen(p, j)[d].id = cell[d].id
                         /\ SetOpen(p, j)[d].waiting = cell[d].waiting
                         /\ cell[d].readOpen => SetOpen(p, j)[d].readOpen
                         /\ cell[d].writeOpen => SetOpen(p, j)[d].writeOpen
    BY <2>3, <2>4
  <2> QED BY <1>3, <2>3, <2>4, <2>5
<1>4. CASE j \in Cells /\ prog[p] = "p2"
  <2> DEFINE new == [cell[j] EXCEPT !.writeOpen = TRUE]
  <2>1. SetOpen(p, j) = [cell EXCEPT ![j] = new]
    BY <1>1, <1>4 DEF SetOpen
  <2>2. cell[j] \in Record
    BY <1>1, <1>4
  <2>3. /\ new \in Record /\ new.id = cell[j].id /\ new.waiting = cell[j].waiting
        /\ new.readOpen = cell[j].readOpen
        /\ new.writeOpen = TRUE
    BY <2>2 DEF Record
  <2> HIDE DEF new
  <2>4. /\ SetOpen(p, j) \in [Cells -> Record]
        /\ \A d \in Cells : d # j => SetOpen(p, j)[d] = cell[d]
        /\ SetOpen(p, j)[j] = new
    BY <1>1, <1>4, <2>1, <2>3
  <2>5. \A d \in Cells : /\ SetOpen(p, j)[d].id = cell[d].id
                         /\ SetOpen(p, j)[d].waiting = cell[d].waiting
                         /\ cell[d].readOpen => SetOpen(p, j)[d].readOpen
                         /\ cell[d].writeOpen => SetOpen(p, j)[d].writeOpen
    BY <2>3, <2>4
  <2> QED BY <1>4, <2>3, <2>4, <2>5
<1> QED BY <1>2, <1>3, <1>4

\* Another process has opened the number before; p takes the other end.
OpensOther(p, i, j) ==
  /\ i \in Found(NAMED) /\ j \in Cells \union {NULL}
  /\ ~EndTaken(p, pipes[i])
  /\ cell' = SetOpen(p, j)
  /\ fd' = Opened(p, pipes[i])
  /\ pc' = [pc EXCEPT ![p] = "open"]
  /\ Note(IF j = pipes[i] THEN {} ELSE {"missed"})
  /\ UNCHANGED <<array, prog, ready>>

\* The second takes the end that the first has not, if the flag is set in its pipe.
LEMMA OpensOtherKeeps ==
  ASSUME Core, NEW p \in Procs, prog[p] \in {"p2", "p3"}, pc[p] = "start",
         NEW i, NEW j \in Cells \union {NULL}, OpensOther(p, i, j)
  PROVE  Core'
<1> DEFINE c == pipes[i]
<1>1. TypeOK /\ Phases
  BY DEF Core
<1>2. /\ i \in Indices /\ cell[c].id = NAMED /\ c \in Cells /\ NULL \notin Cells
      /\ cell' = SetOpen(p, j) /\ ~EndTaken(p, c)
      /\ fd' = Opened(p, c) /\ pc' = [pc EXCEPT ![p] = "open"] /\ UNCHANGED <<prog, ready>>
      /\ UNCHANGED array
      /\ Note(IF j = c THEN {} ELSE {"missed"})
  BY <1>1, Facts DEF OpensOther, Found
<1>3. /\ seen' \subseteq Disturbances /\ count' \in 0..MaxDisturbances /\ seen \subseteq seen'
      /\ j # c => "missed" \in seen'
  <2>1. (IF j = c THEN {} ELSE {"missed"}) \in SUBSET Disturbances
    BY DEF Disturbances
  <2> HIDE DEF c
  <2> QED BY <1>1, <1>2, <2>1, Noted
<1> HIDE DEF c
<1>4. /\ fd' \in [Procs -> FdPipe] /\ fd'[p].pipe = c
      /\ fd'[p].readable = (prog[p] = "p3") /\ fd'[p].writable = (prog[p] = "p2")
      /\ fd'[p].readable \/ fd'[p].writable
      /\ pc' \in [Procs -> PcSet] /\ pc'[p] = "open"
      /\ \A r \in Procs : r # p => fd'[r] = fd[r] /\ pc'[r] = pc[r]
      /\ fd[p].pipe = NULL /\ ready[p] /\ Phases'
  BY <1>1, <1>2, OpenedFacts
<1>5. /\ cell' \in [Cells -> Record]
      /\ \A d \in Cells : d # j => cell'[d] = cell[d]
      /\ \A d \in Cells : /\ cell'[d].id = cell[d].id /\ cell'[d].waiting = cell[d].waiting
                          /\ cell[d].readOpen => cell'[d].readOpen
                          /\ cell[d].writeOpen => cell'[d].writeOpen
      /\ j \in Cells /\ prog[p] = "p3" =>
           cell'[j].readOpen /\ cell'[j].writeOpen = cell[j].writeOpen
      /\ j \in Cells /\ prog[p] = "p2" => cell'[j].writeOpen /\ cell'[j].readOpen = cell[j].readOpen
  BY <1>1, <1>2, SetOpenFacts
<1>6. TypeOK'
  BY <1>1, <1>2, <1>3, <1>4, <1>5, Facts DEF TypeOK, Record, FdPipe, array
<1>7. ASSUME EntriesRight PROVE EntriesRight' /\ c \in used
  BY <1>1, <1>2, <1>5, <1>7, EntriesKept DEF EntriesRight, c
<1>8. used' = used
  BY <1>2 DEF array
\* Whoever else has the pipe has its other end.
<1>9. ASSUME EndsHeld, NEW r \in Procs, fd[r].pipe = c
      PROVE  r # p /\ fd[r].readable # fd'[p].readable
  <2>1. HasEnd(r, c) /\ r # p
    BY <1>2, <1>4, <1>9 DEF EndsHeld, EndHeld
  <2>2. fd[r] \in FdPipe
    BY <1>1, Facts
  <2>3. fd[r].readable \in BOOLEAN /\ fd[r].writable \in BOOLEAN
    BY <2>2 DEF FdPipe
  <2>4. CASE prog[p] = "p3"
    BY <1>2, <1>4, <2>1, <2>3, <2>4 DEF HasEnd, EndTaken
  <2>5. CASE prog[p] = "p2"
    BY <1>2, <1>4, <2>1, <2>3, <2>5 DEF HasEnd, EndTaken
  <2> QED BY <2>1, <2>4, <2>5
<1>10. ASSUME EndsHeld, c \in used, j = c PROVE EndsHeld'
  <2> SUFFICES ASSUME NEW r \in Procs PROVE EndHeld(r)'
    BY DEF EndsHeld
  <2>1. CASE r = p
    <3>1. \A s \in Procs : fd'[s].pipe = c /\ fd'[s].readable = fd'[p].readable => s = p
      BY <1>4, <1>9, <1>10
    <3>2. c \in used' /\ c \in Cells /\ c # NULL
      BY <1>2, <1>8, <1>10
    <3>3. fd'[p].readable => cell'[c].readOpen
      BY <1>4, <1>5, <1>10, <3>2
    <3>4. fd'[p].writable => cell'[c].writeOpen
      BY <1>4, <1>5, <1>10, <3>2
    <3>5. HasEnd(p, fd[p].pipe)'
      BY <1>4, <3>1, <3>2, <3>3, <3>4 DEF HasEnd
    <3>6. EndHeld(p)'
      BY <1>4, <3>2, <3>5 DEF EndHeld
    <3> QED BY <2>1, <3>6
  <2>2. CASE r # p
    <3>1. fd[r].pipe # NULL => fd[r].pipe \in used /\ fd[r].pipe \in Cells
      BY <1>1, <1>10, Facts DEF EndsHeld, EndHeld, HasEnd
    <3>2. fd[r].pipe # NULL =>
            /\ fd[r].pipe \in used'
            /\ cell[fd[r].pipe].readOpen => cell'[fd[r].pipe].readOpen
            /\ cell[fd[r].pipe].writeOpen => cell'[fd[r].pipe].writeOpen
      BY <1>5, <1>8, <3>1
    <3>3. \A s \in Procs : fd'[s].pipe = fd[r].pipe /\ fd'[s].readable = fd[r].readable
                             => fd'[s] = fd[s]
      BY <1>4, <1>9, <1>10
    <3> QED BY <1>4, <1>10, <2>2, <3>2, <3>3, EndKept
  <2> QED BY <2>1, <2>2
<1>11. ASSUME EndsHeld, \A d \in used : OpenHeld(d), c \in used, j = c
       PROVE  \A d \in used' : OpenHeld(d)'
  <2> SUFFICES ASSUME NEW d \in used PROVE OpenHeld(d)'
    BY <1>8
  <2>1. CASE d = c
    <3>1. PICK h \in Procs : fd[h].pipe = c
      BY <1>2, <1>11 DEF OpenHeld
    <3>2. /\ cell[c].readOpen => \E s \in Procs : fd[s].pipe = c /\ fd[s].readable
          /\ cell[c].writeOpen => \E s \in Procs : fd[s].pipe = c /\ fd[s].writable
      BY <1>11, <3>1 DEF OpenHeld
    <3>3. \A s \in Procs : fd[s].pipe = c => fd'[s] = fd[s]
      BY <1>2, <1>4
    <3>4. CASE prog[p] = "p3"
      <4>1. cell'[c].writeOpen => \E s \in Procs : fd'[s].pipe = c /\ fd'[s].writable
        BY <1>2, <1>5, <1>11, <3>2, <3>3, <3>4
      <4> QED BY <1>4, <2>1, <3>4, <4>1 DEF OpenHeld
    <3>5. CASE prog[p] = "p2"
      <4>1. cell'[c].readOpen => \E s \in Procs : fd'[s].pipe = c /\ fd'[s].readable
        BY <1>2, <1>5, <1>11, <3>2, <3>3, <3>5
      <4> QED BY <1>4, <2>1, <3>5, <4>1 DEF OpenHeld
    <3> QED BY <3>4, <3>5
  <2>2. CASE d # c
    <3>1. d \in Cells /\ d # NULL /\ cell'[d] = cell[d]
      BY <1>1, <1>5, <1>11, <2>2, Facts
    <3>2. \A r \in Procs : fd[r].pipe = d \/ fd'[r].pipe = d => fd'[r] = fd[r]
      BY <1>4, <2>2, <3>1
    <3> QED BY <1>3, <1>11, <3>1, <3>2, OpenKept
  <2> QED BY <2>1, <2>2
<1>12. ASSUME EndsHeld, SleepersNamed PROVE SleepersNamed'
  <2>1. AllStayReady
    BY <1>2 DEF AllStayReady
  <2>2. ASSUME NEW r \in Procs, ~ready'[r]
        PROVE  /\ fd'[r] = fd[r]
               /\ cell'[fd[r].pipe].waiting = cell[fd[r].pipe].waiting
               /\ cell[fd[r].pipe].writeOpen => cell'[fd[r].pipe].writeOpen
    <3>1. ~ready[r] /\ r # p
      BY <1>2, <1>4, <2>2
    <3>2. fd[r].pipe \in Cells
      BY <1>1, <1>12, <3>1, SleeperHasPipe
    <3> QED BY <1>4, <1>5, <3>1, <3>2
  <2> QED BY <1>12, <2>1, <2>2, SleepersKept
<1>13. (Named' => Named /\ j = c) /\ (Held' => Held /\ Named)
  BY <1>3, ClassesShrink DEF Named
<1>14. Named' => (EntriesRight /\ EndsHeld)'
  BY <1>7, <1>10, <1>13 DEF Core
<1>15. Held' => ((\A d \in used : OpenHeld(d)) /\ SleepersNamed)'
  <2>1. Held' => j = c
    BY <1>13 DEF Held, Named
  <2> QED BY <1>7, <1>11, <1>12, <1>13, <2>1 DEF Core
<1> QED BY <1>4, <1>6, <1>14, <1>15 DEF Core

\* The open is refused, and p has what its fdPipe held before.
OpensRefused(p, j) ==
  /\ fd' = Opened(p, j)
  /\ pc' = [pc EXCEPT ![p] = IF prog[p] = "p3" THEN "leave" ELSE "open"]
  /\ Note({"refused"})
  /\ UNCHANGED <<array, cell, prog, ready>>

\* A refused open is a disturbance, after which only types and phases are claimed.
LEMMA OpensRefusedKeeps ==
  ASSUME Core, NEW p \in Procs, prog[p] \in {"p2", "p3"}, pc[p] = "start",
         NEW j \in Cells \union {NULL}, OpensRefused(p, j)
  PROVE  Core'
<1>1. TypeOK /\ Phases
  BY DEF Core
<1>2. /\ seen' \subseteq Disturbances /\ count' \in 0..MaxDisturbances /\ "refused" \in seen'
  <2>1. {"refused"} \in SUBSET Disturbances /\ Note({"refused"})
    BY DEF Disturbances, OpensRefused
  <2> QED BY <1>1, <2>1, Noted
<1> DEFINE x == IF prog[p] = "p3" THEN "leave" ELSE "open"
<1>3. /\ fd' = Opened(p, j) /\ pc' = [pc EXCEPT ![p] = x] /\ x \in {"open", "leave"}
      /\ UNCHANGED <<prog, ready>> /\ UNCHANGED <<array, cell>>
  BY DEF OpensRefused
<1> HIDE DEF x
<1>4. /\ fd' \in [Procs -> FdPipe] /\ Phases'
      /\ pc' \in [Procs -> PcSet]
  BY <1>1, <1>3, OpenedFacts
<1>5. TypeOK'
  BY <1>1, <1>2, <1>3, <1>4, Facts DEF TypeOK, Record, FdPipe, array
<1> QED BY <1>2, <1>4, <1>5 DEF Core, Named, Held

\* The four ways of openPipeId.
LEMMA OpenKeeps ==
  ASSUME Core, NEW p \in Procs, openPipeId(p)
  PROVE  Core'
<1>1. prog[p] \in {"p2", "p3"} /\ pc[p] = "start" /\ UNCHANGED <<prog, ready>>
  BY DEF openPipeId
<1>2. ASSUME NEW c \in Cells \ used, NEW q \in {r \in Procs : prog[r] # "none"} \union {NULL},
             OpensNew(p, c, q)
      PROVE  Core'
  BY <1>1, <1>2, OpensNewKeeps
<1>3. ASSUME Note({"wild"}), UNCHANGED <<array, cell, fd, pc>> PROVE Core'
  <2>1. TypeOK /\ Phases
    BY DEF Core
  <2>2. /\ seen' \subseteq Disturbances /\ count' \in 0..MaxDisturbances /\ "wild" \in seen'
    <3>1. {"wild"} \in SUBSET Disturbances
      BY DEF Disturbances
    <3> QED BY <1>3, <2>1, <3>1, Noted
  <2>3. TypeOK'
    BY <1>1, <1>3, <2>1, <2>2 DEF TypeOK, array
  <2>4. Phases'
    BY <1>1, <1>3, <2>1 DEF Phases
  <2> QED BY <2>2, <2>3, <2>4 DEF Core, Named, Held
<1>4. ASSUME NEW j \in Cells \union {NULL}, OpensRefused(p, j) PROVE Core'
  BY <1>1, <1>4, OpensRefusedKeeps
<1>5. ASSUME NEW i \in Found(NAMED), NEW j \in Cells \union {NULL}, OpensOther(p, i, j)
      PROVE  Core'
  BY <1>1, <1>5, OpensOtherKeeps
<1>6. \/ \E c \in Cells \ used, q \in {r \in Procs : prog[r] # "none"} \union {NULL} :
           OpensNew(p, c, q)
      \/ Note({"wild"}) /\ UNCHANGED <<array, cell, fd, pc>>
      \/ \E j \in Cells \union {NULL} : OpensRefused(p, j)
      \/ \E i \in Found(NAMED), j \in Cells \union {NULL} : OpensOther(p, i, j)
  BY DEF openPipeId, OpensNew, OpensRefused, OpensOther
<1> QED BY <1>2, <1>3, <1>4, <1>5, <1>6
-----------------------------------------------------------------------------
(* The end of a process                                                    *)

\* deleteProcessFromPipes touches waiting processes only.
LEMMA ForgottenFacts ==
  ASSUME NEW p \in Procs, NEW m \in [Cells -> Record], NEW s
  PROVE  /\ Forgotten(p, m, s) \in [Cells -> Record]
         /\ \A d \in Cells :
              /\ Forgotten(p, m, s)[d].id = m[d].id
              /\ Forgotten(p, m, s)[d].readOpen = m[d].readOpen
              /\ Forgotten(p, m, s)[d].writeOpen = m[d].writeOpen
              /\ m[d].waiting # p => Forgotten(p, m, s)[d].waiting = m[d].waiting
<1>2. ASSUME NEW d \in Cells
      PROVE  /\ Forgotten(p, m, s)[d] \in Record
             /\ Forgotten(p, m, s)[d].id = m[d].id
             /\ Forgotten(p, m, s)[d].readOpen = m[d].readOpen
             /\ Forgotten(p, m, s)[d].writeOpen = m[d].writeOpen
             /\ m[d].waiting # p => Forgotten(p, m, s)[d].waiting = m[d].waiting
  <2> DEFINE new == [m[d] EXCEPT !.waiting = NULL]
  <2>1. m[d] \in Record
    OBVIOUS
  <2>2. new \in Record /\ new.id = m[d].id /\ new.readOpen = m[d].readOpen
        /\ new.writeOpen = m[d].writeOpen
    BY <2>1 DEF Record
  <2>3. \/ Forgotten(p, m, s)[d] = m[d]
        \/ Forgotten(p, m, s)[d] = new /\ m[d].waiting = p
    BY DEF Forgotten
  <2> HIDE DEF new
  <2> QED BY <2>1, <2>2, <2>3
<1>3. Forgotten(p, m, s) = [d \in Cells |-> Forgotten(p, m, s)[d]]
  BY DEF Forgotten
<1> QED BY <1>2, <1>3

\* What closeFdPipe leaves in memory is memory.
LEMMA AfterCloseTyped ==
  ASSUME TypeOK, NEW p \in Procs
  PROVE  AfterClose(fd[p]) \in [Cells -> Record]
<1> DEFINE c == fd[p].pipe
           m == Shut(fd[p], c)
<1>1. cell \in [Cells -> Record] /\ c \in Cells \union {NULL}
  BY Facts DEF FdPipe
<1>2. CASE c = NULL
  BY <1>1, <1>2 DEF AfterClose
<1>3. CASE c # NULL
  <2>1. m \in [Cells -> Record] /\ c \in Cells
    BY <1>1, <1>3, ShutFacts
  <2> HIDE DEF c, m
  <2>2. [m EXCEPT ![c].waiting = NULL] \in [Cells -> Record]
    BY <2>1 DEF Record
  <2>3. AfterClose(fd[p]) = m \/ AfterClose(fd[p]) = [m EXCEPT ![c].waiting = NULL]
    BY <1>3 DEF AfterClose, c, m
  <2> QED BY <2>1, <2>2, <2>3
<1> QED BY <1>2, <1>3

\* A process is gone, and no pipe will wake it.
Forgets(p) ==
  /\ cell' = Forgotten(p, cell, pipes)
  /\ prog' = [prog EXCEPT ![p] = "none"]
  /\ pc' = [pc EXCEPT ![p] = "start"]
  /\ fd' = [fd EXCEPT ![p] = NoFd]
  /\ ready' = [ready EXCEPT ![p] = TRUE]
  /\ UNCHANGED array
  /\ seen \subseteq seen' /\ seen' \subseteq Disturbances /\ count' \in 0..MaxDisturbances
  /\ fd[p].pipe = NULL \/ "killed" \in seen'

\* A process that goes keeps the invariant, for it had no pipe or it is a disturbance.
LEMMA ForgetsKeeps ==
  ASSUME Core, NEW p \in Procs, Forgets(p)
  PROVE  Core'
<1>1. TypeOK /\ Phases
  BY DEF Core
<1>2. /\ cell' \in [Cells -> Record]
      /\ \A d \in Cells : /\ cell'[d].id = cell[d].id
                          /\ cell'[d].readOpen = cell[d].readOpen
                          /\ cell'[d].writeOpen = cell[d].writeOpen
                          /\ cell[d].waiting # p => cell'[d].waiting = cell[d].waiting
  <2>1. cell \in [Cells -> Record]
    BY <1>1, Facts
  <2> QED BY <2>1, ForgottenFacts DEF Forgets
<1>3. NoFd \in FdPipe /\ NoFd.pipe = NULL /\ ~NoFd.readable
  BY DEF NoFd, FdPipe
<1>4. /\ fd \in [Procs -> FdPipe] /\ ready \in [Procs -> BOOLEAN]
      /\ prog \in [Procs -> {"left", "right", "p2", "p3", "none"}]
      /\ pc \in [Procs -> PcSet]
      /\ NULL \notin Cells /\ used \subseteq Cells
  BY <1>1, Facts
<1>5. /\ fd' \in [Procs -> FdPipe] /\ ready' \in [Procs -> BOOLEAN]
      /\ prog' \in [Procs -> {"left", "right", "p2", "p3", "none"}]
      /\ pc' \in [Procs -> PcSet]
  BY <1>3, <1>4 DEF Forgets
<1>6. /\ fd'[p] = NoFd /\ ready'[p] /\ prog'[p] = "none" /\ pc'[p] = "start"
      /\ \A q \in Procs : q # p => /\ fd'[q] = fd[q] /\ ready'[q] = ready[q]
                                   /\ prog'[q] = prog[q] /\ pc'[q] = pc[q]
  BY <1>4 DEF Forgets
<1>7. UNCHANGED array /\ used' = used /\ seen \subseteq seen' /\ seen' \subseteq Disturbances
      /\ count' \in 0..MaxDisturbances /\ (fd[p].pipe = NULL \/ "killed" \in seen')
  BY DEF Forgets, array
<1>8. TypeOK'
  BY <1>1, <1>2, <1>5, <1>7 DEF TypeOK, Record, FdPipe, array
<1>9. Phases'
  <2>1. ASSUME NEW q \in Procs PROVE Phase(q)'
    <3>1. CASE q = p
      BY <1>3, <1>6, <3>1 DEF Phase
    <3>2. CASE q # p
      BY <1>1, <1>6, <3>2, PhaseKept
    <3> QED BY <3>1, <3>2
  <2> QED BY <2>1 DEF Phases, Phase
<1>10. ASSUME EndsHeld PROVE EndsHeld'
  <2> SUFFICES ASSUME NEW q \in Procs PROVE EndHeld(q)'
    BY DEF EndsHeld
  <2>1. CASE q = p
    BY <1>3, <1>6, <2>1 DEF EndHeld
  <2>2. CASE q # p
    <3>1. fd[q].pipe # NULL => fd[q].pipe \in used /\ fd[q].pipe \in Cells
      BY <1>4, <1>10 DEF EndsHeld, EndHeld, HasEnd
    <3>2. \A r \in Procs : fd'[r].pipe = fd[q].pipe /\ fd[q].pipe # NULL => fd'[r] = fd[r]
      BY <1>3, <1>6
    <3> QED BY <1>2, <1>6, <1>7, <1>10, <2>2, <3>1, <3>2, EndKept
  <2> QED BY <2>1, <2>2
<1>11. ASSUME \A d \in used : OpenHeld(d), fd[p].pipe = NULL PROVE \A d \in used' : OpenHeld(d)'
  <2> SUFFICES ASSUME NEW d \in used PROVE OpenHeld(d)'
    BY <1>7
  <2>1. d \in Cells /\ d # NULL
    BY <1>4
  <2>2. \A q \in Procs : fd[q].pipe = d \/ fd'[q].pipe = d => fd'[q] = fd[q]
    BY <1>3, <1>6, <1>11, <2>1
  <2> QED BY <1>2, <1>7, <1>11, <2>1, <2>2, OpenKept
<1>12. ASSUME EndsHeld, SleepersNamed PROVE SleepersNamed'
  <2>1. AllStayReady
    BY <1>4, <1>6 DEF AllStayReady
  <2>2. ASSUME NEW q \in Procs, ~ready'[q]
        PROVE  /\ fd'[q] = fd[q]
               /\ cell'[fd[q].pipe].waiting = cell[fd[q].pipe].waiting
               /\ cell[fd[q].pipe].writeOpen => cell'[fd[q].pipe].writeOpen
    <3>1. ~ready[q] /\ q # p
      BY <1>6, <2>2
    <3>2. fd[q].pipe \in Cells
      BY <1>1, <1>12, <3>1, SleeperHasPipe
    <3>3. cell[fd[q].pipe].waiting = q
      BY <1>12, <3>1 DEF SleepersNamed
    <3> QED BY <1>2, <1>6, <3>1, <3>2, <3>3
  <2> QED BY <1>12, <2>1, <2>2, SleepersKept
<1>13. Named' => (EntriesRight /\ EndsHeld)'
  BY <1>1, <1>2, <1>7, <1>10, ClassesShrink, EntriesKept DEF Core
<1>14. Held' => ((\A d \in used : OpenHeld(d)) /\ SleepersNamed)'
  <2>1. Held' => fd[p].pipe = NULL /\ Held /\ Named
    BY <1>7, ClassesShrink DEF Held
  <2> QED BY <1>11, <1>12, <2>1 DEF Core
<1> QED BY <1>8, <1>9, <1>13, <1>14 DEF Core

\* exit and killPid are a close or a process that is gone.
LEMMA ExitKeeps ==
  ASSUME Core, NEW p \in Procs, Exit(p)
  PROVE  Core'
<1>1. TypeOK /\ Phases /\ ready[p] /\ prog' = [prog EXCEPT ![p] = "none"]
      /\ pc' = [pc EXCEPT ![p] = "start"]
  BY DEF Core, Exit
<1>2. CASE pc[p] = "open" /\ closeFdPipe(p, AfterClose(fd[p]))
           /\ cell' = Forgotten(p, AfterClose(fd[p]), pipes')
  <2>1. AsIn(AfterClose(fd[p]), p)
    BY <1>1, <1>2, AfterCloseTyped, ForgottenFacts DEF AsIn
  <2>2. Closes(p)
    BY <1>1, <1>2, <2>1 DEF Closes
  <2> QED BY <2>2, CloseKeeps
<1>3. CASE pc[p] = "end" /\ cell' = Forgotten(p, cell, pipes)
           /\ UNCHANGED <<array, ready, fd, log>>
  <2>1. fd[p] = NoFd /\ fd[p].pipe = NULL
    <3>1. fd[p] = NoFd
      BY <1>1, <1>3 DEF Phases
    <3>2. NoFd.pipe = NULL
      BY DEF NoFd
    <3> QED BY <3>1, <3>2
  <2>2. fd' = [fd EXCEPT ![p] = NoFd] /\ ready' = [ready EXCEPT ![p] = TRUE]
    <3>1. fd \in [Procs -> FdPipe] /\ ready \in [Procs -> BOOLEAN]
      BY <1>1, Facts
    <3>2. ready[p] = TRUE
      BY <1>1, <3>1
    <3>3. fd' = fd /\ ready' = ready
      BY <1>3
    <3>4. fd = [fd EXCEPT ![p] = NoFd]
      BY <2>1, <3>1
    <3>5. ready = [ready EXCEPT ![p] = TRUE]
      BY <3>1, <3>2
    <3> QED BY <3>3, <3>4, <3>5
  <2>3. seen' = seen /\ count' = count /\ count \in 0..MaxDisturbances
        /\ seen \subseteq Disturbances
    BY <1>1, <1>3, Facts DEF log
  <2>4. Forgets(p)
    BY <1>1, <1>3, <2>1, <2>2, <2>3 DEF Forgets
  <2> QED BY <2>4, ForgetsKeeps
<1> QED BY <1>2, <1>3 DEF Exit

\* The exit that the timer hits clears a flag, and nothing is promised behind it.
LEMMA CutKeeps ==
  ASSUME Core, NEW p \in Procs, CutExit(p)
  PROVE  Core'
<1>1. TypeOK /\ Phases /\ fd[p].pipe # NULL /\ cell' = Shut(fd[p], fd[p].pipe) /\ Note({"cut"})
      /\ UNCHANGED <<array, prog, pc, ready, fd>>
  BY DEF Core, CutExit
<1>2. cell' \in [Cells -> Record]
  <2>1. fd[p].pipe \in Cells
    BY <1>1, Facts DEF FdPipe
  <2> QED BY <1>1, <2>1, ShutFacts
<1>3. seen' \subseteq Disturbances /\ count' \in 0..MaxDisturbances /\ "cut" \in seen'
  <2>1. {"cut"} \in SUBSET Disturbances
    BY DEF Disturbances
  <2> QED BY <1>1, <2>1, Noted
<1>4. TypeOK'
  BY <1>1, <1>2, <1>3 DEF TypeOK, array, Record
<1>5. Phases'
  BY <1>1 DEF Phases
<1> QED BY <1>3, <1>4, <1>5 DEF Core, Named, Held

\* killPid is a process that is gone: with a pipe it is a disturbance.
LEMMA KillKeeps ==
  ASSUME Core, NEW p \in Procs, KillPid(p)
  PROVE  Core'
<1> DEFINE s == IF fd[p].pipe = NULL THEN {} ELSE {"killed"}
<1>1. TypeOK /\ s \in SUBSET Disturbances /\ Note(s)
  BY DEF Core, KillPid, Disturbances
<1> HIDE DEF s
<1>2. seen \subseteq seen' /\ seen' \subseteq Disturbances /\ count' \in 0..MaxDisturbances
      /\ s \subseteq seen'
  BY <1>1, Noted
<1>3. fd[p].pipe = NULL \/ "killed" \in seen'
  BY <1>2 DEF s
<1>4. Forgets(p)
  BY <1>2, <1>3 DEF KillPid, Forgets
<1> QED BY <1>4, ForgetsKeeps
-----------------------------------------------------------------------------
\* Every step keeps what the invariant says of the pipes.
LEMMA CoreStep == IInv /\ [Next]_vars => Core'
<1> SUFFICES ASSUME Core, HitNoted, [Next]_vars PROVE Core'
  BY DEF IInv
<1>1. CASE UNCHANGED vars
  <2>1. UNCHANGED <<pipes, pipeIds, cell, used, prog, pc, ready, fd, seen, count>>
    BY <1>1 DEF vars
  <2>2. TypeOK' /\ Phases'
    BY <2>1 DEF Core, TypeOK, Phases
  <2>3. Named' => (EntriesRight /\ EndsHeld)'
    BY <2>1 DEF Core, Named, EntriesRight, Indices, EndsHeld, EndHeld, HasEnd
  <2>4. Held' => ((\A d \in used : OpenHeld(d)) /\ SleepersNamed)'
    BY <2>1 DEF Core, Held, OpenHeld, SleepersNamed
  <2> QED BY <2>2, <2>3, <2>4 DEF Core
<1>2. CASE CommandNotFound
  BY <1>2, CommandKeeps
<1>3. CASE TooManyPipes
  BY <1>3, ManyKeeps
<1>4. ASSUME NEW p \in Procs, NEW r \in Procs, managePipe(p, r) PROVE Core'
  BY <1>4, PairKeeps
<1>5. ASSUME NEW p \in Procs, createProcess(p, "p2") \/ createProcess(p, "p3") PROVE Core'
  BY <1>5, ProcessKeeps
<1>6. ASSUME NEW p \in Procs, openPipeId(p) PROVE Core'
  BY <1>6, OpenKeeps
<1>7. ASSUME NEW p \in Procs, pipeWrite(p) PROVE Core'
  BY <1>7, WriteKeeps
<1>8. ASSUME NEW p \in Procs, pipeRead(p) PROVE Core'
  BY <1>8, ReadKeeps
<1>9. ASSUME NEW p \in Procs, Leave(p) PROVE Core'
  <2>1. TypeOK /\ closeFdPipe(p, cell') /\ cell' = AfterClose(fd[p])
    BY <1>9 DEF Leave, Core, closeFdPipe
  <2>2. AsIn(AfterClose(fd[p]), p)
    BY <2>1, AfterCloseTyped DEF AsIn
  <2>3. Closes(p)
    BY <1>9, <2>1, <2>2 DEF Leave, Closes
  <2> QED BY <2>3, CloseKeeps
<1>10. ASSUME NEW p \in Procs, Exit(p) PROVE Core'
  BY <1>10, ExitKeeps
<1>11. ASSUME NEW p \in Procs, KillPid(p) PROVE Core'
  BY <1>11, KillKeeps
<1>12. ASSUME NEW p \in Procs, ReadOn(p) PROVE Core'
  BY <1>12, ReadOnKeeps
<1>13. ASSUME NEW p \in Procs, BlockOn(p) PROVE Core'
  BY <1>13, BlockOnKeeps
<1>14. ASSUME NEW p \in Procs, HitOn(p) PROVE Core'
  BY <1>14, HitOnKeeps
<1>15. ASSUME NEW p \in Procs, CutExit(p) PROVE Core'
  BY <1>15, CutKeeps
<1> QED BY <1>1, <1>2, <1>3, <1>4, <1>5, <1>6, <1>7, <1>8, <1>9, <1>10, <1>11, <1>12, <1>13,
           <1>14, <1>15 DEF Next

\* Who is behind a look that the timer hit has a hit in the history.
LEMMA HitsStayNoted ==
  ASSUME TypeOK, HitNoted, seen \subseteq seen',
         \A p \in Procs : \/ pc'[p] = pc[p]
                          \/ pc'[p] \notin {"block", "store"}
                          \/ pc[p] = "block"
                          \/ "hit" \in seen'
  PROVE  HitNoted'
BY DEF HitNoted

\* Every step keeps the hits in the history, and only a hit brings a read there.
LEMMA HitStep ==
  ASSUME IInv, [Next]_vars
  PROVE  HitNoted'
<1>1. TypeOK /\ HitNoted /\ pc \in [Procs -> PcSet] /\ seen \subseteq Disturbances
  BY Facts DEF IInv, Core
<1>2. seen \subseteq seen'
  BY DEF Next, vars, log, Note, CommandNotFound, TooManyPipes, managePipe, createProcess,
         openPipeId, pipeWrite, pipeRead, ReadOn, BlockOn, HitOn, Leave, Exit, CutExit,
         KillPid, closeFdPipe
<1>3. \/ UNCHANGED pc
      \/ \E p, r \in Procs : pc' = [pc EXCEPT ![p] = "open", ![r] = "open"]
      \/ \E p \in Procs, l \in PcSet :
           /\ pc' = [pc EXCEPT ![p] = l]
           /\ l \in {"block", "store"} => pc[p] = "block" \/ "hit" \in seen'
  <2>1. ASSUME NEW p \in Procs, BlockOn(p)
        PROVE  \E l \in {"asleep", "block"} :
                 /\ pc' = [pc EXCEPT ![p] = l]
                 /\ l = "block" => "hit" \in seen'
    BY <2>1 DEF BlockOn, Waits, Note
  <2>2. ASSUME NEW p \in Procs, HitOn(p)
        PROVE  \E l \in {"asleep", "store"} :
                 /\ pc' = [pc EXCEPT ![p] = l]
                 /\ l = "store" => pc[p] = "block"
    BY <2>2 DEF HitOn, Waits
  <2>3. ASSUME NEW p \in Procs, ReadOn(p)
        PROVE  \E l \in {"open", "leave", "again"} : pc' = [pc EXCEPT ![p] = l]
    BY <2>3 DEF ReadOn, After
  <2>4. ASSUME NEW p \in Procs, pipeRead(p)
        PROVE  \E l \in {"open", "leave", "asleep"} : pc' = [pc EXCEPT ![p] = l]
    BY <2>4 DEF pipeRead, After, Waits
  <2>5. ASSUME NEW p \in Procs, openPipeId(p)
        PROVE  UNCHANGED pc \/ \E l \in {"open", "leave"} : pc' = [pc EXCEPT ![p] = l]
    BY <2>5 DEF openPipeId
  <2>6. ASSUME NEW p \in Procs, pipeWrite(p)
        PROVE  \E l \in {"open", "leave"} : pc' = [pc EXCEPT ![p] = l]
    BY <2>6 DEF pipeWrite, After
  <2>7. ASSUME NEW p \in Procs,
               createProcess(p, "p2") \/ createProcess(p, "p3") \/ Leave(p) \/ Exit(p) \/ KillPid(p)
        PROVE  \E l \in {"start", "end"} : pc' = [pc EXCEPT ![p] = l]
    BY <2>7 DEF createProcess, Leave, Exit, KillPid
  <2>8. ASSUME NEW p \in Procs, NEW r \in Procs, managePipe(p, r)
        PROVE  pc' = [pc EXCEPT ![p] = "open", ![r] = "open"]
    BY <2>8 DEF managePipe
  <2>9. CommandNotFound \/ TooManyPipes \/ (\E p \in Procs : CutExit(p)) \/ UNCHANGED vars
          => UNCHANGED pc
    BY DEF CommandNotFound, TooManyPipes, CutExit, vars
  <2> QED BY <2>1, <2>2, <2>3, <2>4, <2>5, <2>6, <2>7, <2>8, <2>9 DEF Next
<1>4. ASSUME NEW q \in Procs
      PROVE  \/ pc'[q] = pc[q]
             \/ pc'[q] \notin {"block", "store"}
             \/ pc[q] = "block"
             \/ "hit" \in seen'
  BY <1>1, <1>3
<1> QED BY <1>1, <1>2, <1>4, HitsStayNoted

\* Every step keeps the inductive invariant.
LEMMA Step == IInv /\ [Next]_vars => IInv'
BY CoreStep, HitStep DEF IInv

\* The inductive invariant holds in every reachable state.
THEOREM InductiveInvariant == Spec => []IInv
BY IInvInit, Step, PTL DEF Spec

\* The array has an entry for every allocated pipe and for no other, each with its own
\* number, whoever is killed, whichever read the timer hits and in whatever order ends are
\* closed (pipes.c:34, 94-98, closeFdPipe), until a pipe is joined or refused by number,
\* pipeIds comes round, or the timer hits an exit by F2.
THEOREM TableStands == Spec => []Inv
BY InductiveInvariant, IInvImplies, PTL

\* An end is marked open exactly while a process has it (closeFdPipe, openPipeId), so a
\* pipe is freed with its last end and nobody is left with a freed one.
THEOREM EndsStay == Spec => []EndsMatchHolders
BY InductiveInvariant, IInvImplies, PTL

\* Whoever sleeps in pipeRead is the one its pipe will wake, and a process that runs has
\* the other end, to write or to close, also when read calls pipeRead again with interrupts
\* on (pipes.c:157-160), until the timer hits such a call between its look and its
\* registration, a holder is killed, or the numbers fail.
THEOREM SleepersHaveWriters == Spec => []SleeperHasWriter
BY InductiveInvariant, IInvImplies, PTL
===============================================================================
