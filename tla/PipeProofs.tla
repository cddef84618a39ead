----------------------------- MODULE PipeProofs -----------------------------
(***************************************************************************)
(* Proofs about module Pipe: what its runs check of the order and number   *)
(* of the bytes, of the blocked process and of the end of the pipe holds   *)
(* for every size of the ring, every length of the strings and every       *)
(* number of kills.                                                        *)
(*                                                                         *)
(* The properties about bytes and blocked processes hold until the timer   *)
(* hits a call with interrupts on, and so do the parts of the invariant in *)
(* Undisturbed.  The ends hold until it hits an exit by F2; the writer's   *)
(* own count holds always.                                                 *)
(***************************************************************************)
EXTENDS Pipe, KernelLemmas

\* Each side is at a line of its own calls.
PcsOK ==
  /\ pc["writer"] \in WriterPcs \union ClosingPcs \union
       {"user", "asleep", "dead", "block", "wait", "wake", "clear"}
  /\ pc["reader"] \in ReaderPcs \union
       {"user", "eof", "asleep", "dead", "block", "wait", "wake", "clear"}
  /\ \A p \in Procs : current = p => pc[p] # "dead"

\* A writer in the middle of a string has bytes of it left, and they fit the bound.
TodoOK ==
  /\ pc["writer"] \in {"asleep", "put", "full", "block", "wait"} => todo >= 1
  /\ pc["writer"] \in {"asleep", "block", "wait"} \union WriterPcs =>
       sent + todo <= MaxBytes

\* An end is closed by the exit of a process, and both by the last one, as long as the
\* timer leaves a writer alone that closes.
EndsOf ==
  /\ pc["writer"] \in ClosingPcs => current = "writer"
  /\ ~writeOpen =>
       pc["writer"] \in {"dead"} \union ClosingPcs /\ fd.writable /\ ~fd.readable
  /\ ~readOpen =>
       \/ pc["reader"] = "dead"
       \/ pc["writer"] \in {"dead"} \union ClosingPcs /\ fd.readable
  /\ freed => pc["reader"] = "dead" /\ pc["writer"] \in {"gone", "dead"}
  /\ kills = 0 /\ pc["reader"] = "dead" => ~readOpen
  /\ kills = 0 /\ fd = Intact =>
       /\ pc["writer"] \in {"dead"} \union ClosingPcs => ~writeOpen
       /\ pc["writer"] \in {"tell", "told"} => readOpen
       /\ pc["writer"] \in {"gone", "dead"} /\ pc["reader"] = "dead" => freed

EndsOK == ~cut => EndsOf

\* Only the running process is inside a resumed call, and it is ready.
Alone ==
  \A p \in Procs :
    /\ pc[p] \in ResumedPcs => current = p
    /\ current = p => pstate[p] = 1 \/ pc[p] = "wait"
    /\ pstate[p] = 0 => pc[p] \in {"asleep", "wait", "dead"}
    /\ pc[p] = "wait" => pstate[p] = 0

\* The waiting process is the one asleep and blocked, but for the end of a wake-up.
WaiterOK ==
  \A p \in Procs :
    /\ waitingProcess = p =>
         /\ pc[p] = "asleep"
         /\ pstate[p] = 0 \/ \E q \in Procs : pc[q] \in {"clear", "told"}
    /\ pstate[p] = 0 /\ pc[p] = "asleep" =>
         waitingProcess = p /\ \A q \in Procs : pc[q] \notin {"clear", "told"}

Unread == sent - Len(got)

\* bytesToRead is the number of unread bytes, but for a byte being stored or taken.
Counted ==
  /\ bytesToRead = IF pc["writer"] \in {"load", "add"} \/ pc["reader"] = "take"
                   THEN Unread - 1 ELSE Unread
  /\ bytesToRead >= 0
  /\ pc["writer"] = "add" => reg["writer"] = bytesToRead
  /\ pc["writer"] \in {"block", "wait"} => bytesToRead = PIPE_SIZE
  /\ pc["reader"] \in {"load", "sub"} => bytesToRead >= 1
  /\ pc["reader"] = "sub" => reg["reader"] = bytesToRead
  /\ pc["reader"] \in {"block", "wait"} => bytesToRead = 0

\* A reader waits at an empty pipe, which the writer cannot fill with what is left of
\* its string; a writer waits at a full one.  So neither replaces the other.
WaitsRightly ==
  /\ waitingProcess = "reader" =>
       /\ pc["writer"] \in {"user", "asleep", "dead"} \union ClosingPcs =>
            bytesToRead = 0
       /\ pc["writer"] \in WriterPcs => Unread + todo <= PIPE_SIZE
       /\ pc["writer"] \notin {"block", "wait"}
  /\ waitingProcess = "writer" =>
       pc["reader"] \in {"take", "wake", "clear"} \/ bytesToRead = PIPE_SIZE

\* The reader's end is open, or somebody still reads.
Kept == readOpen \/ pc["reader"] # "dead"

\* A writer that was woken finds room without looking.
RoomOK ==
  /\ pc["reader"] \in {"take", "wake", "clear"} => bytesToRead < PIPE_SIZE
  /\ Kept =>
       /\ Unread <= PIPE_SIZE
       /\ pc["writer"] = "asleep" /\ pstate["writer"] = 1 => bytesToRead < PIPE_SIZE
       /\ pc["writer"] = "put" => bytesToRead < PIPE_SIZE

\* Where byte n of the last PIPE_SIZE bytes is in the ring.
Slot(n) ==
  IF writePos - 1 - (sent - n) < 0 THEN writePos - 1 - (sent - n) + PIPE_SIZE
  ELSE writePos - 1 - (sent - n)

\* The unread bytes are in the ring, in front of the reader.
RingOK ==
  Kept =>
    /\ \A n \in (Len(got) + 1)..sent : data[Slot(n)] = n
    /\ NextReadPos = Slot(Len(got) + 1)

Delivered == \A i \in 1..Len(got) : got[i] = i

Undisturbed ==
  /\ Alone /\ WaiterOK /\ Counted /\ WaitsRightly /\ RoomOK /\ RingOK /\ Delivered

IInv ==
  /\ TypeOK /\ PcsOK /\ TodoOK /\ EndsOK /\ WaiterIsAlive
  /\ hits = 0 => Undisturbed
-----------------------------------------------------------------------------
(* The ring                                                                *)

LEMMA RingMod ==
  \A x \in 0..(2*PIPE_SIZE - 1) :
    x % PIPE_SIZE = IF x < PIPE_SIZE THEN x ELSE x - PIPE_SIZE
BY ModOnce, SizeAssumption

\* What storing k bytes leaves at each place: the k-th place from the old position
\* on, past the end of the ring from its start, holds the k-th byte.
LEMMA PutProperties ==
  ASSUME data \in [0..(PIPE_SIZE - 1) -> 0..MaxBytes], writePos \in 0..(PIPE_SIZE - 1),
         sent \in Nat, NEW k \in 0..PIPE_SIZE, Put(k)
  PROVE  /\ sent' = sent + k
         /\ writePos' = IF writePos + k < PIPE_SIZE THEN writePos + k
                        ELSE writePos + k - PIPE_SIZE
         /\ data' = [i \in 0..(PIPE_SIZE - 1) |->
                       IF writePos <= i /\ i < writePos + k
                       THEN sent + (i - writePos + 1)
                       ELSE IF i + PIPE_SIZE < writePos + k
                       THEN sent + (i + PIPE_SIZE - writePos + 1)
                       ELSE data[i]]
<1> DEFINE last(i) == {j \in 1..k : (writePos + j - 1) % PIPE_SIZE = i}
<1>0. PIPE_SIZE \in Nat \ {0} /\ k \in Nat /\ DOMAIN data = 0..(PIPE_SIZE - 1)
  BY SizeAssumption
<1>1. sent' = sent + k
  BY DEF Put
<1>2. writePos' = IF writePos + k < PIPE_SIZE THEN writePos + k
                  ELSE writePos + k - PIPE_SIZE
  <2> DEFINE x == writePos + k
  <2>1. x \in 0..(2*PIPE_SIZE - 1)
    BY <1>0
  <2>2. writePos' = x % PIPE_SIZE
    BY DEF Put
  <2> HIDE DEF x
  <2>3. writePos' = IF x < PIPE_SIZE THEN x ELSE x - PIPE_SIZE
    BY <1>0, <2>1, <2>2, RingMod
  <2> QED BY <1>0, <2>3 DEF x
<1>3. ASSUME NEW i \in 0..(PIPE_SIZE - 1)
      PROVE  last(i) = IF writePos <= i /\ i < writePos + k THEN {i - writePos + 1}
                       ELSE IF i + PIPE_SIZE < writePos + k
                       THEN {i + PIPE_SIZE - writePos + 1} ELSE {}
  <2>1. ASSUME NEW j \in 1..k
        PROVE  (writePos + j - 1) % PIPE_SIZE =
                 IF writePos + j - 1 < PIPE_SIZE THEN writePos + j - 1
                 ELSE writePos + j - 1 - PIPE_SIZE
    <3> DEFINE x == writePos + j - 1
    <3>1. x \in 0..(2*PIPE_SIZE - 1)
      BY <1>0
    <3> HIDE DEF x
    <3>2. x % PIPE_SIZE = IF x < PIPE_SIZE THEN x ELSE x - PIPE_SIZE
      BY <1>0, <3>1, RingMod
    <3> QED BY <1>0, <3>2 DEF x
  <2>2. last(i) = {j \in 1..k : (IF writePos + j - 1 < PIPE_SIZE THEN writePos + j - 1
                                 ELSE writePos + j - 1 - PIPE_SIZE) = i}
    BY <2>1
  <2> HIDE DEF last
  <2>3. CASE writePos <= i /\ i < writePos + k
    <3>1. i - writePos + 1 \in 1..k
      BY <2>3, <1>0
    <3>2. \A j \in 1..k : j \in last(i) <=> j = i - writePos + 1
      BY <2>2, <2>3, <1>0
    <3>3. last(i) = {i - writePos + 1}
      BY <3>1, <3>2, <2>2
    <3> QED BY <2>3, <3>3
  <2>4. CASE i + PIPE_SIZE < writePos + k
    <3>1. i + PIPE_SIZE - writePos + 1 \in 1..k /\ ~(writePos <= i)
      BY <2>4, <1>0
    <3>2. \A j \in 1..k : j \in last(i) <=> j = i + PIPE_SIZE - writePos + 1
      BY <2>2, <2>4, <3>1, <1>0
    <3>3. last(i) = {i + PIPE_SIZE - writePos + 1}
      BY <3>1, <3>2, <2>2
    <3> QED BY <2>4, <3>1, <3>3
  <2>5. CASE ~(writePos <= i /\ i < writePos + k) /\ ~(i + PIPE_SIZE < writePos + k)
    <3>1. \A j \in 1..k : j \notin last(i)
      BY <2>2, <2>5, <1>0
    <3>2. last(i) = {}
      BY <3>1, <2>2
    <3> QED BY <2>5, <3>2
  <2> QED BY <2>3, <2>4, <2>5
<1>4. \A m \in Int : Max({m}) = m
  BY DEF Max
<1>5. data' = [i \in 0..(PIPE_SIZE - 1) |-> IF last(i) = {} THEN data[i]
                                            ELSE sent + Max(last(i))]
  BY <1>0 DEF Put
<1> HIDE DEF last
<1>6. ASSUME NEW i \in 0..(PIPE_SIZE - 1)
      PROVE  (IF last(i) = {} THEN data[i] ELSE sent + Max(last(i))) =
               IF writePos <= i /\ i < writePos + k
               THEN sent + (i - writePos + 1)
               ELSE IF i + PIPE_SIZE < writePos + k
               THEN sent + (i + PIPE_SIZE - writePos + 1)
               ELSE data[i]
  <2>1. i - writePos + 1 \in Int /\ i + PIPE_SIZE - writePos + 1 \in Int
    BY <1>0
  <2> QED BY <1>3, <1>4, <2>1
<1> QED BY <1>1, <1>2, <1>5, <1>6

LEMMA PutTypes ==
  ASSUME data \in [0..(PIPE_SIZE - 1) -> 0..MaxBytes], writePos \in 0..(PIPE_SIZE - 1),
         sent \in 0..MaxBytes, NEW k \in 0..PIPE_SIZE, Put(k), sent + k <= MaxBytes
  PROVE  /\ data' \in [0..(PIPE_SIZE - 1) -> 0..MaxBytes]
         /\ writePos' \in 0..(PIPE_SIZE - 1) /\ sent' \in 0..MaxBytes
<1>0. PIPE_SIZE \in Nat \ {0} /\ MaxBytes \in Nat /\ sent \in Nat
  BY SizeAssumption, BoundAssumption
<1>1. /\ sent' = sent + k
      /\ writePos' = IF writePos + k < PIPE_SIZE THEN writePos + k
                     ELSE writePos + k - PIPE_SIZE
      /\ data' = [i \in 0..(PIPE_SIZE - 1) |->
                    IF writePos <= i /\ i < writePos + k
                    THEN sent + (i - writePos + 1)
                    ELSE IF i + PIPE_SIZE < writePos + k
                    THEN sent + (i + PIPE_SIZE - writePos + 1)
                    ELSE data[i]]
  BY <1>0, PutProperties
<1>2. sent' \in 0..MaxBytes
  BY <1>0, <1>1
<1>3. writePos' \in 0..(PIPE_SIZE - 1)
  BY <1>0, <1>1
<1>4. ASSUME NEW i \in 0..(PIPE_SIZE - 1)
      PROVE  (IF writePos <= i /\ i < writePos + k
              THEN sent + (i - writePos + 1)
              ELSE IF i + PIPE_SIZE < writePos + k
              THEN sent + (i + PIPE_SIZE - writePos + 1)
              ELSE data[i]) \in 0..MaxBytes
  <2>1. CASE writePos <= i /\ i < writePos + k
    BY <1>0, <2>1
  <2>2. CASE ~(writePos <= i /\ i < writePos + k) /\ i + PIPE_SIZE < writePos + k
    BY <1>0, <2>2
  <2>3. CASE ~(writePos <= i /\ i < writePos + k) /\ ~(i + PIPE_SIZE < writePos + k)
    BY <2>3
  <2> QED BY <2>1, <2>2, <2>3
<1>5. data' \in [0..(PIPE_SIZE - 1) -> 0..MaxBytes]
  BY <1>1, <1>4
<1> QED BY <1>2, <1>3, <1>5

LEMMA TakeTypes ==
  ASSUME data \in [0..(PIPE_SIZE - 1) -> 0..MaxBytes], readPos \in 0..PIPE_SIZE,
         got \in Seq(0..MaxBytes), Take
  PROVE  got' \in Seq(0..MaxBytes) /\ readPos' \in 0..PIPE_SIZE
BY SizeAssumption, BoundAssumption DEF Take, NextReadPos

\* The room, and what is left over when a string does not fit.
LEMMA RoomProperties ==
  ASSUME bytesToRead \in Int, sent \in Nat, NEW k \in 1..MaxWrite, sent + k <= MaxBytes
  PROVE  /\ Room \in Nat
         /\ k > Room => bytesToRead <= PIPE_SIZE /\ Room = PIPE_SIZE - bytesToRead
                         /\ Room \in 0..PIPE_SIZE /\ k - Room \in 1..MaxWrite
BY SizeAssumption, BoundAssumption DEF Room
-----------------------------------------------------------------------------
(* Types, ends and the writer's count                                      *)

Base == TypeOK /\ PcsOK /\ TodoOK /\ EndsOK /\ WaiterIsAlive

LEMMA BaseInit == Init => Base
<1> SUFFICES ASSUME Init PROVE Base
  OBVIOUS
<1>1. 0 \in 0..MaxBytes /\ 0 \in 0..MaxWrite /\ 0 \in 0..PIPE_SIZE
      /\ 0 \in 0..(PIPE_SIZE - 1) /\ 0 \in 0..MaxKills /\ 0 \in 0..MaxHits
  BY SizeAssumption, BoundAssumption
<1>2. TypeOK
  <2>1. data \in [0..(PIPE_SIZE - 1) -> 0..MaxBytes]
    BY <1>1 DEF Init
  <2>2. /\ pstate \in [Procs -> {0, 1}] /\ pc \in [Procs -> Pcs]
        /\ reg \in [Procs -> Int]
    BY DEF Init, Pcs
  <2>3. fd \in [readable : BOOLEAN, writable : BOOLEAN]
    BY DEF Init, Intact
  <2>4. got \in Seq(0..MaxBytes)
    BY DEF Init
  <2>5. {readOpen, writeOpen, freed} \subseteq BOOLEAN /\ cut \in BOOLEAN
    BY DEF Init
  <2> QED BY <1>1, <2>1, <2>2, <2>3, <2>4, <2>5 DEF Init, TypeOK
<1>3. PcsOK /\ TodoOK
  BY DEF Init, PcsOK, TodoOK, Procs, NoProcess, WriterPcs, ReaderPcs, ClosingPcs
<1>4. EndsOK /\ WaiterIsAlive
  BY DEF Init, EndsOK, EndsOf, WaiterIsAlive, Procs, NoProcess, ClosingPcs, Intact
<1> QED BY <1>2, <1>3, <1>4 DEF Base

\* The types of what the steps of the resumed calls leave alone.
SameRest ==
  UNCHANGED <<readOpen, writeOpen, freed, waitingProcess, fd, pstate, current, kills,
              hits, cut>>

LEMMA RestTypes ==
  ASSUME TypeOK, SameRest,
         data' \in [0..(PIPE_SIZE - 1) -> 0..MaxBytes], readPos' \in 0..PIPE_SIZE,
         writePos' \in 0..(PIPE_SIZE - 1), bytesToRead' \in Int, todo' \in 0..MaxWrite,
         pc' \in [Procs -> Pcs], reg' \in [Procs -> Int], sent' \in 0..MaxBytes,
         got' \in Seq(0..MaxBytes)
  PROVE  TypeOK'
BY DEF TypeOK, SameRest

LEMMA TypeFacts ==
  ASSUME TypeOK
  PROVE  /\ data \in [0..(PIPE_SIZE - 1) -> 0..MaxBytes] /\ readPos \in 0..PIPE_SIZE
         /\ writePos \in 0..(PIPE_SIZE - 1) /\ bytesToRead \in Int /\ todo \in 0..MaxWrite
         /\ pc \in [Procs -> Pcs] /\ reg \in [Procs -> Int] /\ sent \in 0..MaxBytes
         /\ got \in Seq(0..MaxBytes)
BY DEF TypeOK

LEMMA WriteOnTypes ==
  ASSUME TypeOK, TodoOK, WriteOn
  PROVE  TypeOK'
<1>1. /\ data \in [0..(PIPE_SIZE - 1) -> 0..MaxBytes] /\ readPos \in 0..PIPE_SIZE
      /\ writePos \in 0..(PIPE_SIZE - 1) /\ bytesToRead \in Int /\ todo \in 0..MaxWrite
      /\ pc \in [Procs -> Pcs] /\ reg \in [Procs -> Int] /\ sent \in 0..MaxBytes
      /\ got \in Seq(0..MaxBytes)
  BY TypeFacts
<1>2. SameRest /\ UNCHANGED <<readPos, got>>
  BY DEF WriteOn, SameRest, ends
<1>3. "writer" \in Procs /\ {"load", "add", "wake", "full", "block", "put"} \subseteq Pcs
  BY DEF Procs, Pcs, ResumedPcs, WriterPcs, ReaderPcs, ClosingPcs
<1>4. CASE pc["writer"] = "put" /\ Put(1) /\ todo' = todo - 1 /\ Goto("writer", "load")
           /\ UNCHANGED <<bytesToRead, reg>>
  <2>a. todo >= 1 /\ sent + todo <= MaxBytes
    BY <1>4 DEF TodoOK, WriterPcs
  <2>b. todo \in 0..MaxWrite /\ sent \in 0..MaxBytes /\ MaxBytes \in Nat /\ MaxWrite \in Nat
    BY <1>1, SizeAssumption, BoundAssumption
  <2>0. sent + 1 <= MaxBytes
    BY <2>a, <2>b
  <2>1. todo' \in 0..MaxWrite
    <3>1. todo' = todo - 1
      BY <1>4
    <3> QED BY <2>a, <2>b, <3>1
  <2>2. 1 \in 0..PIPE_SIZE
    BY SizeAssumption
  <2>3. data' \in [0..(PIPE_SIZE - 1) -> 0..MaxBytes] /\ sent' \in 0..MaxBytes
        /\ writePos' \in 0..(PIPE_SIZE - 1)
    BY <1>1, <1>4, <2>0, <2>2, PutTypes
  <2>4. pc' \in [Procs -> Pcs]
    BY <1>1, <1>3, <1>4 DEF Goto
  <2> QED BY <1>1, <1>2, <1>4, <2>1, <2>3, <2>4, RestTypes
<1>5. CASE pc["writer"] = "load" /\ reg' = [reg EXCEPT !["writer"] = bytesToRead]
           /\ Goto("writer", "add") /\ UNCHANGED <<data, writePos, sent, bytesToRead, todo>>
  <2>1. pc' \in [Procs -> Pcs] /\ reg' \in [Procs -> Int]
    BY <1>1, <1>3, <1>5 DEF Goto
  <2> QED BY <1>1, <1>2, <1>5, <2>1, RestTypes
<1>6. CASE pc["writer"] = "add" /\ bytesToRead' = reg["writer"] + 1
           /\ Goto("writer", IF todo = 0 THEN "wake" ELSE "full")
           /\ UNCHANGED <<data, writePos, sent, reg, todo>>
  <2>1. pc' \in [Procs -> Pcs] /\ bytesToRead' \in Int
    BY <1>1, <1>3, <1>6 DEF Goto
  <2> QED BY <1>1, <1>2, <1>6, <2>1, RestTypes
<1>7. CASE pc["writer"] = "full"
           /\ Goto("writer", IF bytesToRead = PIPE_SIZE THEN "block" ELSE "put")
           /\ UNCHANGED <<data, writePos, sent, bytesToRead, reg, todo>>
  <2>1. pc' \in [Procs -> Pcs]
    BY <1>1, <1>3, <1>7 DEF Goto
  <2> QED BY <1>1, <1>2, <1>7, <2>1, RestTypes
<1> QED BY <1>4, <1>5, <1>6, <1>7 DEF WriteOn

LEMMA ReadOnTypes ==
  ASSUME TypeOK, ReadOn
  PROVE  TypeOK'
<1>1. /\ data \in [0..(PIPE_SIZE - 1) -> 0..MaxBytes] /\ readPos \in 0..PIPE_SIZE
      /\ writePos \in 0..(PIPE_SIZE - 1) /\ bytesToRead \in Int /\ todo \in 0..MaxWrite
      /\ pc \in [Procs -> Pcs] /\ reg \in [Procs -> Int] /\ sent \in 0..MaxBytes
      /\ got \in Seq(0..MaxBytes)
  BY TypeFacts
<1>2. SameRest /\ UNCHANGED <<data, writePos, todo, sent>>
  BY DEF ReadOn, SameRest, ends
<1>3. "reader" \in Procs /\ Nothing \in Int
      /\ {"load", "sub", "take", "wake", "check", "eof", "block"} \subseteq Pcs
  BY DEF Procs, Pcs, ResumedPcs, WriterPcs, ReaderPcs, ClosingPcs, Nothing
<1>4. CASE Goto("reader", IF bytesToRead > 0 THEN "load" ELSE "wake")
           /\ reg' = [reg EXCEPT !["reader"] = IF bytesToRead > 0 THEN @ ELSE Nothing]
           /\ UNCHANGED <<readPos, bytesToRead, got>>
  <2>1. reg["reader"] \in Int
    BY <1>1, <1>3
  <2>2. reg' \in [Procs -> Int]
    BY <1>1, <1>3, <1>4, <2>1
  <2>3. pc' \in [Procs -> Pcs]
    BY <1>1, <1>3, <1>4 DEF Goto
  <2> QED BY <1>1, <1>2, <1>4, <2>2, <2>3, RestTypes
<1>5. CASE reg' = [reg EXCEPT !["reader"] = bytesToRead] /\ Goto("reader", "sub")
           /\ UNCHANGED <<readPos, bytesToRead, got>>
  <2>1. pc' \in [Procs -> Pcs] /\ reg' \in [Procs -> Int]
    BY <1>1, <1>3, <1>5 DEF Goto
  <2> QED BY <1>1, <1>2, <1>5, <2>1, RestTypes
<1>6. CASE bytesToRead' = reg["reader"] - 1 /\ Goto("reader", "take")
           /\ UNCHANGED <<readPos, reg, got>>
  <2>1. pc' \in [Procs -> Pcs] /\ bytesToRead' \in Int
    BY <1>1, <1>3, <1>6 DEF Goto
  <2> QED BY <1>1, <1>2, <1>6, <2>1, RestTypes
<1>7. CASE Take /\ Goto("reader", "wake") /\ UNCHANGED <<bytesToRead, reg>>
  <2>1. got' \in Seq(0..MaxBytes) /\ readPos' \in 0..PIPE_SIZE
    BY <1>1, <1>7, TakeTypes
  <2>2. pc' \in [Procs -> Pcs]
    BY <1>1, <1>3, <1>7 DEF Goto
  <2> QED BY <1>1, <1>2, <1>7, <2>1, <2>2, RestTypes
<1>8. CASE pc["reader"] = "empty"
           /\ Goto("reader", CASE bytesToRead # 0 -> "check"
                               [] bytesToRead = 0 /\ ~writeOpen -> "eof"
                               [] bytesToRead = 0 /\ writeOpen -> "block")
           /\ UNCHANGED <<readPos, bytesToRead, reg, got>>
  <2>1. writeOpen \in BOOLEAN
    BY DEF TypeOK
  <2>2. pc' \in [Procs -> Pcs]
    BY <1>1, <1>3, <1>8, <2>1 DEF Goto
  <2> QED BY <1>1, <1>2, <1>8, <2>2, RestTypes
<1> QED BY <1>4, <1>5, <1>6, <1>7, <1>8 DEF ReadOn

LEMMA TypeStep ==
  ASSUME Base, [Next]_vars
  PROVE  TypeOK'
<1> USE DEF Procs, NoProcess, Goto, SetState, Switch, ring, ends, TypeOK
<1>0. TypeOK /\ PcsOK /\ TodoOK
  BY DEF Base
<1> USE SizeAssumption, BoundAssumption
<1>1. ASSUME NEW p \in Procs \union {NoProcess}, Tick(p) PROVE TypeOK'
  BY <1>0, <1>1 DEF Tick
<1>2. ASSUME NEW k \in 1..MaxWrite, Write(k) PROVE TypeOK'
  <2>1. pc["writer"] = "user" /\ sent + k <= MaxBytes
    BY <1>2 DEF Write
  <2>2. bytesToRead \in Int /\ sent \in Nat /\ k \in 0..PIPE_SIZE
    BY <1>0
  <2>3. Room \in Nat /\ (k > Room => Room \in 0..PIPE_SIZE /\ k - Room \in 1..MaxWrite)
    BY <2>1, <2>2, RoomProperties
  <2>4. PICK j \in 0..PIPE_SIZE : Put(j) /\ j <= k
                                 /\ todo' \in 0..MaxWrite /\ bytesToRead' \in Int
    <3>1. CASE k <= Room /\ Put(k) /\ bytesToRead' = bytesToRead + k /\ UNCHANGED todo
      BY <3>1, <2>2, <1>0
    <3>2. CASE k > Room /\ Put(Room) /\ bytesToRead' = PIPE_SIZE /\ todo' = k - Room
      BY <3>2, <2>2, <2>3
    <3> QED BY <1>2, <3>1, <3>2 DEF Write
  <2>5. data' \in [0..(PIPE_SIZE - 1) -> 0..MaxBytes] /\ sent' \in 0..MaxBytes
        /\ writePos' \in 0..(PIPE_SIZE - 1)
    BY <1>0, <2>1, <2>2, <2>4, PutTypes
  <2>6. pstate' \in [Procs -> {0, 1}] /\ waitingProcess' \in Procs \union {NoProcess}
        /\ current' \in Procs \union {NoProcess} /\ pc' \in [Procs -> Pcs]
    BY <1>0, <1>2 DEF Write, WakeUp, Await, Pcs
  <2> QED BY <1>0, <1>2, <2>4, <2>5, <2>6 DEF Write
<1>3. ASSUME ResumeWrite PROVE TypeOK'
  BY <1>0, <1>3 DEF ResumeWrite, Pcs, ResumedPcs, ClosingPcs, WriterPcs
<1>4. ASSUME WriteOn PROVE TypeOK'
  BY <1>0, <1>4, WriteOnTypes
<1>5. ASSUME Read PROVE TypeOK'
  <2>1. CASE bytesToRead # 0 /\ Take
    <3>1. got' \in Seq(0..MaxBytes) /\ readPos' \in 0..PIPE_SIZE
      BY <1>0, <2>1, TakeTypes
    <3>2. pstate' \in [Procs -> {0, 1}] /\ waitingProcess' \in Procs \union {NoProcess}
          /\ bytesToRead' \in Int /\ UNCHANGED <<pc, current>>
      BY <1>0, <1>5, <2>1 DEF Read, WakeUp
    <3> QED BY <1>0, <1>5, <3>1, <3>2 DEF Read
  <2>2. CASE bytesToRead = 0
    BY <1>0, <1>5, <2>2 DEF Read, Await, Pcs
  <2> QED BY <1>5, <2>1, <2>2 DEF Read
<1>6. ASSUME ResumeRead PROVE TypeOK'
  BY <1>0, <1>6 DEF ResumeRead, Pcs, ResumedPcs, ClosingPcs, ReaderPcs
<1>7. ASSUME ReadOn PROVE TypeOK'
  BY <1>0, <1>7, ReadOnTypes
<1>8. ASSUME NEW p \in Procs, BlockOn(p) PROVE TypeOK'
  BY <1>0, <1>8 DEF BlockOn, Pcs, ResumedPcs, ClosingPcs
<1>9. ASSUME NEW p \in Procs, WakeOn(p) PROVE TypeOK'
  BY <1>0, <1>9 DEF WakeOn, Pcs, ResumedPcs, ClosingPcs, Returns, ReaderPcs
<1>10. ASSUME NEW p \in Procs, Exit(p) PROVE TypeOK'
  BY <1>0, <1>10 DEF Exit, Pcs, CloseFdPipe, CloseEnd, LastClosed, WakeUp, Forgotten
<1>11. ASSUME NEW p \in Procs, KillPid(p) PROVE TypeOK'
  BY <1>0, <1>11 DEF KillPid, Pcs, Forgotten
<1>12. CASE UNCHANGED vars
  BY <1>0, <1>12 DEF vars
<1>13. ASSUME ExitOfRead PROVE TypeOK'
  BY <1>0, <1>13 DEF ExitOfRead, CloseEnd, Pcs, ResumedPcs, ClosingPcs
<1>14. ASSUME CloseOn PROVE TypeOK'
  <2>1. pc' \in [Procs -> Pcs] /\ pstate' \in [Procs -> {0, 1}]
    BY <1>0, <1>14 DEF CloseOn, Pcs, ResumedPcs, ClosingPcs
  <2>2. waitingProcess' \in Procs \union {NoProcess} /\ current' \in Procs \union {NoProcess}
    BY <1>0, <1>14 DEF CloseOn, Forgotten
  <2>3. freed' \in BOOLEAN
    BY <1>0, <1>14 DEF CloseOn, LastClosed
  <2>4. UNCHANGED <<ring, readOpen, writeOpen, fd, todo, reg, sent, got, kills, hits, cut>>
    BY <1>14 DEF CloseOn
  <2> HIDE DEF TypeOK
  <2> QED BY <1>0, <2>1, <2>2, <2>3, <2>4 DEF TypeOK
<1> QED
  BY <1>1, <1>2, <1>3, <1>4, <1>5, <1>6, <1>7, <1>8, <1>9, <1>10, <1>11, <1>12,
     <1>13, <1>14
  DEF Next, Step

LEMMA PcsStep ==
  ASSUME Base, [Next]_vars
  PROVE  PcsOK'
<1> USE DEF Procs, NoProcess, Goto, Switch, PcsOK
<1>0. PcsOK /\ pc \in [Procs -> Pcs] /\ current \in Procs \union {NoProcess}
  BY DEF Base, TypeOK
<1>1. ASSUME NEW p \in Procs \union {NoProcess}, Tick(p) PROVE PcsOK'
  BY <1>0, <1>1 DEF Tick, Dispatchable, WriterPcs, ReaderPcs, ClosingPcs
<1>2. ASSUME NEW k \in 1..MaxWrite, Write(k) PROVE PcsOK'
  BY <1>0, <1>2 DEF Write, WakeUp, Await, WriterPcs, ReaderPcs, ClosingPcs
<1>3. ASSUME ResumeWrite PROVE PcsOK'
  BY <1>0, <1>3 DEF ResumeWrite, WriterPcs, ReaderPcs, ClosingPcs
<1>4. ASSUME WriteOn PROVE PcsOK'
  BY <1>0, <1>4 DEF WriteOn, WriterPcs, ReaderPcs, ClosingPcs
<1>5. ASSUME Read PROVE PcsOK'
  BY <1>0, <1>5 DEF Read, WakeUp, Await, WriterPcs, ReaderPcs, ClosingPcs
<1>6. ASSUME ResumeRead PROVE PcsOK'
  BY <1>0, <1>6 DEF ResumeRead, WriterPcs, ReaderPcs, ClosingPcs
<1>7. ASSUME ReadOn PROVE PcsOK'
  BY <1>0, <1>7 DEF ReadOn, WriterPcs, ReaderPcs, ClosingPcs
<1>8. ASSUME NEW p \in Procs, BlockOn(p) PROVE PcsOK'
  BY <1>0, <1>8 DEF BlockOn, WriterPcs, ReaderPcs, ClosingPcs
<1>9. ASSUME NEW p \in Procs, WakeOn(p) PROVE PcsOK'
  BY <1>0, <1>9 DEF WakeOn, Returns, WriterPcs, ReaderPcs, ClosingPcs
<1>10. ASSUME NEW p \in Procs, Exit(p) PROVE PcsOK'
  BY <1>0, <1>10
  DEF Exit, CloseFdPipe, CloseEnd, LastClosed, WakeUp, Forgotten, ClosingWakes,
      WriterPcs,
      ReaderPcs, ClosingPcs
<1>11. ASSUME NEW p \in Procs, KillPid(p) PROVE PcsOK'
  BY <1>0, <1>11 DEF KillPid, Forgotten, WriterPcs, ReaderPcs, ClosingPcs
<1>12. CASE UNCHANGED vars
  BY <1>0, <1>12 DEF vars, WriterPcs, ReaderPcs, ClosingPcs
<1>13. ASSUME ExitOfRead PROVE PcsOK'
  BY <1>0, <1>13 DEF ExitOfRead, CloseEnd, WriterPcs, ReaderPcs, ClosingPcs
<1>14. ASSUME CloseOn PROVE PcsOK'
  BY <1>0, <1>14
  DEF CloseOn, LastClosed, ClosingWakes, Forgotten, WriterPcs, ReaderPcs, ClosingPcs
<1> QED
  BY <1>1, <1>2, <1>3, <1>4, <1>5, <1>6, <1>7, <1>8, <1>9, <1>10, <1>11, <1>12,
     <1>13, <1>14
  DEF Next, Step

LEMMA TodoStep ==
  ASSUME Base, [Next]_vars
  PROVE  TodoOK'
<1> USE DEF Procs, NoProcess, Goto, Switch, TodoOK, TypeOK
<1>0. TodoOK /\ PcsOK /\ TypeOK
  BY DEF Base
<1> USE SizeAssumption, BoundAssumption
<1>1. ASSUME NEW p \in Procs \union {NoProcess}, Tick(p) PROVE TodoOK'
  BY <1>0, <1>1 DEF Tick, WriterPcs, ReaderPcs, ClosingPcs, PcsOK, Put, Take
<1>2. ASSUME NEW k \in 1..MaxWrite, Write(k) PROVE TodoOK'
  <2>1. CASE k <= Room /\ UNCHANGED pc
    BY <1>2, <2>1 DEF Write, WriterPcs
  <2>2. CASE k > Room /\ Put(Room) /\ todo' = k - Room
    <3>1. sent + k <= MaxBytes /\ sent \in Nat /\ bytesToRead \in Int
      BY <1>0, <1>2 DEF Write
    <3>2. Room \in Nat /\ k - Room \in 1..MaxWrite
      BY <2>2, <3>1, RoomProperties
    <3>3. sent' = sent + Room
      BY <2>2 DEF Put
    <3> QED BY <2>2, <3>1, <3>2, <3>3
  <2> QED BY <1>2, <2>1, <2>2 DEF Write
<1>3. ASSUME ResumeWrite PROVE TodoOK'
  BY <1>0, <1>3 DEF ResumeWrite, WriterPcs, ReaderPcs, ClosingPcs, PcsOK, Put, Take
<1>4. ASSUME WriteOn PROVE TodoOK'
  <2>1. CASE pc["writer"] = "put" /\ sent' = sent + 1 /\ todo' = todo - 1
             /\ Goto("writer", "load")
    BY <1>0, <2>1 DEF WriterPcs, PcsOK
  <2>2. CASE pc["writer"] \in {"load", "add", "full"} /\ UNCHANGED <<sent, todo>>
    BY <1>0, <1>4, <2>2 DEF WriteOn, WriterPcs, PcsOK
  <2> QED BY <1>4, <2>1, <2>2 DEF WriteOn, Put
<1>5. ASSUME Read PROVE TodoOK'
  BY <1>0, <1>5 DEF Read, WakeUp, Await, WriterPcs, ReaderPcs, ClosingPcs, PcsOK, Put,
                    Take
<1>6. ASSUME ResumeRead PROVE TodoOK'
  BY <1>0, <1>6 DEF ResumeRead, WriterPcs, ReaderPcs, ClosingPcs, PcsOK, Put, Take
<1>7. ASSUME ReadOn PROVE TodoOK'
  BY <1>0, <1>7 DEF ReadOn, WriterPcs, ReaderPcs, ClosingPcs, PcsOK, Put, Take
<1>8. ASSUME NEW p \in Procs, BlockOn(p) PROVE TodoOK'
  BY <1>0, <1>8 DEF BlockOn, WriterPcs, ReaderPcs, ClosingPcs, PcsOK, Put, Take
<1>9. ASSUME NEW p \in Procs, WakeOn(p) PROVE TodoOK'
  BY <1>0, <1>9 DEF WakeOn, Returns, WriterPcs, ReaderPcs, ClosingPcs, PcsOK, Put, Take
<1>10. ASSUME NEW p \in Procs, Exit(p) PROVE TodoOK'
  BY <1>0, <1>10
  DEF Exit, CloseFdPipe, CloseEnd, LastClosed, WakeUp, Forgotten, ClosingWakes,
      WriterPcs,
      ReaderPcs, ClosingPcs, PcsOK, Put, Take
<1>11. ASSUME NEW p \in Procs, KillPid(p) PROVE TodoOK'
  BY <1>0, <1>11 DEF KillPid, Forgotten, WriterPcs, ReaderPcs, ClosingPcs, PcsOK, Put,
                     Take
<1>12. CASE UNCHANGED vars
  BY <1>0, <1>12 DEF vars, WriterPcs, ReaderPcs, ClosingPcs, PcsOK, Put, Take
<1>13. ASSUME ExitOfRead PROVE TodoOK'
  BY <1>0, <1>13 DEF ExitOfRead, CloseEnd, WriterPcs, ClosingPcs
<1>14. ASSUME CloseOn PROVE TodoOK'
  BY <1>0, <1>14
  DEF CloseOn, LastClosed, ClosingWakes, Forgotten, WriterPcs, ClosingPcs
<1> QED
  BY <1>1, <1>2, <1>3, <1>4, <1>5, <1>6, <1>7, <1>8, <1>9, <1>10, <1>11, <1>12,
     <1>13, <1>14
  DEF Next, Step

LEMMA EndsStep ==
  ASSUME Base, [Next]_vars
  PROVE  EndsOK'
<1> USE DEF Procs, NoProcess, Goto, Switch, ends, TypeOK, PcsOK
<1>0. EndsOK /\ PcsOK /\ TypeOK
  BY DEF Base
<1> USE DEF EndsOK, EndsOf
<1>1. ASSUME NEW p \in Procs \union {NoProcess}, Tick(p) PROVE EndsOK'
  BY <1>0, <1>1 DEF Tick, WriterPcs, ReaderPcs, ClosingPcs
<1>2. ASSUME NEW k \in 1..MaxWrite, Write(k) PROVE EndsOK'
  BY <1>0, <1>2 DEF Write, WakeUp, Await, WriterPcs, ReaderPcs, ClosingPcs
<1>3. ASSUME ResumeWrite PROVE EndsOK'
  BY <1>0, <1>3 DEF ResumeWrite, WriterPcs, ReaderPcs, ClosingPcs
<1>4. ASSUME WriteOn PROVE EndsOK'
  BY <1>0, <1>4 DEF WriteOn, WriterPcs, ReaderPcs, ClosingPcs
<1>5. ASSUME Read PROVE EndsOK'
  BY <1>0, <1>5 DEF Read, WakeUp, Await, WriterPcs, ReaderPcs, ClosingPcs
<1>6. ASSUME ResumeRead PROVE EndsOK'
  BY <1>0, <1>6 DEF ResumeRead, WriterPcs, ReaderPcs, ClosingPcs
<1>7. ASSUME ReadOn PROVE EndsOK'
  BY <1>0, <1>7 DEF ReadOn, WriterPcs, ReaderPcs, ClosingPcs
<1>8. ASSUME NEW p \in Procs, BlockOn(p) PROVE EndsOK'
  BY <1>0, <1>8 DEF BlockOn, WriterPcs, ReaderPcs, ClosingPcs
<1>9. ASSUME NEW p \in Procs, WakeOn(p) PROVE EndsOK'
  BY <1>0, <1>9 DEF WakeOn, Returns, WriterPcs, ReaderPcs, ClosingPcs
<1>10. ASSUME NEW p \in Procs, Exit(p) PROVE EndsOK'
  <2>1. CASE p = "reader"
    <3>1. /\ readOpen' = FALSE /\ writeOpen' = writeOpen /\ UNCHANGED <<fd, kills, cut>>
          /\ freed' = (freed \/ ~writeOpen) /\ pc' = [pc EXCEPT !["reader"] = "dead"]
          /\ current = "reader"
      BY <1>0, <1>10, <2>1 DEF Exit, CloseFdPipe, CloseEnd, LastClosed
    <3> QED BY <1>0, <3>1 DEF ClosingPcs, Pcs
  <2>2. CASE p = "writer"
    <3>1. /\ readOpen' = (readOpen /\ ~fd.readable)
          /\ writeOpen' = (writeOpen /\ (fd.readable \/ ~fd.writable))
          /\ UNCHANGED <<fd, kills, cut>> /\ pc' = [pc EXCEPT !["writer"] = "dead"]
          /\ freed' = \/ freed
                      \/ fd.readable /\ ~writeOpen
                      \/ ~fd.readable /\ fd.writable /\ ~readOpen
      BY <1>0, <1>10, <2>2 DEF Exit, CloseFdPipe, CloseEnd, LastClosed
    <3>2. pc["writer"] \in {"user", "eof"}
      BY <1>0, <1>10, <2>2 DEF Exit
    <3> QED BY <1>0, <3>1, <3>2 DEF Intact, ClosingPcs
  <2> QED BY <2>1, <2>2
<1>11. ASSUME NEW p \in Procs, KillPid(p) PROVE EndsOK'
  BY <1>0, <1>11 DEF KillPid, Forgotten, WriterPcs, ReaderPcs, ClosingPcs
<1>12. CASE UNCHANGED vars
  BY <1>0, <1>12 DEF vars, WriterPcs, ReaderPcs, ClosingPcs
<1>13. ASSUME ExitOfRead PROVE EndsOK'
  BY <1>0, <1>13 DEF ExitOfRead, CloseEnd, ClosingPcs, Intact
<1>14. ASSUME CloseOn PROVE EndsOK'
  BY <1>0, <1>14
  DEF CloseOn, LastClosed, ClosingWakes, Forgotten, ClosingPcs
<1> QED
  BY <1>1, <1>2, <1>3, <1>4, <1>5, <1>6, <1>7, <1>8, <1>9, <1>10, <1>11, <1>12,
     <1>13, <1>14
  DEF Next, Step

LEMMA WaiterStep ==
  ASSUME Base, [Next]_vars
  PROVE  WaiterIsAlive'
<1> USE DEF Procs, NoProcess, Goto, Switch, ends, WaiterIsAlive
<1>0. WaiterIsAlive /\ PcsOK /\ pc \in [Procs -> Pcs]
  BY DEF Base, TypeOK
<1>1. ASSUME NEW p \in Procs \union {NoProcess}, Tick(p) PROVE WaiterIsAlive'
  BY <1>0, <1>1 DEF Tick, PcsOK, WriterPcs, ReaderPcs, ClosingPcs
<1>2. ASSUME NEW k \in 1..MaxWrite, Write(k) PROVE WaiterIsAlive'
  BY <1>0, <1>2 DEF Write, WakeUp, Await, PcsOK, WriterPcs, ReaderPcs, ClosingPcs
<1>3. ASSUME ResumeWrite PROVE WaiterIsAlive'
  BY <1>0, <1>3 DEF ResumeWrite, PcsOK, WriterPcs, ReaderPcs, ClosingPcs
<1>4. ASSUME WriteOn PROVE WaiterIsAlive'
  BY <1>0, <1>4 DEF WriteOn, PcsOK, WriterPcs, ReaderPcs, ClosingPcs
<1>5. ASSUME Read PROVE WaiterIsAlive'
  BY <1>0, <1>5 DEF Read, WakeUp, Await, PcsOK, WriterPcs, ReaderPcs, ClosingPcs
<1>6. ASSUME ResumeRead PROVE WaiterIsAlive'
  BY <1>0, <1>6 DEF ResumeRead, PcsOK, WriterPcs, ReaderPcs, ClosingPcs
<1>7. ASSUME ReadOn PROVE WaiterIsAlive'
  BY <1>0, <1>7 DEF ReadOn, PcsOK, WriterPcs, ReaderPcs, ClosingPcs
<1>8. ASSUME NEW p \in Procs, BlockOn(p) PROVE WaiterIsAlive'
  BY <1>0, <1>8 DEF BlockOn, PcsOK, WriterPcs, ReaderPcs, ClosingPcs
<1>9. ASSUME NEW p \in Procs, WakeOn(p) PROVE WaiterIsAlive'
  BY <1>0, <1>9 DEF WakeOn, Returns, PcsOK, WriterPcs, ReaderPcs, ClosingPcs
<1>10. ASSUME NEW p \in Procs, Exit(p) PROVE WaiterIsAlive'
  BY <1>0, <1>10
  DEF Exit, CloseFdPipe, CloseEnd, LastClosed, WakeUp, Forgotten, ClosingWakes, PcsOK,
      WriterPcs,
      ReaderPcs, ClosingPcs
<1>11. ASSUME NEW p \in Procs, KillPid(p) PROVE WaiterIsAlive'
  BY <1>0, <1>11 DEF KillPid, Forgotten, PcsOK, WriterPcs, ReaderPcs, ClosingPcs
<1>12. CASE UNCHANGED vars
  BY <1>0, <1>12 DEF vars, PcsOK, WriterPcs, ReaderPcs, ClosingPcs
<1>13. ASSUME ExitOfRead PROVE WaiterIsAlive'
  BY <1>0, <1>13 DEF ExitOfRead, CloseEnd, PcsOK, ClosingPcs
<1>14. ASSUME CloseOn PROVE WaiterIsAlive'
  BY <1>0, <1>14
  DEF CloseOn, LastClosed, ClosingWakes, Forgotten, PcsOK, ClosingPcs
<1> QED
  BY <1>1, <1>2, <1>3, <1>4, <1>5, <1>6, <1>7, <1>8, <1>9, <1>10, <1>11, <1>12,
     <1>13, <1>14
  DEF Next, Step

-----------------------------------------------------------------------------
(* Until the timer hits a resumed call                                     *)

\* Such a call was not hit before a step if it was not hit after it.
LEMMA StillUndisturbed ==
  ASSUME IInv, [Next]_vars, hits' = 0
  PROVE  hits = 0 /\ Undisturbed /\ Base
<1>1. TypeOK
  BY DEF IInv
<1>2. hits = 0
  BY <1>1 DEF TypeOK, Next, Step, Tick, Write, ResumeWrite, WriteOn, Read, ResumeRead,
              ReadOn, BlockOn, WakeOn, Exit, ExitOfRead, CloseOn, KillPid, vars
<1> QED BY <1>2 DEF IInv, Base

LEMMA TakeLength ==
  ASSUME got \in Seq(0..MaxBytes), sent \in Int, Take, UNCHANGED sent
  PROVE  /\ Len(got') = Len(got) + 1 /\ Len(got) \in Nat /\ Unread' = Unread - 1
         /\ Unread \in Int
<1>1. PICK x : got' = Append(got, x)
  BY DEF Take
<1>2. Len(got') = Len(got) + 1 /\ Len(got) \in Nat
  BY <1>1
<1> QED BY <1>2 DEF Unread

\* Steps that leave the ring alone.
LEMMA RingUnchanged ==
  ASSUME RingOK, Delivered, UNCHANGED <<data, readPos, writePos, sent, got>>,
  Kept' => Kept
  PROVE  RingOK' /\ Delivered'
BY DEF RingOK, Delivered, Slot, NextReadPos, ring

\* Storing bytes for which there is room, or which nobody will read.
LEMMA PutRing ==
  ASSUME TypeOK, RingOK, Delivered, Unread >= 0, NEW k \in 0..PIPE_SIZE, Put(k),
         UNCHANGED <<readPos, got>>, Kept' => Kept, Kept => Unread + k <= PIPE_SIZE
  PROVE  RingOK' /\ Delivered' /\ Unread' = Unread + k
<1>0. /\ PIPE_SIZE \in Nat \ {0} /\ k \in Nat /\ sent \in Nat /\ Len(got) \in Nat
      /\ writePos \in 0..(PIPE_SIZE - 1) /\ readPos \in 0..PIPE_SIZE
  BY SizeAssumption DEF TypeOK
<1>1. /\ sent' = sent + k
      /\ writePos' = IF writePos + k < PIPE_SIZE THEN writePos + k
                     ELSE writePos + k - PIPE_SIZE
      /\ data' = [i \in 0..(PIPE_SIZE - 1) |->
                    IF writePos <= i /\ i < writePos + k
                    THEN sent + (i - writePos + 1)
                    ELSE IF i + PIPE_SIZE < writePos + k
                    THEN sent + (i + PIPE_SIZE - writePos + 1)
                    ELSE data[i]]
  BY <1>0, PutProperties DEF TypeOK
<1>2. Unread' = Unread + k
  BY <1>0, <1>1 DEF Unread
<1>3. Delivered'
  BY DEF Delivered
<1>4. ASSUME Kept' PROVE NextReadPos' = Slot(Len(got) + 1)'
  <2>1. NextReadPos = Slot(Len(got) + 1) /\ NextReadPos' = NextReadPos
    BY <1>4 DEF RingOK, NextReadPos
  <2>2. Unread + k <= PIPE_SIZE /\ Unread = sent - Len(got)
    BY <1>4 DEF Unread
  <2>3. Slot(Len(got) + 1)' = Slot(Len(got) + 1)
    BY <1>0, <1>1, <2>2 DEF Slot, Unread
  <2> QED BY <2>1, <2>3
<1>5. ASSUME Kept', NEW n \in (Len(got) + 1)..sent' PROVE data'[Slot(n)'] = n
  <2>1. Unread + k <= PIPE_SIZE /\ n \in Int /\ sent - Len(got) >= 0
        /\ sent + k - Len(got) <= PIPE_SIZE
    BY <1>0, <1>1, <1>4, <1>5 DEF Unread
  <2>2. CASE n <= sent
    <3>1. data[Slot(n)] = n
      BY <1>5, <2>1, <2>2, <1>0 DEF RingOK
    <3>2. Slot(n)' = Slot(n) /\ Slot(n) \in 0..(PIPE_SIZE - 1)
      BY <1>0, <1>1, <1>5, <2>1, <2>2 DEF Slot
    <3>3. ~(writePos <= Slot(n) /\ Slot(n) < writePos + k)
          /\ ~(Slot(n) + PIPE_SIZE < writePos + k)
      BY <1>0, <1>1, <1>5, <2>1, <2>2 DEF Slot
    <3> QED BY <1>1, <3>1, <3>2, <3>3
  <2>3. CASE n > sent
    <3>1. Slot(n)' \in 0..(PIPE_SIZE - 1)
      BY <1>0, <1>1, <1>5, <2>1, <2>3 DEF Slot
    <3>2. CASE writePos + (n - sent - 1) < PIPE_SIZE
      <4>1. Slot(n)' = writePos + (n - sent - 1)
        BY <1>0, <1>1, <1>5, <2>1, <2>3, <3>2 DEF Slot
      <4>2. writePos <= Slot(n)' /\ Slot(n)' < writePos + k
            /\ sent + (Slot(n)' - writePos + 1) = n
        BY <1>0, <1>1, <1>5, <2>1, <2>3, <4>1
      <4> QED BY <1>1, <3>1, <4>2
    <3>3. CASE ~(writePos + (n - sent - 1) < PIPE_SIZE)
      <4>1. Slot(n)' = writePos + (n - sent - 1) - PIPE_SIZE
        BY <1>0, <1>1, <1>5, <2>1, <2>3, <3>3 DEF Slot
      <4>2. ~(writePos <= Slot(n)') /\ Slot(n)' + PIPE_SIZE < writePos + k
            /\ sent + (Slot(n)' + PIPE_SIZE - writePos + 1) = n
        BY <1>0, <1>1, <1>5, <2>1, <2>3, <4>1
      <4> QED BY <1>1, <3>1, <4>2
    <3> QED BY <3>2, <3>3
  <2> QED BY <2>2, <2>3, <2>1, <1>0
<1> QED BY <1>2, <1>3, <1>4, <1>5 DEF RingOK

\* Taking the oldest unread byte.
LEMMA TakeRing ==
  ASSUME TypeOK, RingOK, Delivered, Kept, Unread >= 1, Unread <= PIPE_SIZE, Take,
         UNCHANGED <<data, writePos, sent>>
  PROVE  RingOK' /\ Delivered'
<1>0. /\ PIPE_SIZE \in Nat \ {0} /\ sent \in Nat /\ Len(got) \in Nat
      /\ writePos \in 0..(PIPE_SIZE - 1) /\ readPos \in 0..PIPE_SIZE
      /\ DOMAIN data = 0..(PIPE_SIZE - 1) /\ got \in Seq(0..MaxBytes)
  BY SizeAssumption DEF TypeOK
<1>1. sent - Len(got) >= 1 /\ sent - Len(got) <= PIPE_SIZE
  BY DEF Unread
<1>2. NextReadPos = Slot(Len(got) + 1) /\ Slot(Len(got) + 1) \in 0..(PIPE_SIZE - 1)
  BY <1>0, <1>1 DEF RingOK, Slot
<1>3. data[NextReadPos] = Len(got) + 1
  BY <1>0, <1>1, <1>2 DEF RingOK
<1>4. got' = Append(got, Len(got) + 1) /\ readPos' = NextReadPos + 1
  BY <1>0, <1>2, <1>3 DEF Take
<1>5. /\ Len(got') = Len(got) + 1
      /\ \A i \in 1..Len(got') : got'[i] = IF i <= Len(got) THEN got[i] ELSE Len(got) + 1
  BY <1>0, <1>4
<1>6. Delivered'
  BY <1>0, <1>5 DEF Delivered
<1>7. NextReadPos' = IF NextReadPos + 1 = PIPE_SIZE THEN 0 ELSE NextReadPos + 1
  BY <1>4 DEF NextReadPos
<1>8. Slot(Len(got) + 2) = IF NextReadPos + 1 = PIPE_SIZE THEN 0 ELSE NextReadPos + 1
  <2> DEFINE x == NextReadPos
  <2>1. x = IF writePos - (sent - Len(got)) < 0 THEN writePos - (sent - Len(got)) + PIPE_SIZE
            ELSE writePos - (sent - Len(got))
    BY <1>0, <1>1, <1>2 DEF Slot
  <2>2. Slot(Len(got) + 2) = IF writePos - (sent - Len(got)) + 1 < 0
                             THEN writePos - (sent - Len(got)) + 1 + PIPE_SIZE
                             ELSE writePos - (sent - Len(got)) + 1
    BY <1>0 DEF Slot
  <2> HIDE DEF x
  <2>3. Slot(Len(got) + 2) = IF x + 1 = PIPE_SIZE THEN 0 ELSE x + 1
    <3> DEFINE d == writePos - (sent - Len(got))
    <3>1. d \in Int /\ d >= - PIPE_SIZE /\ d < PIPE_SIZE - 1
      BY <1>0, <1>1
    <3>2. /\ x = IF d < 0 THEN d + PIPE_SIZE ELSE d
          /\ Slot(Len(got) + 2) = IF d + 1 < 0 THEN d + 1 + PIPE_SIZE ELSE d + 1
      BY <2>1, <2>2
    <3> HIDE DEF d
    <3> QED BY <1>0, <3>1, <3>2
  <2> QED BY <2>3 DEF x
<1>9. Slot(Len(got) + 1)' = Slot(Len(got) + 2)
  BY <1>0, <1>5 DEF Slot
<1>10. \A n \in (Len(got') + 1)..sent' : data'[Slot(n)'] = n
  <2>1. \A n \in (Len(got') + 1)..sent' :
          n \in (Len(got) + 1)..sent /\ Slot(n)' = Slot(n)
    BY <1>0, <1>5 DEF Slot
  <2> QED BY <2>1 DEF RingOK
<1> QED BY <1>6, <1>7, <1>8, <1>9, <1>10, Zenon DEF RingOK
-----------------------------------------------------------------------------
(* One step until the timer hits a resumed call                            *)

\* The invariant where no resumed call was hit.
Quiet == hits = 0 /\ Base /\ Undisturbed

LEMMA QuietFacts ==
  ASSUME Quiet
  PROVE  /\ TypeOK /\ PcsOK /\ EndsOK /\ Alone /\ WaiterOK /\ Counted /\ WaitsRightly
         /\ RoomOK /\ RingOK /\ Delivered /\ hits = 0
         /\ PIPE_SIZE \in Nat \ {0} /\ sent \in Nat /\ Len(got) \in Nat /\ Unread \in Int
         /\ bytesToRead \in Int /\ todo \in 0..PIPE_SIZE
         /\ pc \in [Procs -> Pcs] /\ reg \in [Procs -> Int] /\ pstate \in [Procs -> {0, 1}]
BY SizeAssumption DEF Quiet, Base, Undisturbed, TypeOK, Unread

\* The writer goes on behind its sleep.
LEMMA ResumeWriteQuiet ==
  ASSUME Quiet, ResumeWrite
  PROVE  Undisturbed'
<1>1. /\ pc["writer"] = "asleep"
      /\ current = "writer"
      /\ UNCHANGED <<readOpen, pstate, waitingProcess, current>>
      /\ UNCHANGED <<data, readPos, writePos, sent, got>>
      /\ UNCHANGED <<bytesToRead, reg, todo>>
      /\ pc' = [pc EXCEPT !["writer"] = "put"]
  BY QuietFacts DEF ResumeWrite, Goto, SetState, Switch, ring, ends, Procs
<1>2. Unread' = Unread
  BY QuietFacts, <1>1 DEF Unread
<1> USE QuietFacts
    DEF Procs, NoProcess, Alone, PcsOK, ResumedPcs, WriterPcs, ReaderPcs, ClosingPcs
<1>3. Alone'
  BY <1>1
<1>4. WaiterOK'
  BY <1>1 DEF WaiterOK, Counted, WaitsRightly
<1>5. Counted'
  BY <1>1, <1>2 DEF Counted
<1>6. WaitsRightly'
  BY <1>1, <1>2 DEF WaitsRightly, WaiterOK, Counted
<1>7. RoomOK'
  BY <1>1, <1>2 DEF RoomOK, Kept, Counted
<1>8. RingOK' /\ Delivered'
  BY <1>1, <1>2, RingUnchanged DEF Kept
<1> QED BY <1>3, <1>4, <1>5, <1>6, <1>7, <1>8 DEF Undisturbed

\* The resumed writer stores a byte.
LEMMA PutQuiet ==
  ASSUME Quiet, WriteOn, pc["writer"] = "put"
  PROVE  Undisturbed'
<1>1. /\ Put(1)
      /\ todo' = todo - 1
      /\ pc["writer"] = "put"
      /\ current = "writer"
      /\ UNCHANGED <<readOpen, pstate, waitingProcess, current>>
      /\ UNCHANGED <<bytesToRead, reg, readPos, got>>
      /\ pc' = [pc EXCEPT !["writer"] = "load"]
  BY QuietFacts DEF WriteOn, Goto, SetState, Switch, ring, ends, Procs
<1>2. RingOK' /\ Delivered' /\ Unread' = Unread + 1
  BY QuietFacts, <1>1, PutRing
  DEF Counted, RoomOK, Alone, PcsOK, ResumedPcs, ClosingPcs, ReaderPcs, Procs, Kept
<1> USE QuietFacts
    DEF Procs, NoProcess, Alone, PcsOK, ResumedPcs, WriterPcs, ReaderPcs, ClosingPcs
<1>3. Alone'
  BY <1>1
<1>4. WaiterOK'
  BY <1>1 DEF WaiterOK, Counted, WaitsRightly
<1>5. Counted'
  BY <1>1, <1>2 DEF Counted
<1>6. WaitsRightly'
  BY <1>1, <1>2 DEF WaitsRightly, WaiterOK, Counted
<1>7. RoomOK'
  BY <1>1, <1>2 DEF RoomOK, Kept, Counted
<1>8. RingOK' /\ Delivered'
  BY <1>2, Zenon
<1> QED BY <1>3, <1>4, <1>5, <1>6, <1>7, <1>8 DEF Undisturbed

\* It loads bytesToRead.
LEMMA LoadQuiet ==
  ASSUME Quiet, WriteOn, pc["writer"] = "load"
  PROVE  Undisturbed'
<1>1. /\ reg' = [reg EXCEPT !["writer"] = bytesToRead]
      /\ pc["writer"] = "load"
      /\ current = "writer"
      /\ UNCHANGED <<readOpen, pstate, waitingProcess, current>>
      /\ UNCHANGED <<data, readPos, writePos, sent, got>>
      /\ UNCHANGED <<bytesToRead, todo>>
      /\ pc' = [pc EXCEPT !["writer"] = "add"]
  BY QuietFacts DEF WriteOn, Goto, SetState, Switch, ring, ends, Procs
<1>2. Unread' = Unread
  BY QuietFacts, <1>1 DEF Unread
<1> USE QuietFacts
    DEF Procs, NoProcess, Alone, PcsOK, ResumedPcs, WriterPcs, ReaderPcs, ClosingPcs
<1>3. Alone'
  BY <1>1
<1>4. WaiterOK'
  BY <1>1 DEF WaiterOK, Counted, WaitsRightly
<1>5. Counted'
  BY <1>1, <1>2 DEF Counted
<1>6. WaitsRightly'
  BY <1>1, <1>2 DEF WaitsRightly, WaiterOK, Counted
<1>7. RoomOK'
  BY <1>1, <1>2 DEF RoomOK, Kept, Counted
<1>8. RingOK' /\ Delivered'
  BY <1>1, <1>2, RingUnchanged DEF Kept
<1> QED BY <1>3, <1>4, <1>5, <1>6, <1>7, <1>8 DEF Undisturbed

\* It stores what it has loaded, plus one.
LEMMA AddQuiet ==
  ASSUME Quiet, WriteOn, pc["writer"] = "add"
  PROVE  Undisturbed'
<1>1. /\ bytesToRead' = reg["writer"] + 1
      /\ pc["writer"] = "add"
      /\ current = "writer"
      /\ UNCHANGED <<readOpen, pstate, waitingProcess, current>>
      /\ UNCHANGED <<data, readPos, writePos, sent, got>>
      /\ UNCHANGED <<reg, todo>>
      /\ pc' = [pc EXCEPT !["writer"] = IF todo = 0 THEN "wake" ELSE "full"]
  BY QuietFacts DEF WriteOn, Goto, SetState, Switch, ring, ends, Procs
<1>2. Unread' = Unread
  BY QuietFacts, <1>1 DEF Unread
<1> USE QuietFacts
    DEF Procs, NoProcess, Alone, PcsOK, ResumedPcs, WriterPcs, ReaderPcs, ClosingPcs
<1>3. Alone'
  BY <1>1
<1>4. WaiterOK'
  BY <1>1 DEF WaiterOK, Counted, WaitsRightly
<1>5. Counted'
  BY <1>1, <1>2 DEF Counted
<1>6. WaitsRightly'
  BY <1>1, <1>2 DEF WaitsRightly, WaiterOK, Counted
<1>7. RoomOK'
  BY <1>1, <1>2 DEF RoomOK, Kept, Counted
<1>8. RingOK' /\ Delivered'
  BY <1>1, <1>2, RingUnchanged DEF Kept
<1> QED BY <1>3, <1>4, <1>5, <1>6, <1>7, <1>8 DEF Undisturbed

\* It looks for room.
LEMMA FullQuiet ==
  ASSUME Quiet, WriteOn, pc["writer"] = "full"
  PROVE  Undisturbed'
<1>1. /\ pc["writer"] = "full"
      /\ current = "writer"
      /\ UNCHANGED <<readOpen, pstate, waitingProcess, current>>
      /\ UNCHANGED <<data, readPos, writePos, sent, got>>
      /\ UNCHANGED <<reg, todo, bytesToRead>>
      /\ todo >= 1
      /\ pc' = [pc EXCEPT !["writer"] = IF bytesToRead = PIPE_SIZE THEN "block" ELSE "put"]
  BY QuietFacts
  DEF WriteOn, Quiet, Base, TodoOK, Goto, SetState, Switch, ring, ends, Procs
<1>2. Unread' = Unread
  BY QuietFacts, <1>1 DEF Unread
<1> USE QuietFacts
    DEF Procs, NoProcess, Alone, PcsOK, ResumedPcs, WriterPcs, ReaderPcs, ClosingPcs
<1>3. Alone'
  BY <1>1
<1>4. WaiterOK'
  BY <1>1 DEF WaiterOK, Counted, WaitsRightly
<1>5. Counted'
  BY <1>1, <1>2 DEF Counted
<1>6. WaitsRightly'
  BY <1>1, <1>2 DEF WaitsRightly, WaiterOK, Counted
<1>7. RoomOK'
  BY <1>1, <1>2 DEF RoomOK, Kept, Counted
<1>8. RingOK' /\ Delivered'
  BY <1>1, <1>2, RingUnchanged DEF Kept
<1> QED BY <1>3, <1>4, <1>5, <1>6, <1>7, <1>8 DEF Undisturbed

LEMMA FitsProperties ==
  ASSUME Quiet, NEW k \in 1..MaxWrite, k <= Room, current = "writer",
  pc["writer"] = "user",
         Kept
  PROVE  bytesToRead + k <= PIPE_SIZE
<1>1. /\ Unread <= PIPE_SIZE /\ bytesToRead = Unread /\ bytesToRead \in Int
  BY DEF Quiet, Base, Undisturbed, RoomOK, Counted, Alone, PcsOK, ResumedPcs, WriterPcs,
         ReaderPcs, ClosingPcs, Procs, TypeOK
<1> QED BY <1>1, SizeAssumption DEF Room

\* A pipeWrite of a string that fits.
LEMMA WriteFitsQuiet ==
  ASSUME Quiet, NEW k \in 1..MaxWrite, Write(k), k <= Room
  PROVE  Undisturbed'
<1>a. current = "writer" /\ pc["writer"] = "user" /\ k \in 1..PIPE_SIZE
  BY QuietFacts, SizeAssumption DEF Write
<1>b. Kept => bytesToRead + k <= PIPE_SIZE
  BY <1>a, FitsProperties
<1>c. Room \in Nat
  BY QuietFacts, RoomProperties DEF Write
<1>1. /\ Put(k)
      /\ k \in 1..PIPE_SIZE
      /\ pc["writer"] = "user"
      /\ current = "writer"
      /\ bytesToRead' = bytesToRead + k
      /\ Kept => bytesToRead + k <= PIPE_SIZE
      /\ UNCHANGED <<reg, readPos, got, todo, readOpen, current, pc>>
      /\ waitingProcess \in Procs \union {NoProcess}
      /\ waitingProcess' = NoProcess
      /\ pstate' = IF waitingProcess = NoProcess THEN pstate
                  ELSE [pstate EXCEPT ![waitingProcess] = 1]
  BY QuietFacts, <1>a, <1>b, <1>c
  DEF Write, WakeUp, TypeOK, Goto, SetState, Switch, ring, ends, Procs
<1>2. RingOK' /\ Delivered' /\ Unread' = Unread + k
  BY QuietFacts, <1>1, PutRing
  DEF Counted, RoomOK, Alone, PcsOK, ResumedPcs, ReaderPcs, WriterPcs, ClosingPcs,
      Procs, Kept
<1> USE QuietFacts
    DEF Procs, NoProcess, Alone, PcsOK, ResumedPcs, WriterPcs, ReaderPcs, ClosingPcs
<1>3. Alone'
  BY <1>1
<1>4. WaiterOK'
  BY <1>1 DEF WaiterOK, Counted, WaitsRightly
<1>5. Counted'
  BY <1>1, <1>2 DEF Counted
<1>6. WaitsRightly'
  BY <1>1, <1>2 DEF WaitsRightly, WaiterOK, Counted
<1>7. RoomOK'
  BY <1>1, <1>2 DEF RoomOK, Kept, Counted
<1>8. RingOK' /\ Delivered'
  BY <1>2, Zenon
<1> QED BY <1>3, <1>4, <1>5, <1>6, <1>7, <1>8 DEF Undisturbed

\* A pipeWrite of a string that does not fit.
LEMMA WriteBlocksQuiet ==
  ASSUME Quiet, NEW k \in 1..MaxWrite, Write(k), k > Room
  PROVE  Undisturbed'
<1>a. /\ Room \in 0..PIPE_SIZE /\ Room = PIPE_SIZE - bytesToRead
      /\ k <= PIPE_SIZE /\ k \in Nat
  BY QuietFacts, RoomProperties, SizeAssumption DEF Write
<1>1. /\ Put(Room)
      /\ Room \in 0..PIPE_SIZE
      /\ Room = PIPE_SIZE - bytesToRead
      /\ k <= PIPE_SIZE
      /\ pc["writer"] = "user"
      /\ current = "writer"
      /\ bytesToRead' = PIPE_SIZE
      /\ UNCHANGED <<reg, readPos, got, readOpen>>
      /\ todo' = k - Room
      /\ pstate' = [pstate EXCEPT !["writer"] = 0]
      /\ waitingProcess' = "writer"
      /\ current' = NoProcess
      /\ pc' = [pc EXCEPT !["writer"] = "asleep"]
  BY <1>a DEF Write, Await, Goto, SetState, Switch, ring, ends
<1>2. RingOK' /\ Delivered' /\ Unread' = Unread + Room
  BY QuietFacts, <1>1, PutRing
  DEF Counted, RoomOK, Alone, PcsOK, ResumedPcs, ReaderPcs, WriterPcs, ClosingPcs,
      Procs, Kept
<1> USE QuietFacts
    DEF Procs, NoProcess, Alone, PcsOK, ResumedPcs, WriterPcs, ReaderPcs, ClosingPcs
<1>3. Alone'
  BY <1>1
<1>4. WaiterOK'
  BY <1>1 DEF WaiterOK, Counted, WaitsRightly
<1>5. Counted'
  BY <1>1, <1>2 DEF Counted
<1>6. WaitsRightly'
  BY <1>1, <1>2 DEF WaitsRightly, WaiterOK, Counted
<1>7. RoomOK'
  BY <1>1, <1>2 DEF RoomOK, Kept, Counted
<1>8. RingOK' /\ Delivered'
  BY <1>2, Zenon
<1> QED BY <1>3, <1>4, <1>5, <1>6, <1>7, <1>8 DEF Undisturbed

\* pipeRead finds the end.
LEMMA ReadEofQuiet ==
  ASSUME Quiet, Read, bytesToRead = 0, ~writeOpen
  PROVE  Undisturbed'
<1>1. /\ pc["reader"] = "user"
      /\ current = "reader"
      /\ UNCHANGED <<readOpen, pstate, waitingProcess, current>>
      /\ UNCHANGED <<data, readPos, writePos, sent, got>>
      /\ UNCHANGED <<reg, todo, bytesToRead>>
      /\ pc' = [pc EXCEPT !["reader"] = "eof"]
  BY QuietFacts DEF Read, Goto, SetState, Switch, ring, ends, Procs
<1>2. Unread' = Unread
  BY QuietFacts, <1>1 DEF Unread
<1> USE QuietFacts
    DEF Procs, NoProcess, Alone, PcsOK, ResumedPcs, WriterPcs, ReaderPcs, ClosingPcs
<1>3. Alone'
  BY <1>1
<1>4. WaiterOK'
  BY <1>1 DEF WaiterOK, Counted, WaitsRightly
<1>5. Counted'
  BY <1>1, <1>2 DEF Counted
<1>6. WaitsRightly'
  BY <1>1, <1>2 DEF WaitsRightly, WaiterOK, Counted
<1>7. RoomOK'
  BY <1>1, <1>2 DEF RoomOK, Kept, Counted
<1>8. RingOK' /\ Delivered'
  BY <1>1, <1>2, RingUnchanged DEF Kept
<1> QED BY <1>3, <1>4, <1>5, <1>6, <1>7, <1>8 DEF Undisturbed

\* pipeRead finds nothing yet.
LEMMA ReadBlocksQuiet ==
  ASSUME Quiet, Read, bytesToRead = 0, writeOpen
  PROVE  Undisturbed'
<1>1. /\ pc["reader"] = "user"
      /\ current = "reader"
      /\ UNCHANGED <<data, readPos, writePos, sent, got>>
      /\ UNCHANGED <<reg, todo, bytesToRead, readOpen>>
      /\ pstate' = [pstate EXCEPT !["reader"] = 0]
      /\ waitingProcess' = "reader"
      /\ current' = NoProcess
      /\ pc' = [pc EXCEPT !["reader"] = "asleep"]
  BY QuietFacts DEF Read, Await, Goto, SetState, Switch, ring, ends, Procs
<1>2. Unread' = Unread
  BY QuietFacts, <1>1 DEF Unread
<1> USE QuietFacts
    DEF Procs, NoProcess, Alone, PcsOK, ResumedPcs, WriterPcs, ReaderPcs, ClosingPcs
<1>3. Alone'
  BY <1>1
<1>4. WaiterOK'
  BY <1>1 DEF WaiterOK, Counted, WaitsRightly
<1>5. Counted'
  BY <1>1, <1>2 DEF Counted
<1>6. WaitsRightly'
  BY <1>1, <1>2 DEF WaitsRightly, WaiterOK, Counted
<1>7. RoomOK'
  BY <1>1, <1>2 DEF RoomOK, Kept, Counted
<1>8. RingOK' /\ Delivered'
  BY <1>1, <1>2, RingUnchanged DEF Kept
<1> QED BY <1>3, <1>4, <1>5, <1>6, <1>7, <1>8 DEF Undisturbed

\* pipeRead takes a byte.
LEMMA ReadQuiet ==
  ASSUME Quiet, Read, bytesToRead # 0
  PROVE  Undisturbed'
<1>1. /\ Take
      /\ pc["reader"] = "user"
      /\ current = "reader"
      /\ bytesToRead' = bytesToRead - 1
      /\ UNCHANGED <<data, writePos, sent, reg, todo, readOpen, current, pc>>
      /\ waitingProcess \in Procs \union {NoProcess}
      /\ waitingProcess' = NoProcess
      /\ pstate' = IF waitingProcess = NoProcess THEN pstate
                  ELSE [pstate EXCEPT ![waitingProcess] = 1]
  BY QuietFacts DEF Read, WakeUp, TypeOK, Goto, SetState, Switch, ring, ends, Procs
<1>2. RingOK' /\ Delivered' /\ Unread' = Unread - 1
  BY QuietFacts, <1>1, TakeLength, TakeRing
  DEF Counted, RoomOK, Alone, PcsOK, ResumedPcs, ReaderPcs, WriterPcs, ClosingPcs,
      Procs, Kept,
      TypeOK
<1> USE QuietFacts
    DEF Procs, NoProcess, Alone, PcsOK, ResumedPcs, WriterPcs, ReaderPcs, ClosingPcs
<1>3. Alone'
  BY <1>1
<1>4. WaiterOK'
  BY <1>1 DEF WaiterOK, Counted, WaitsRightly
<1>5. Counted'
  BY <1>1, <1>2 DEF Counted
<1>6. WaitsRightly'
  BY <1>1, <1>2 DEF WaitsRightly, WaiterOK, Counted
<1>7. RoomOK'
  BY <1>1, <1>2 DEF RoomOK, Kept, Counted
<1>8. RingOK' /\ Delivered'
  BY <1>2, Zenon
<1> QED BY <1>3, <1>4, <1>5, <1>6, <1>7, <1>8 DEF Undisturbed

\* The reader goes on behind its sleep.
LEMMA ResumeReadQuiet ==
  ASSUME Quiet, ResumeRead
  PROVE  Undisturbed'
<1>1. /\ pc["reader"] = "asleep"
      /\ current = "reader"
      /\ UNCHANGED <<readOpen, pstate, waitingProcess, current>>
      /\ UNCHANGED <<data, readPos, writePos, sent, got>>
      /\ UNCHANGED <<bytesToRead, reg, todo>>
      /\ pc' = [pc EXCEPT !["reader"] = "check"]
  BY QuietFacts DEF ResumeRead, Goto, SetState, Switch, ring, ends, Procs
<1>2. Unread' = Unread
  BY QuietFacts, <1>1 DEF Unread
<1> USE QuietFacts
    DEF Procs, NoProcess, Alone, PcsOK, ResumedPcs, WriterPcs, ReaderPcs, ClosingPcs
<1>3. Alone'
  BY <1>1
<1>4. WaiterOK'
  BY <1>1 DEF WaiterOK, Counted, WaitsRightly
<1>5. Counted'
  BY <1>1, <1>2 DEF Counted
<1>6. WaitsRightly'
  BY <1>1, <1>2 DEF WaitsRightly, WaiterOK, Counted
<1>7. RoomOK'
  BY <1>1, <1>2 DEF RoomOK, Kept, Counted
<1>8. RingOK' /\ Delivered'
  BY <1>1, <1>2, RingUnchanged DEF Kept
<1> QED BY <1>3, <1>4, <1>5, <1>6, <1>7, <1>8 DEF Undisturbed

\* The resumed reader looks for a byte.
LEMMA CheckQuiet ==
  ASSUME Quiet, ReadOn, pc["reader"] = "check"
  PROVE  Undisturbed'
<1>1. /\ pc["reader"] = "check"
      /\ current = "reader"
      /\ UNCHANGED <<readOpen, pstate, waitingProcess, current>>
      /\ UNCHANGED <<data, readPos, writePos, sent, got>>
      /\ UNCHANGED <<bytesToRead, todo>>
      /\ reg'["writer"] = reg["writer"]
      /\ pc' = [pc EXCEPT !["reader"] = IF bytesToRead > 0 THEN "load" ELSE "wake"]
  BY QuietFacts DEF ReadOn, Goto, SetState, Switch, ring, ends, Procs
<1>2. Unread' = Unread
  BY QuietFacts, <1>1 DEF Unread
<1> USE QuietFacts
    DEF Procs, NoProcess, Alone, PcsOK, ResumedPcs, WriterPcs, ReaderPcs, ClosingPcs
<1>3. Alone'
  BY <1>1
<1>4. WaiterOK'
  BY <1>1 DEF WaiterOK, Counted, WaitsRightly
<1>5. Counted'
  BY <1>1, <1>2 DEF Counted
<1>6. WaitsRightly'
  BY <1>1, <1>2 DEF WaitsRightly, WaiterOK, Counted
<1>7. RoomOK'
  BY <1>1, <1>2 DEF RoomOK, Kept, Counted
<1>8. RingOK' /\ Delivered'
  BY <1>1, <1>2, RingUnchanged DEF Kept
<1> QED BY <1>3, <1>4, <1>5, <1>6, <1>7, <1>8 DEF Undisturbed

\* It loads bytesToRead.
LEMMA LoadReadQuiet ==
  ASSUME Quiet, ReadOn, pc["reader"] = "load"
  PROVE  Undisturbed'
<1>1. /\ pc["reader"] = "load"
      /\ current = "reader"
      /\ UNCHANGED <<readOpen, pstate, waitingProcess, current>>
      /\ UNCHANGED <<data, readPos, writePos, sent, got>>
      /\ UNCHANGED <<bytesToRead, todo>>
      /\ reg' = [reg EXCEPT !["reader"] = bytesToRead]
      /\ pc' = [pc EXCEPT !["reader"] = "sub"]
  BY QuietFacts DEF ReadOn, Goto, SetState, Switch, ring, ends, Procs
<1>2. Unread' = Unread
  BY QuietFacts, <1>1 DEF Unread
<1> USE QuietFacts
    DEF Procs, NoProcess, Alone, PcsOK, ResumedPcs, WriterPcs, ReaderPcs, ClosingPcs
<1>3. Alone'
  BY <1>1
<1>4. WaiterOK'
  BY <1>1 DEF WaiterOK, Counted, WaitsRightly
<1>5. Counted'
  BY <1>1, <1>2 DEF Counted
<1>6. WaitsRightly'
  BY <1>1, <1>2 DEF WaitsRightly, WaiterOK, Counted
<1>7. RoomOK'
  BY <1>1, <1>2 DEF RoomOK, Kept, Counted
<1>8. RingOK' /\ Delivered'
  BY <1>1, <1>2, RingUnchanged DEF Kept
<1> QED BY <1>3, <1>4, <1>5, <1>6, <1>7, <1>8 DEF Undisturbed

\* It stores what it has loaded, less one.
LEMMA SubQuiet ==
  ASSUME Quiet, ReadOn, pc["reader"] = "sub"
  PROVE  Undisturbed'
<1>1. /\ pc["reader"] = "sub"
      /\ current = "reader"
      /\ UNCHANGED <<readOpen, pstate, waitingProcess, current>>
      /\ UNCHANGED <<data, readPos, writePos, sent, got>>
      /\ UNCHANGED <<reg, todo>>
      /\ bytesToRead' = reg["reader"] - 1
      /\ pc' = [pc EXCEPT !["reader"] = "take"]
  BY QuietFacts DEF ReadOn, Goto, SetState, Switch, ring, ends, Procs
<1>2. Unread' = Unread
  BY QuietFacts, <1>1 DEF Unread
<1> USE QuietFacts
    DEF Procs, NoProcess, Alone, PcsOK, ResumedPcs, WriterPcs, ReaderPcs, ClosingPcs
<1>3. Alone'
  BY <1>1
<1>4. WaiterOK'
  BY <1>1 DEF WaiterOK, Counted, WaitsRightly
<1>5. Counted'
  BY <1>1, <1>2 DEF Counted
<1>6. WaitsRightly'
  BY <1>1, <1>2 DEF WaitsRightly, WaiterOK, Counted
<1>7. RoomOK'
  BY <1>1, <1>2 DEF RoomOK, Kept, Counted
<1>8. RingOK' /\ Delivered'
  BY <1>1, <1>2, RingUnchanged DEF Kept
<1> QED BY <1>3, <1>4, <1>5, <1>6, <1>7, <1>8 DEF Undisturbed

\* It takes the byte.
LEMMA TakeQuiet ==
  ASSUME Quiet, ReadOn, pc["reader"] = "take"
  PROVE  Undisturbed'
<1>1. /\ Take
      /\ pc["reader"] = "take"
      /\ current = "reader"
      /\ UNCHANGED <<readOpen, pstate, waitingProcess, current>>
      /\ UNCHANGED <<data, writePos, sent, bytesToRead, reg, todo>>
      /\ pc' = [pc EXCEPT !["reader"] = "wake"]
  BY QuietFacts DEF ReadOn, TypeOK, Goto, SetState, Switch, ring, ends, Procs
<1>2. RingOK' /\ Delivered' /\ Unread' = Unread - 1
  BY QuietFacts, <1>1, TakeLength, TakeRing
  DEF Counted, RoomOK, Alone, PcsOK, ResumedPcs, ReaderPcs, WriterPcs, ClosingPcs,
      Procs, Kept,
      TypeOK
<1> USE QuietFacts
    DEF Procs, NoProcess, Alone, PcsOK, ResumedPcs, WriterPcs, ReaderPcs, ClosingPcs
<1>3. Alone'
  BY <1>1
<1>4. WaiterOK'
  BY <1>1 DEF WaiterOK, Counted, WaitsRightly
<1>5. Counted'
  BY <1>1, <1>2 DEF Counted
<1>6. WaitsRightly'
  BY <1>1, <1>2 DEF WaitsRightly, WaiterOK, Counted
<1>7. RoomOK'
  BY <1>1, <1>2 DEF RoomOK, Kept, Counted
<1>8. RingOK' /\ Delivered'
  BY <1>2, Zenon
<1> QED BY <1>3, <1>4, <1>5, <1>6, <1>7, <1>8 DEF Undisturbed

\* It goes on with the line.
LEMMA EmptyQuiet ==
  ASSUME Quiet, ReadOn, pc["reader"] = "empty"
  PROVE  Undisturbed'
<1>1. /\ pc["reader"] = "empty"
      /\ current = "reader"
      /\ UNCHANGED <<readOpen, pstate, waitingProcess, current>>
      /\ UNCHANGED <<data, readPos, writePos, sent, got>>
      /\ UNCHANGED <<bytesToRead, reg, todo>>
      /\ pc'["writer"] = pc["writer"]
      /\ pc'["reader"] \in {"check", "eof", "block"}
      /\ pc'["reader"] = "block" => bytesToRead = 0
  BY QuietFacts DEF ReadOn, TypeOK, Goto, SetState, Switch, ring, ends, Procs
<1>2. Unread' = Unread
  BY QuietFacts, <1>1 DEF Unread
<1> USE QuietFacts
    DEF Procs, NoProcess, Alone, PcsOK, ResumedPcs, WriterPcs, ReaderPcs, ClosingPcs
<1>3. Alone'
  BY <1>1
<1>4. WaiterOK'
  BY <1>1 DEF WaiterOK, Counted, WaitsRightly
<1>5. Counted'
  BY <1>1, <1>2 DEF Counted
<1>6. WaitsRightly'
  BY <1>1, <1>2 DEF WaitsRightly, WaiterOK, Counted
<1>7. RoomOK'
  BY <1>1, <1>2 DEF RoomOK, Kept, Counted
<1>8. RingOK' /\ Delivered'
  BY <1>1, <1>2, RingUnchanged DEF Kept
<1> QED BY <1>3, <1>4, <1>5, <1>6, <1>7, <1>8 DEF Undisturbed

\* The resumed writer blocks itself.
LEMMA WriterBlocksQuiet ==
  ASSUME Quiet, BlockOn("writer"), pc["writer"] = "block"
  PROVE  Undisturbed'
<1>1. /\ pc["writer"] = "block"
      /\ current = "writer"
      /\ UNCHANGED <<data, readPos, writePos, sent, got>>
      /\ UNCHANGED <<bytesToRead, reg, todo, readOpen, waitingProcess, current>>
      /\ pstate' = [pstate EXCEPT !["writer"] = 0]
      /\ pc' = [pc EXCEPT !["writer"] = "wait"]
  BY QuietFacts DEF BlockOn, Goto, SetState, Switch, ring, ends, Procs
<1>2. Unread' = Unread
  BY QuietFacts, <1>1 DEF Unread
<1> USE QuietFacts
    DEF Procs, NoProcess, Alone, PcsOK, ResumedPcs, WriterPcs, ReaderPcs, ClosingPcs
<1>3. Alone'
  BY <1>1
<1>4. WaiterOK'
  BY <1>1 DEF WaiterOK, Counted, WaitsRightly
<1>5. Counted'
  BY <1>1, <1>2 DEF Counted
<1>6. WaitsRightly'
  BY <1>1, <1>2 DEF WaitsRightly, WaiterOK, Counted
<1>7. RoomOK'
  BY <1>1, <1>2 DEF RoomOK, Kept, Counted
<1>8. RingOK' /\ Delivered'
  BY <1>1, <1>2, RingUnchanged DEF Kept
<1> QED BY <1>3, <1>4, <1>5, <1>6, <1>7, <1>8 DEF Undisturbed

\* Then it is the waiting process.
LEMMA WriterWaitsQuiet ==
  ASSUME Quiet, BlockOn("writer"), pc["writer"] = "wait"
  PROVE  Undisturbed'
<1>1. /\ pc["writer"] = "wait"
      /\ current = "writer"
      /\ UNCHANGED <<data, readPos, writePos, sent, got>>
      /\ UNCHANGED <<bytesToRead, reg, todo, readOpen, pstate>>
      /\ waitingProcess' = "writer"
      /\ current' = NoProcess
      /\ pc' = [pc EXCEPT !["writer"] = "asleep"]
  BY QuietFacts DEF BlockOn, Goto, SetState, Switch, ring, ends, Procs
<1>2. Unread' = Unread
  BY QuietFacts, <1>1 DEF Unread
<1> USE QuietFacts
    DEF Procs, NoProcess, Alone, PcsOK, ResumedPcs, WriterPcs, ReaderPcs, ClosingPcs
<1>3. Alone'
  BY <1>1
<1>4. WaiterOK'
  BY <1>1 DEF WaiterOK, Counted, WaitsRightly
<1>5. Counted'
  BY <1>1, <1>2 DEF Counted
<1>6. WaitsRightly'
  BY <1>1, <1>2 DEF WaitsRightly, WaiterOK, Counted
<1>7. RoomOK'
  BY <1>1, <1>2 DEF RoomOK, Kept, Counted
<1>8. RingOK' /\ Delivered'
  BY <1>1, <1>2, RingUnchanged DEF Kept
<1> QED BY <1>3, <1>4, <1>5, <1>6, <1>7, <1>8 DEF Undisturbed

\* The resumed writer sets the waiting process ready.
LEMMA WriterWakesQuiet ==
  ASSUME Quiet, WakeOn("writer"), pc["writer"] = "wake", waitingProcess # NoProcess
  PROVE  Undisturbed'
<1>1. /\ pc["writer"] = "wake"
      /\ current = "writer"
      /\ UNCHANGED <<data, readPos, writePos, sent, got>>
      /\ UNCHANGED <<bytesToRead, reg, todo, readOpen, waitingProcess, current>>
      /\ waitingProcess \in Procs
      /\ pstate' = [pstate EXCEPT ![waitingProcess] = 1]
      /\ pc' = [pc EXCEPT !["writer"] = "clear"]
  BY QuietFacts DEF WakeOn, TypeOK, Goto, SetState, Switch, ring, ends, Procs
<1>2. Unread' = Unread
  BY QuietFacts, <1>1 DEF Unread
<1> USE QuietFacts
    DEF Procs, NoProcess, Alone, PcsOK, ResumedPcs, WriterPcs, ReaderPcs, ClosingPcs
<1>3. Alone'
  BY <1>1
<1>4. WaiterOK'
  BY <1>1 DEF WaiterOK, Counted, WaitsRightly
<1>5. Counted'
  BY <1>1, <1>2 DEF Counted
<1>6. WaitsRightly'
  BY <1>1, <1>2 DEF WaitsRightly, WaiterOK, Counted
<1>7. RoomOK'
  BY <1>1, <1>2 DEF RoomOK, Kept, Counted
<1>8. RingOK' /\ Delivered'
  BY <1>1, <1>2, RingUnchanged DEF Kept
<1> QED BY <1>3, <1>4, <1>5, <1>6, <1>7, <1>8 DEF Undisturbed

\* The resumed writer forgets it, and goes on.
LEMMA WriterReturnsQuiet ==
  ASSUME Quiet, WakeOn("writer"), pc["writer"] = "clear" \/ waitingProcess = NoProcess
  PROVE  Undisturbed'
<1>1. /\ pc["writer"] \in {"wake", "clear"}
      /\ pc["writer"] = "wake" => waitingProcess = NoProcess
      /\ current = "writer"
      /\ UNCHANGED <<data, readPos, writePos, sent, got>>
      /\ UNCHANGED <<bytesToRead, reg, todo, readOpen, pstate, current>>
      /\ waitingProcess' = NoProcess
      /\ pc'["reader"] = pc["reader"]
      /\ pc'["writer"] \in {"user"}
  BY QuietFacts DEF WakeOn, Returns, TypeOK, Goto, SetState, Switch, ring, ends, Procs
<1>2. Unread' = Unread
  BY QuietFacts, <1>1 DEF Unread
<1> USE QuietFacts
    DEF Procs, NoProcess, Alone, PcsOK, ResumedPcs, WriterPcs, ReaderPcs, ClosingPcs
<1>3. Alone'
  BY <1>1
<1>4. WaiterOK'
  BY <1>1 DEF WaiterOK, Counted, WaitsRightly
<1>5. Counted'
  BY <1>1, <1>2 DEF Counted
<1>6. WaitsRightly'
  BY <1>1, <1>2 DEF WaitsRightly, WaiterOK, Counted
<1>7. RoomOK'
  BY <1>1, <1>2 DEF RoomOK, Kept, Counted
<1>8. RingOK' /\ Delivered'
  BY <1>1, <1>2, RingUnchanged DEF Kept
<1> QED BY <1>3, <1>4, <1>5, <1>6, <1>7, <1>8 DEF Undisturbed

\* The writer exits.
LEMMA WriterExitQuiet ==
  ASSUME Quiet, Exit("writer")
  PROVE  Undisturbed'
<1>1. /\ pc["writer"] \in {"user", "eof"}
      /\ current = "writer"
      /\ UNCHANGED <<data, readPos, writePos, sent, got>>
      /\ UNCHANGED <<bytesToRead, reg, todo>>
      /\ current' = NoProcess
      /\ pc' = [pc EXCEPT !["writer"] = "dead"]
      /\ readOpen' => readOpen
      /\ waitingProcess \in Procs \union {NoProcess}
      /\ \/ /\ waitingProcess' = NoProcess
            /\ pstate' = IF waitingProcess = NoProcess THEN pstate
                         ELSE [pstate EXCEPT ![waitingProcess] = 1]
         \/ pstate' = pstate /\ waitingProcess' = waitingProcess
  BY QuietFacts
  DEF Exit, CloseFdPipe, CloseEnd, WakeUp, Forgotten, ClosingWakes, TypeOK, WaiterOK,
      Goto,
      SetState, Switch, ring, ends, Procs
<1>2. Unread' = Unread
  BY QuietFacts, <1>1 DEF Unread
<1> USE QuietFacts
    DEF Procs, NoProcess, Alone, PcsOK, ResumedPcs, WriterPcs, ReaderPcs, ClosingPcs
<1>3. Alone'
  BY <1>1
<1>4. WaiterOK'
  BY <1>1 DEF WaiterOK, Counted, WaitsRightly
<1>5. Counted'
  BY <1>1, <1>2 DEF Counted
<1>6. WaitsRightly'
  BY <1>1, <1>2 DEF WaitsRightly, WaiterOK, Counted
<1>7. RoomOK'
  BY <1>1, <1>2 DEF RoomOK, Kept, Counted
<1>8. RingOK' /\ Delivered'
  BY <1>1, <1>2, RingUnchanged DEF Kept
<1> QED BY <1>3, <1>4, <1>5, <1>6, <1>7, <1>8 DEF Undisturbed

\* The writer begins an exit by F2.
LEMMA ExitOfReadQuiet ==
  ASSUME Quiet, ExitOfRead
  PROVE  Undisturbed'
<1>1. /\ pc["writer"] = "user"
      /\ current = "writer"
      /\ UNCHANGED <<data, readPos, writePos, sent, got>>
      /\ UNCHANGED <<bytesToRead, reg, todo, pstate, waitingProcess, current>>
      /\ readOpen' => readOpen
      /\ pc' = [pc EXCEPT !["writer"] = "shut"]
  BY QuietFacts DEF ExitOfRead, CloseEnd, Goto, SetState, Switch, ring, ends, Procs,
                    TypeOK
<1>2. Unread' = Unread
  BY QuietFacts, <1>1 DEF Unread
<1> USE QuietFacts
    DEF Procs, NoProcess, Alone, PcsOK, ResumedPcs, WriterPcs, ReaderPcs, ClosingPcs
<1>3. Alone'
  BY <1>1
<1>4. WaiterOK'
  BY <1>1 DEF WaiterOK, Counted, WaitsRightly
<1>5. Counted'
  BY <1>1, <1>2 DEF Counted
<1>6. WaitsRightly'
  BY <1>1, <1>2 DEF WaitsRightly, WaiterOK, Counted
<1>7. RoomOK'
  BY <1>1, <1>2 DEF RoomOK, Kept, Counted
<1>8. RingOK' /\ Delivered'
  BY <1>1, <1>2, RingUnchanged DEF Kept
<1> QED BY <1>3, <1>4, <1>5, <1>6, <1>7, <1>8 DEF Undisturbed

\* It looks at the other end.
LEMMA ShutQuiet ==
  ASSUME Quiet, CloseOn, pc["writer"] = "shut"
  PROVE  Undisturbed'
<1>1. /\ pc["writer"] = "shut"
      /\ current = "writer"
      /\ UNCHANGED <<data, readPos, writePos, sent, got, readOpen>>
      /\ UNCHANGED <<bytesToRead, reg, todo, pstate, waitingProcess, current>>
      /\ \E l \in {"tell", "gone"} : pc' = [pc EXCEPT !["writer"] = l]
  BY QuietFacts DEF CloseOn, Goto, SetState, Switch, ring, ends, Procs, TypeOK
<1>2. Unread' = Unread
  BY QuietFacts, <1>1 DEF Unread
<1> USE QuietFacts
    DEF Procs, NoProcess, Alone, PcsOK, ResumedPcs, WriterPcs, ReaderPcs, ClosingPcs
<1>3. Alone'
  BY <1>1
<1>4. WaiterOK'
  BY <1>1 DEF WaiterOK, Counted, WaitsRightly
<1>5. Counted'
  BY <1>1, <1>2 DEF Counted
<1>6. WaitsRightly'
  BY <1>1, <1>2 DEF WaitsRightly, WaiterOK, Counted
<1>7. RoomOK'
  BY <1>1, <1>2 DEF RoomOK, Kept, Counted
<1>8. RingOK' /\ Delivered'
  BY <1>1, <1>2, RingUnchanged DEF Kept
<1> QED BY <1>3, <1>4, <1>5, <1>6, <1>7, <1>8 DEF Undisturbed

\* It sets the waiting process ready.
LEMMA TellQuiet ==
  ASSUME Quiet, CloseOn, pc["writer"] = "tell"
  PROVE  Undisturbed'
<1>1. /\ pc["writer"] = "tell"
      /\ current = "writer"
      /\ UNCHANGED <<data, readPos, writePos, sent, got, readOpen>>
      /\ UNCHANGED <<bytesToRead, reg, todo, waitingProcess, current>>
      /\ waitingProcess \in Procs \union {NoProcess}
      /\ \/ /\ waitingProcess = NoProcess /\ pstate' = pstate
            /\ pc' = [pc EXCEPT !["writer"] = "gone"]
         \/ /\ waitingProcess # NoProcess /\ pstate' = [pstate EXCEPT ![waitingProcess] = 1]
            /\ pc' = [pc EXCEPT !["writer"] = "told"]
  BY QuietFacts DEF CloseOn, Goto, SetState, Switch, ring, ends, Procs, TypeOK
<1>2. Unread' = Unread
  BY QuietFacts, <1>1 DEF Unread
<1> USE QuietFacts
    DEF Procs, NoProcess, Alone, PcsOK, ResumedPcs, WriterPcs, ReaderPcs, ClosingPcs
<1>3. Alone'
  BY <1>1
<1>4. WaiterOK'
  BY <1>1 DEF WaiterOK, Counted, WaitsRightly
<1>5. Counted'
  BY <1>1, <1>2 DEF Counted
<1>6. WaitsRightly'
  BY <1>1, <1>2 DEF WaitsRightly, WaiterOK, Counted
<1>7. RoomOK'
  BY <1>1, <1>2 DEF RoomOK, Kept, Counted
<1>8. RingOK' /\ Delivered'
  BY <1>1, <1>2, RingUnchanged DEF Kept
<1> QED BY <1>3, <1>4, <1>5, <1>6, <1>7, <1>8 DEF Undisturbed

\* It forgets it.
LEMMA ToldQuiet ==
  ASSUME Quiet, CloseOn, pc["writer"] = "told"
  PROVE  Undisturbed'
<1>1. /\ pc["writer"] = "told"
      /\ current = "writer"
      /\ UNCHANGED <<data, readPos, writePos, sent, got, readOpen>>
      /\ UNCHANGED <<bytesToRead, reg, todo, pstate, current>>
      /\ waitingProcess' = NoProcess
      /\ pc' = [pc EXCEPT !["writer"] = "gone"]
  BY QuietFacts DEF CloseOn, Goto, SetState, Switch, ring, ends, Procs, TypeOK
<1>2. Unread' = Unread
  BY QuietFacts, <1>1 DEF Unread
<1> USE QuietFacts
    DEF Procs, NoProcess, Alone, PcsOK, ResumedPcs, WriterPcs, ReaderPcs, ClosingPcs
<1>3. Alone'
  BY <1>1
<1>4. WaiterOK'
  BY <1>1 DEF WaiterOK, Counted, WaitsRightly
<1>5. Counted'
  BY <1>1, <1>2 DEF Counted
<1>6. WaitsRightly'
  BY <1>1, <1>2 DEF WaitsRightly, WaiterOK, Counted
<1>7. RoomOK'
  BY <1>1, <1>2 DEF RoomOK, Kept, Counted
<1>8. RingOK' /\ Delivered'
  BY <1>1, <1>2, RingUnchanged DEF Kept
<1> QED BY <1>3, <1>4, <1>5, <1>6, <1>7, <1>8 DEF Undisturbed

\* It is deleted.
LEMMA GoneQuiet ==
  ASSUME Quiet, CloseOn, pc["writer"] = "gone"
  PROVE  Undisturbed'
<1>1. /\ pc["writer"] = "gone"
      /\ current = "writer"
      /\ UNCHANGED <<data, readPos, writePos, sent, got, readOpen>>
      /\ UNCHANGED <<bytesToRead, reg, todo, pstate>>
      /\ waitingProcess' = IF waitingProcess = "writer" THEN NoProcess ELSE waitingProcess
      /\ current' = NoProcess
      /\ pc' = [pc EXCEPT !["writer"] = "dead"]
  BY QuietFacts DEF CloseOn, Forgotten, Goto, SetState, Switch, ring, ends, Procs, TypeOK
<1>2. Unread' = Unread
  BY QuietFacts, <1>1 DEF Unread
<1> USE QuietFacts
    DEF Procs, NoProcess, Alone, PcsOK, ResumedPcs, WriterPcs, ReaderPcs, ClosingPcs
<1>3. Alone'
  BY <1>1
<1>4. WaiterOK'
  BY <1>1 DEF WaiterOK, Counted, WaitsRightly
<1>5. Counted'
  BY <1>1, <1>2 DEF Counted
<1>6. WaitsRightly'
  BY <1>1, <1>2 DEF WaitsRightly, WaiterOK, Counted
<1>7. RoomOK'
  BY <1>1, <1>2 DEF RoomOK, Kept, Counted
<1>8. RingOK' /\ Delivered'
  BY <1>1, <1>2, RingUnchanged DEF Kept
<1> QED BY <1>3, <1>4, <1>5, <1>6, <1>7, <1>8 DEF Undisturbed

\* The writer is killed.
LEMMA WriterKilledQuiet ==
  ASSUME Quiet, KillPid("writer")
  PROVE  Undisturbed'
<1>1. /\ current = NoProcess
      /\ UNCHANGED <<data, readPos, writePos, sent, got>>
      /\ UNCHANGED <<bytesToRead, reg, todo, readOpen, pstate, current>>
      /\ pc' = [pc EXCEPT !["writer"] = "dead"]
      /\ waitingProcess' = IF waitingProcess = "writer" THEN NoProcess ELSE waitingProcess
  BY QuietFacts
  DEF KillPid, Forgotten, TypeOK, Goto, SetState, Switch, ring, ends, Procs
<1>2. Unread' = Unread
  BY QuietFacts, <1>1 DEF Unread
<1> USE QuietFacts
    DEF Procs, NoProcess, Alone, PcsOK, ResumedPcs, WriterPcs, ReaderPcs, ClosingPcs
<1>3. Alone'
  BY <1>1
<1>4. WaiterOK'
  BY <1>1 DEF WaiterOK, Counted, WaitsRightly
<1>5. Counted'
  BY <1>1, <1>2 DEF Counted
<1>6. WaitsRightly'
  BY <1>1, <1>2 DEF WaitsRightly, WaiterOK, Counted
<1>7. RoomOK'
  BY <1>1, <1>2 DEF RoomOK, Kept, Counted
<1>8. RingOK' /\ Delivered'
  BY <1>1, <1>2, RingUnchanged DEF Kept
<1> QED BY <1>3, <1>4, <1>5, <1>6, <1>7, <1>8 DEF Undisturbed

\* The resumed reader blocks itself.
LEMMA ReaderBlocksQuiet ==
  ASSUME Quiet, BlockOn("reader"), pc["reader"] = "block"
  PROVE  Undisturbed'
<1>1. /\ pc["reader"] = "block"
      /\ current = "reader"
      /\ UNCHANGED <<data, readPos, writePos, sent, got>>
      /\ UNCHANGED <<bytesToRead, reg, todo, readOpen, waitingProcess, current>>
      /\ pstate' = [pstate EXCEPT !["reader"] = 0]
      /\ pc' = [pc EXCEPT !["reader"] = "wait"]
  BY QuietFacts DEF BlockOn, Goto, SetState, Switch, ring, ends, Procs
<1>2. Unread' = Unread
  BY QuietFacts, <1>1 DEF Unread
<1> USE QuietFacts
    DEF Procs, NoProcess, Alone, PcsOK, ResumedPcs, WriterPcs, ReaderPcs, ClosingPcs
<1>3. Alone'
  BY <1>1
<1>4. WaiterOK'
  BY <1>1 DEF WaiterOK, Counted, WaitsRightly
<1>5. Counted'
  BY <1>1, <1>2 DEF Counted
<1>6. WaitsRightly'
  BY <1>1, <1>2 DEF WaitsRightly, WaiterOK, Counted
<1>7. RoomOK'
  BY <1>1, <1>2 DEF RoomOK, Kept, Counted
<1>8. RingOK' /\ Delivered'
  BY <1>1, <1>2, RingUnchanged DEF Kept
<1> QED BY <1>3, <1>4, <1>5, <1>6, <1>7, <1>8 DEF Undisturbed

\* Then it is the waiting process.
LEMMA ReaderWaitsQuiet ==
  ASSUME Quiet, BlockOn("reader"), pc["reader"] = "wait"
  PROVE  Undisturbed'
<1>1. /\ pc["reader"] = "wait"
      /\ current = "reader"
      /\ UNCHANGED <<data, readPos, writePos, sent, got>>
      /\ UNCHANGED <<bytesToRead, reg, todo, readOpen, pstate>>
      /\ waitingProcess' = "reader"
      /\ current' = NoProcess
      /\ pc' = [pc EXCEPT !["reader"] = "asleep"]
  BY QuietFacts DEF BlockOn, Goto, SetState, Switch, ring, ends, Procs
<1>2. Unread' = Unread
  BY QuietFacts, <1>1 DEF Unread
<1> USE QuietFacts
    DEF Procs, NoProcess, Alone, PcsOK, ResumedPcs, WriterPcs, ReaderPcs, ClosingPcs
<1>3. Alone'
  BY <1>1
<1>4. WaiterOK'
  BY <1>1 DEF WaiterOK, Counted, WaitsRightly
<1>5. Counted'
  BY <1>1, <1>2 DEF Counted
<1>6. WaitsRightly'
  BY <1>1, <1>2 DEF WaitsRightly, WaiterOK, Counted
<1>7. RoomOK'
  BY <1>1, <1>2 DEF RoomOK, Kept, Counted
<1>8. RingOK' /\ Delivered'
  BY <1>1, <1>2, RingUnchanged DEF Kept
<1> QED BY <1>3, <1>4, <1>5, <1>6, <1>7, <1>8 DEF Undisturbed

\* The resumed reader sets the waiting process ready.
LEMMA ReaderWakesQuiet ==
  ASSUME Quiet, WakeOn("reader"), pc["reader"] = "wake", waitingProcess # NoProcess
  PROVE  Undisturbed'
<1>1. /\ pc["reader"] = "wake"
      /\ current = "reader"
      /\ UNCHANGED <<data, readPos, writePos, sent, got>>
      /\ UNCHANGED <<bytesToRead, reg, todo, readOpen, waitingProcess, current>>
      /\ waitingProcess \in Procs
      /\ pstate' = [pstate EXCEPT ![waitingProcess] = 1]
      /\ pc' = [pc EXCEPT !["reader"] = "clear"]
  BY QuietFacts DEF WakeOn, TypeOK, Goto, SetState, Switch, ring, ends, Procs
<1>2. Unread' = Unread
  BY QuietFacts, <1>1 DEF Unread
<1> USE QuietFacts
    DEF Procs, NoProcess, Alone, PcsOK, ResumedPcs, WriterPcs, ReaderPcs, ClosingPcs
<1>3. Alone'
  BY <1>1
<1>4. WaiterOK'
  BY <1>1 DEF WaiterOK, Counted, WaitsRightly
<1>5. Counted'
  BY <1>1, <1>2 DEF Counted
<1>6. WaitsRightly'
  BY <1>1, <1>2 DEF WaitsRightly, WaiterOK, Counted
<1>7. RoomOK'
  BY <1>1, <1>2 DEF RoomOK, Kept, Counted
<1>8. RingOK' /\ Delivered'
  BY <1>1, <1>2, RingUnchanged DEF Kept
<1> QED BY <1>3, <1>4, <1>5, <1>6, <1>7, <1>8 DEF Undisturbed

\* The resumed reader forgets it, and goes on.
LEMMA ReaderReturnsQuiet ==
  ASSUME Quiet, WakeOn("reader"), pc["reader"] = "clear" \/ waitingProcess = NoProcess
  PROVE  Undisturbed'
<1>1. /\ pc["reader"] \in {"wake", "clear"}
      /\ pc["reader"] = "wake" => waitingProcess = NoProcess
      /\ current = "reader"
      /\ UNCHANGED <<data, readPos, writePos, sent, got>>
      /\ UNCHANGED <<bytesToRead, reg, todo, readOpen, pstate, current>>
      /\ waitingProcess' = NoProcess
      /\ pc'["writer"] = pc["writer"]
      /\ pc'["reader"] \in {"user", "eof", "empty"}
  BY QuietFacts DEF WakeOn, Returns, TypeOK, Goto, SetState, Switch, ring, ends, Procs
<1>2. Unread' = Unread
  BY QuietFacts, <1>1 DEF Unread
<1> USE QuietFacts
    DEF Procs, NoProcess, Alone, PcsOK, ResumedPcs, WriterPcs, ReaderPcs, ClosingPcs
<1>3. Alone'
  BY <1>1
<1>4. WaiterOK'
  BY <1>1 DEF WaiterOK, Counted, WaitsRightly
<1>5. Counted'
  BY <1>1, <1>2 DEF Counted
<1>6. WaitsRightly'
  BY <1>1, <1>2 DEF WaitsRightly, WaiterOK, Counted
<1>7. RoomOK'
  BY <1>1, <1>2 DEF RoomOK, Kept, Counted
<1>8. RingOK' /\ Delivered'
  BY <1>1, <1>2, RingUnchanged DEF Kept
<1> QED BY <1>3, <1>4, <1>5, <1>6, <1>7, <1>8 DEF Undisturbed

\* The reader exits.
LEMMA ReaderExitQuiet ==
  ASSUME Quiet, Exit("reader")
  PROVE  Undisturbed'
<1>1. /\ pc["reader"] \in {"user", "eof"}
      /\ current = "reader"
      /\ UNCHANGED <<data, readPos, writePos, sent, got>>
      /\ UNCHANGED <<bytesToRead, reg, todo>>
      /\ current' = NoProcess
      /\ pc' = [pc EXCEPT !["reader"] = "dead"]
      /\ readOpen' => readOpen
      /\ readOpen' = FALSE
      /\ waitingProcess \in Procs \union {NoProcess}
      /\ \/ /\ waitingProcess' = NoProcess
            /\ pstate' = IF waitingProcess = NoProcess THEN pstate
                         ELSE [pstate EXCEPT ![waitingProcess] = 1]
         \/ pstate' = pstate /\ waitingProcess' = waitingProcess
  BY QuietFacts
  DEF Exit, CloseFdPipe, CloseEnd, WakeUp, Forgotten, ClosingWakes, TypeOK, WaiterOK,
      Goto,
      SetState, Switch, ring, ends, Procs
<1>2. Unread' = Unread
  BY QuietFacts, <1>1 DEF Unread
<1> USE QuietFacts
    DEF Procs, NoProcess, Alone, PcsOK, ResumedPcs, WriterPcs, ReaderPcs, ClosingPcs
<1>3. Alone'
  BY <1>1
<1>4. WaiterOK'
  BY <1>1 DEF WaiterOK, Counted, WaitsRightly
<1>5. Counted'
  BY <1>1, <1>2 DEF Counted
<1>6. WaitsRightly'
  BY <1>1, <1>2 DEF WaitsRightly, WaiterOK, Counted
<1>7. RoomOK'
  BY <1>1, <1>2 DEF RoomOK, Kept, Counted
<1>8. RingOK' /\ Delivered'
  BY <1>1, <1>2, RingUnchanged DEF Kept
<1> QED BY <1>3, <1>4, <1>5, <1>6, <1>7, <1>8 DEF Undisturbed

\* The reader is killed.
LEMMA ReaderKilledQuiet ==
  ASSUME Quiet, KillPid("reader")
  PROVE  Undisturbed'
<1>1. /\ current = NoProcess
      /\ UNCHANGED <<data, readPos, writePos, sent, got>>
      /\ UNCHANGED <<bytesToRead, reg, todo, readOpen, pstate, current>>
      /\ pc' = [pc EXCEPT !["reader"] = "dead"]
      /\ waitingProcess' = IF waitingProcess = "reader" THEN NoProcess ELSE waitingProcess
  BY QuietFacts
  DEF KillPid, Forgotten, TypeOK, Goto, SetState, Switch, ring, ends, Procs
<1>2. Unread' = Unread
  BY QuietFacts, <1>1 DEF Unread
<1> USE QuietFacts
    DEF Procs, NoProcess, Alone, PcsOK, ResumedPcs, WriterPcs, ReaderPcs, ClosingPcs
<1>3. Alone'
  BY <1>1
<1>4. WaiterOK'
  BY <1>1 DEF WaiterOK, Counted, WaitsRightly
<1>5. Counted'
  BY <1>1, <1>2 DEF Counted
<1>6. WaitsRightly'
  BY <1>1, <1>2 DEF WaitsRightly, WaiterOK, Counted
<1>7. RoomOK'
  BY <1>1, <1>2 DEF RoomOK, Kept, Counted
<1>8. RingOK' /\ Delivered'
  BY <1>1, <1>2, RingUnchanged DEF Kept
<1> QED BY <1>3, <1>4, <1>5, <1>6, <1>7, <1>8 DEF Undisturbed

\* The timer ticks in a program.
LEMMA TickQuiet ==
  ASSUME Quiet, NEW p \in Procs \union {NoProcess}, Tick(p), hits' = 0
  PROVE  Undisturbed'
<1>1. /\ current \in Procs => pc[current] \notin ResumedPcs
      /\ current \in Procs \union {NoProcess}
      /\ current' = p
      /\ UNCHANGED <<data, readPos, writePos, sent, got>>
      /\ UNCHANGED <<bytesToRead, reg, todo, readOpen, pstate, waitingProcess, pc>>
      /\ p # NoProcess => pstate[p] = 1
  BY QuietFacts
  DEF Tick, Dispatchable, TypeOK, Goto, SetState, Switch, ring, ends, Procs
<1>2. Unread' = Unread
  BY QuietFacts, <1>1 DEF Unread
<1> USE QuietFacts
    DEF Procs, NoProcess, Alone, PcsOK, ResumedPcs, WriterPcs, ReaderPcs, ClosingPcs
<1>3. Alone'
  BY <1>1
<1>4. WaiterOK'
  BY <1>1 DEF WaiterOK, Counted, WaitsRightly
<1>5. Counted'
  BY <1>1, <1>2 DEF Counted
<1>6. WaitsRightly'
  BY <1>1, <1>2 DEF WaitsRightly, WaiterOK, Counted
<1>7. RoomOK'
  BY <1>1, <1>2 DEF RoomOK, Kept, Counted
<1>8. RingOK' /\ Delivered'
  BY <1>1, <1>2, RingUnchanged DEF Kept
<1> QED BY <1>3, <1>4, <1>5, <1>6, <1>7, <1>8 DEF Undisturbed

\* Nothing happens.
LEMMA StutterQuiet ==
  ASSUME Quiet, UNCHANGED vars
  PROVE  Undisturbed'
<1>1. /\ UNCHANGED <<data, readPos, writePos, sent, got>>
      /\ UNCHANGED <<bytesToRead, reg, todo, readOpen, pstate, waitingProcess, pc,
                     current>>
  BY QuietFacts DEF vars, Goto, SetState, Switch, ring, ends, Procs
<1>2. Unread' = Unread
  BY QuietFacts, <1>1 DEF Unread
<1> USE QuietFacts
    DEF Procs, NoProcess, Alone, PcsOK, ResumedPcs, WriterPcs, ReaderPcs, ClosingPcs
<1>3. Alone'
  BY <1>1
<1>4. WaiterOK'
  BY <1>1 DEF WaiterOK, Counted, WaitsRightly
<1>5. Counted'
  BY <1>1, <1>2 DEF Counted
<1>6. WaitsRightly'
  BY <1>1, <1>2 DEF WaitsRightly, WaiterOK, Counted
<1>7. RoomOK'
  BY <1>1, <1>2 DEF RoomOK, Kept, Counted
<1>8. RingOK' /\ Delivered'
  BY <1>1, <1>2, RingUnchanged DEF Kept
<1> QED BY <1>3, <1>4, <1>5, <1>6, <1>7, <1>8 DEF Undisturbed

\* Every step keeps what holds until the timer hits a resumed call.
LEMMA UndisturbedStep ==
  ASSUME IInv, [Next]_vars, hits' = 0
  PROVE  Undisturbed'
<1>0. Quiet
  BY StillUndisturbed DEF Quiet
<1>1. ASSUME NEW p \in Procs \union {NoProcess}, Tick(p) PROVE Undisturbed'
  BY <1>0, <1>1, TickQuiet
<1>2. ASSUME NEW k \in 1..MaxWrite, Write(k) PROVE Undisturbed'
  <2>1. k <= Room \/ k > Room
    BY <1>0, <1>2, RoomProperties, SizeAssumption DEF Write, Quiet, Base, TypeOK
  <2> QED BY <2>1, <1>0, <1>2, WriteFitsQuiet, WriteBlocksQuiet
<1>3. ASSUME WriteOn PROVE Undisturbed'
  <2>1. pc["writer"] \in {"put", "load", "add", "full"}
    BY <1>3 DEF WriteOn
  <2> QED BY <2>1, <1>0, <1>3, PutQuiet, LoadQuiet, AddQuiet, FullQuiet
<1>4. ASSUME Read PROVE Undisturbed'
  <2>1. bytesToRead # 0 \/ (bytesToRead = 0 /\ (writeOpen \/ ~writeOpen))
    OBVIOUS
  <2> QED BY <2>1, <1>0, <1>4, ReadEofQuiet, ReadBlocksQuiet, ReadQuiet
<1>5. ASSUME ReadOn PROVE Undisturbed'
  <2>1. pc["reader"] \in {"check", "load", "sub", "take", "empty"}
    BY <1>5 DEF ReadOn
  <2> QED BY <2>1, <1>0, <1>5, CheckQuiet, LoadReadQuiet, SubQuiet, TakeQuiet, EmptyQuiet
<1>6. ASSUME NEW p \in Procs, BlockOn(p) PROVE Undisturbed'
  <2>1. pc[p] \in {"block", "wait"} /\ p \in {"writer", "reader"}
    BY <1>6 DEF BlockOn, Procs
  <2> QED BY <2>1, <1>0, <1>6, WriterBlocksQuiet, WriterWaitsQuiet, ReaderBlocksQuiet,
             ReaderWaitsQuiet
<1>7. ASSUME NEW p \in Procs, WakeOn(p) PROVE Undisturbed'
  <2>1. /\ pc[p] = "clear" \/ waitingProcess = NoProcess
           \/ (pc[p] = "wake" /\ waitingProcess # NoProcess)
        /\ p \in {"writer", "reader"}
    BY <1>7 DEF WakeOn, Procs
  <2> QED BY <2>1, <1>0, <1>7, WriterWakesQuiet, WriterReturnsQuiet, ReaderWakesQuiet,
             ReaderReturnsQuiet
<1>8. ASSUME NEW p \in Procs, Exit(p) PROVE Undisturbed'
  BY <1>0, <1>8, WriterExitQuiet, ReaderExitQuiet DEF Procs
<1>9. ASSUME NEW p \in Procs, KillPid(p) PROVE Undisturbed'
  BY <1>0, <1>9, WriterKilledQuiet, ReaderKilledQuiet DEF Procs
<1>10. CASE UNCHANGED vars
  BY <1>0, <1>10, StutterQuiet
<1>11. ASSUME CloseOn PROVE Undisturbed'
  <2>1. pc["writer"] \in {"shut", "tell", "told", "gone"}
    BY <1>11 DEF CloseOn
  <2> QED BY <2>1, <1>0, <1>11, ShutQuiet, TellQuiet, ToldQuiet, GoneQuiet
<1> QED
  BY <1>0, <1>1, <1>2, <1>3, <1>4, <1>5, <1>6, <1>7, <1>8, <1>9, <1>10, <1>11,
     ResumeWriteQuiet, ResumeReadQuiet, ExitOfReadQuiet DEF Next, Step
-----------------------------------------------------------------------------
(* The theorems                                                            *)

LEMMA UndisturbedInit == Init => Undisturbed
<1> SUFFICES ASSUME Init PROVE Undisturbed
  OBVIOUS
<1> USE DEF Init, Procs, NoProcess
<1>1. /\ Len(got) = 0 /\ sent = 0 /\ Unread = 0 /\ PIPE_SIZE \in Nat \ {0}
  <2>1. got = << >> /\ sent = 0
    OBVIOUS
  <2> HIDE DEF Init
  <2>2. Len(got) = 0
    BY <2>1
  <2>3. Unread = 0 - 0
    BY <2>1, <2>2 DEF Unread
  <2> QED BY <2>1, <2>2, <2>3, SizeAssumption
<1>2. Alone /\ WaiterOK
  BY DEF Alone, WaiterOK, ResumedPcs, WriterPcs, ReaderPcs, ClosingPcs
<1>3. Counted /\ WaitsRightly
  BY <1>1 DEF Counted, WaitsRightly
<1>4. RoomOK
  BY <1>1 DEF RoomOK
<1>5. RingOK /\ Delivered
  BY <1>1 DEF RingOK, Delivered, Slot, NextReadPos
<1> QED BY <1>2, <1>3, <1>4, <1>5 DEF Undisturbed

\* Every step of pipeWrite, pipeRead, closeFdPipe and deleteProcessFromPipes keeps the
\* invariant (pipes.c:101-206), those of a resumed call and of an exit with interrupts
\* on included.
THEOREM InductiveInvariant == Spec => []IInv
<1>1. Init => IInv
  BY BaseInit, UndisturbedInit DEF IInv, Base
<1>2. IInv /\ [Next]_vars => IInv'
  <2> SUFFICES ASSUME IInv, [Next]_vars PROVE IInv'
    OBVIOUS
  <2>1. Base
    BY DEF IInv, Base
  <2>2. /\ TypeOK' /\ PcsOK' /\ TodoOK' /\ EndsOK' /\ WaiterIsAlive'
    BY <2>1, TypeStep, PcsStep, TodoStep, EndsStep, WaiterStep
  <2>3. hits' = 0 => Undisturbed'
    BY UndisturbedStep
  <2> QED BY <2>2, <2>3 DEF IInv
<1> QED BY <1>1, <1>2, PTL DEF Spec

\* A process blocked in the pipe is the registered one, which the next read, write
\* or close wakes, until the timer hits a call with interrupts on; a registered process is
\* never one that has ended (pipes.c:135-148, 160-180, 187-209).
THEOREM BlockedIsWoken == Spec => []Inv
<1>1. IInv => Inv
  <2> SUFFICES ASSUME IInv PROVE Inv
    OBVIOUS
  <2>1. TypeOK /\ WaiterIsAlive
    BY DEF IInv
  <2>2. BlockedIsWaiting
    <3> SUFFICES ASSUME hits = 0,
                        current \in Procs =>
                          pc[current] \notin {"wait", "clear", "told"},
                        NEW p \in Procs, pc[p] # "dead"
                 PROVE  pstate[p] = 0 <=> waitingProcess = p
      BY DEF BlockedIsWaiting
    <3>1. Alone /\ WaiterOK
      BY DEF IInv, Undisturbed
    <3>2. \A q \in Procs : pc[q] \notin {"wait", "clear", "told"}
      BY <3>1 DEF Alone, ResumedPcs, ClosingPcs
    <3> QED BY <3>1, <3>2 DEF Alone, WaiterOK
  <2> QED BY <2>1, <2>2 DEF Inv
<1> QED BY <1>1, InductiveInvariant, PTL

\* The reader gets the bytes in order and each once, and none is overwritten before
\* it is read, until the timer hits a resumed call (pipes.c:134-143, 165-174).
THEOREM BytesInOrder == Spec => []Fifo
<1>1. IInv => Fifo
  <2> SUFFICES ASSUME IInv, hits = 0 PROVE Fifo
    BY DEF Fifo
  <2>1. TypeOK /\ Delivered /\ Counted /\ RoomOK
    BY DEF IInv, Undisturbed
  <2>2. \A i \in DOMAIN got : got[i] = i
    BY <2>1 DEF Delivered, TypeOK
  <2>3. bytesToRead <= Unread
    BY <2>1, SizeAssumption DEF Counted, Unread, TypeOK
  <2>4. \/ \E p \in Procs : pc[p] \in {"load", "add", "sub", "take"}
        \/ bytesToRead = sent - Len(got)
    BY <2>1 DEF Counted, Unread, Procs
  <2>5. readOpen => bytesToRead <= PIPE_SIZE
    <3>1. bytesToRead \in Int /\ Unread \in Int /\ PIPE_SIZE \in Int
      BY <2>1, SizeAssumption DEF TypeOK, Unread
    <3> QED BY <2>1, <2>3, <3>1 DEF RoomOK, Kept
  <2> QED BY <2>2, <2>4, <2>5 DEF Fifo
<1> QED BY <1>1, InductiveInvariant, PTL

\* The pipe is freed by the last exit and never before, whatever the timer hits but an
\* exit by F2 (pipes.c:101-127).
THEOREM LastExitFrees == Spec => []FreedAtTheEnd
<1>1. IInv => FreedAtTheEnd
  BY DEF IInv, EndsOK, EndsOf, FreedAtTheEnd, Procs, ClosingPcs
<1> QED BY <1>1, InductiveInvariant, PTL
=============================================================================
