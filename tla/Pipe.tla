-------------------------------- MODULE Pipe --------------------------------
(***************************************************************************)
(* One pipe of the shell's `writer | reader` (Kernel/utils/pipes.c): a     *)
(* process that writes strings to its stdout and exits, and one that reads *)
(* its stdin until the end (cat, wc, filter) and exits.                    *)
(*                                                                         *)
(* A system call starts with interrupts off and is one step up to its      *)
(* return or to the runScheduler by which it blocks.  A call that blocked  *)
(* resumes behind `sti; int 20h` (Kernel/asm/libasm.asm):                  *)
(*   - with interrupts on until it returns to the program, so each access  *)
(*     to shared state is a step and the timer may come between any two;   *)
(*   - through _xchg, which stores the low half of rsi at rdi.  In         *)
(*     pipeWrite these are still its arguments, string and fd: the flags   *)
(*     readable and writable of the writer's fdPipe become bytes of an     *)
(*     address, zero or not.  In pipeRead rdi is the empty string of line  *)
(*     153.                                                                *)
(* An exit is one step too, but not the one that the key F2 makes of a     *)
(* read of the keyboard that waited: it runs with interrupts on.  Only the *)
(* writer (cat in `cat | wc`) reads the keyboard.                          *)
(*                                                                         *)
(* The k-th byte written is the number k.                                  *)
(***************************************************************************)
EXTENDS Integers, Sequences, FiniteSetsExt

CONSTANTS
  PIPE_SIZE,
  MaxWrite,   \* bound: the longest string written
  MaxBytes,   \* bound: how many bytes are written in all
  MaxKills,   \* bound: how often a process is killed
  MaxHits     \* bound: how often the timer hits a call with interrupts on

\* The programs write their strings whole, and none is longer than a pipe: with a
\* longer one a writer that fills the pipe would replace a waiting reader.
ASSUME SizeAssumption == PIPE_SIZE \in Nat \ {0} /\ MaxWrite \in 1..PIPE_SIZE
ASSUME BoundAssumption ==
  /\ MaxBytes \in Nat
  /\ MaxKills \in Nat /\ MaxHits \in Nat

Procs == {"writer", "reader"}
NoProcess == "none"   \* the null waitingProcess; every other process of the system

\* Where a process is: in its program, asleep in runScheduler, ended, or at an
\* access of a resumed pipeWrite or pipeRead, or of an exit with interrupts on.
WriterPcs  == {"put", "load", "add", "full"}
ReaderPcs  == {"empty", "check", "load", "sub", "take"}
ClosingPcs == {"shut", "tell", "told", "gone"}
ResumedPcs ==
  WriterPcs \union ReaderPcs \union ClosingPcs \union {"block", "wait", "wake", "clear"}
Pcs        == ResumedPcs \union {"user", "eof", "asleep", "dead"}

VARIABLES
  data, readPos, writePos, bytesToRead,   \* the ring of the pipe
  readOpen, writeOpen,                    \* its ends
  waitingProcess,
  freed,     \* the pipe has left the array and its memory is free
  fd,        \* the readable and writable flags of the writer's fdPipe
  todo,      \* bytes of the string being written that are left
  pstate,    \* pcb.pstate: 1 ready, 0 blocked
  pc,
  reg,       \* the register a resumed call has loaded
  current,   \* the running process
  sent,      \* history: how many bytes were stored
  got,       \* history: the bytes delivered
  kills, hits,
  cut        \* history: the timer hit an exit with interrupts on

ring == <<data, readPos, writePos, bytesToRead>>
ends == <<readOpen, writeOpen, freed>>
vars == <<data, readPos, writePos, bytesToRead, readOpen, writeOpen,
          waitingProcess, freed, fd, todo, pstate, pc, reg, current, sent, got,
          kills, hits, cut>>

Nothing == -1   \* in reg: the resumed pipeRead has found no byte and returns 0

\* The flags of the write end, which createPipe sets.
Intact == [readable |-> FALSE, writable |-> TRUE]

Goto(p, l) == pc' = [pc EXCEPT ![p] = l]
SetState(p, s) == [pstate EXCEPT ![p] = s]
-----------------------------------------------------------------------------
\* createPipe, and the createProcess of both sides.
Init ==
  /\ data = [i \in 0..(PIPE_SIZE - 1) |-> 0]
  /\ readPos = 0 /\ writePos = 0 /\ bytesToRead = 0
  /\ readOpen = TRUE /\ writeOpen = TRUE
  /\ waitingProcess = NoProcess
  /\ freed = FALSE
  /\ fd = Intact
  /\ todo = 0
  /\ pstate = [p \in Procs |-> 1]
  /\ pc = [p \in Procs |-> "user"]
  /\ reg = [p \in Procs |-> 0]
  /\ current = NoProcess
  /\ sent = 0 /\ got = <<>>
  /\ kills = 0 /\ hits = 0 /\ cut = FALSE

Dispatchable(p) == p # NoProcess => pstate[p] = 1 /\ pc[p] # "dead"

\* The timer interrupt hands the CPU to p.
Tick(p) ==
  /\ Dispatchable(p)
  /\ current' = p
  /\ IF current \in Procs /\ pc[current] \in ResumedPcs
     THEN hits < MaxHits /\ hits' = hits + 1
     ELSE UNCHANGED hits
  /\ cut' = (cut \/ (current = "writer" /\ pc["writer"] \in ClosingPcs))
  /\ UNCHANGED <<ring, ends, waitingProcess, fd, todo, pstate, pc, reg, sent,
                 got, kills>>

\* The int 20h of runScheduler, in a step that leaves the caller blocked or ended.
\* The scheduler's next choice is the Tick that follows.
Switch == current' = NoProcess

\* Wrong on purpose: the waiter is set ready but stays registered.
WakeUpKept ==
  /\ pstate' = IF waitingProcess = NoProcess THEN pstate
               ELSE SetState(waitingProcess, 1)
  /\ UNCHANGED waitingProcess

\* Wrong on purpose: nobody is woken.
WakeUpNobody == UNCHANGED <<pstate, waitingProcess>>

\* Lines 145-148, 177-180, with interrupts off.
WakeUp ==
  /\ pstate' = IF waitingProcess = NoProcess THEN pstate
               ELSE SetState(waitingProcess, 1)
  /\ waitingProcess' = NoProcess

\* The caller blocks and is the one to be woken.
Await(p) ==
  /\ pstate' = SetState(p, 0)
  /\ waitingProcess' = p
  /\ Goto(p, "asleep")
  /\ Switch
-----------------------------------------------------------------------------
(* pipeWrite                                                               *)

\* How many bytes fit before the loop finds the pipe full; past PIPE_SIZE it
\* never does.
Room == IF bytesToRead > PIPE_SIZE THEN MaxBytes ELSE PIPE_SIZE - bytesToRead

\* Store the next k bytes: lines 140-142.
Put(k) ==
  /\ data' = [i \in DOMAIN data |->
                LET last == {j \in 1..k : (writePos + j - 1) % PIPE_SIZE = i}
                IN  IF last = {} THEN data[i]
                    ELSE sent + Max(last)]
  /\ writePos' = (writePos + k) % PIPE_SIZE
  /\ sent' = sent + k

\* pipeWrite of k bytes; a refused one (line 130) changes nothing.
Write(k) ==
  /\ current = "writer" /\ pc["writer"] = "user"
  /\ k \in 1..MaxWrite /\ sent + k <= MaxBytes
  /\ fd.writable /\ (readOpen \/ bytesToRead # PIPE_SIZE)
  /\ \/ /\ k <= Room
        /\ Put(k)
        /\ bytesToRead' = bytesToRead + k
        /\ WakeUp
        /\ UNCHANGED <<todo, pc, current>>
     \/ /\ k > Room
        /\ Put(Room)
        /\ bytesToRead' = PIPE_SIZE
        /\ todo' = k - Room
        /\ Await("writer")
  /\ UNCHANGED <<readPos, ends, fd, reg, got, kills, hits, cut>>

\* Back from runScheduler, through _xchg.
ResumeWrite ==
  /\ current = "writer" /\ pc["writer"] = "asleep"
  /\ fd' \in [readable : BOOLEAN, writable : BOOLEAN]
  /\ Goto("writer", "put")
  /\ UNCHANGED <<ring, ends, waitingProcess, todo, pstate, reg, current, sent,
                 got, kills, hits, cut>>

\* The rest of the loop with interrupts on: store a byte, line 143 as a load and
\* a store, and the test of line 135.
WriteOn ==
  /\ current = "writer"
  /\ \/ /\ pc["writer"] = "put"
        /\ Put(1) /\ todo' = todo - 1 /\ Goto("writer", "load")
        /\ UNCHANGED <<bytesToRead, reg>>
     \/ /\ pc["writer"] = "load"
        /\ reg' = [reg EXCEPT !["writer"] = bytesToRead] /\ Goto("writer", "add")
        /\ UNCHANGED <<data, writePos, sent, bytesToRead, todo>>
     \/ /\ pc["writer"] = "add"
        /\ bytesToRead' = reg["writer"] + 1
        /\ Goto("writer", IF todo = 0 THEN "wake" ELSE "full")
        /\ UNCHANGED <<data, writePos, sent, reg, todo>>
     \/ /\ pc["writer"] = "full"
        /\ Goto("writer", IF bytesToRead = PIPE_SIZE THEN "block" ELSE "put")
        /\ UNCHANGED <<data, writePos, sent, bytesToRead, reg, todo>>
  /\ UNCHANGED <<readPos, ends, waitingProcess, fd, pstate, current, got, kills,
                 hits, cut>>
-----------------------------------------------------------------------------
(* pipeRead, called by read for one byte at a time                         *)

\* Wrong on purpose: the position wraps one byte late.
NextReadPosLate == IF readPos = PIPE_SIZE + 1 THEN 0 ELSE readPos

\* Lines 167-168: the position wraps before the byte is taken.
NextReadPos == IF readPos = PIPE_SIZE THEN 0 ELSE readPos

Take ==
  /\ got' = Append(got, IF NextReadPos \in DOMAIN data THEN data[NextReadPos] ELSE 0)
  /\ readPos' = NextReadPos + 1

Read ==
  /\ current = "reader" /\ pc["reader"] = "user"
  /\ \/ /\ bytesToRead = 0 /\ ~writeOpen
        /\ Goto("reader", "eof")
        /\ UNCHANGED <<readPos, bytesToRead, waitingProcess, pstate, current, got>>
     \/ /\ bytesToRead = 0 /\ writeOpen
        /\ Await("reader")
        /\ UNCHANGED <<readPos, bytesToRead, got>>
     \/ /\ bytesToRead # 0
        /\ bytesToRead' = bytesToRead - 1
        /\ Take
        /\ WakeUp
        /\ UNCHANGED <<pc, current>>
  /\ UNCHANGED <<data, writePos, ends, fd, todo, reg, sent, kills, hits, cut>>

ResumeRead ==
  /\ current = "reader" /\ pc["reader"] = "asleep"
  /\ Goto("reader", "check")
  /\ UNCHANGED <<ring, ends, waitingProcess, fd, todo, pstate, reg, current,
                 sent, got, kills, hits, cut>>

\* The rest with interrupts on: the test of line 165, line 166 as a load and a
\* store, the byte, and the tests of lines 157-158 in the next pipeRead that read
\* makes for the same line of input.
ReadOn ==
  /\ current = "reader"
  /\ \/ /\ pc["reader"] = "check"
        /\ Goto("reader", IF bytesToRead > 0 THEN "load" ELSE "wake")
        /\ reg' = [reg EXCEPT !["reader"] = IF bytesToRead > 0 THEN @ ELSE Nothing]
        /\ UNCHANGED <<readPos, bytesToRead, got>>
     \/ /\ pc["reader"] = "load"
        /\ reg' = [reg EXCEPT !["reader"] = bytesToRead] /\ Goto("reader", "sub")
        /\ UNCHANGED <<readPos, bytesToRead, got>>
     \/ /\ pc["reader"] = "sub"
        /\ bytesToRead' = reg["reader"] - 1 /\ Goto("reader", "take")
        /\ UNCHANGED <<readPos, reg, got>>
     \/ /\ pc["reader"] = "take"
        /\ Take /\ Goto("reader", "wake")
        /\ UNCHANGED <<bytesToRead, reg>>
     \/ /\ pc["reader"] = "empty"
        /\ Goto("reader", CASE bytesToRead # 0 -> "check"
                            [] bytesToRead = 0 /\ ~writeOpen -> "eof"
                            [] bytesToRead = 0 /\ writeOpen -> "block")
        /\ UNCHANGED <<readPos, bytesToRead, reg, got>>
  /\ UNCHANGED <<data, writePos, ends, waitingProcess, fd, todo, pstate, current,
                 sent, kills, hits, cut>>
-----------------------------------------------------------------------------
(* What both resumed calls do, with interrupts on                          *)

\* blockCurrentProcess, and then the store into waitingProcess and the switch.
BlockOn(p) ==
  /\ current = p
  /\ \/ /\ pc[p] = "block"
        /\ pstate' = SetState(p, 0) /\ Goto(p, "wait")
        /\ UNCHANGED <<waitingProcess, current>>
     \/ /\ pc[p] = "wait"
        /\ waitingProcess' = p /\ Goto(p, "asleep") /\ Switch
        /\ UNCHANGED pstate
  /\ UNCHANGED <<ring, ends, fd, todo, reg, sent, got, kills, hits, cut>>

\* Where a resumed call goes from its last line.  The writer returns.  The reader
\* may have a whole line; if not it reads on, and without a byte the program gets
\* what it has: the end of its input, or a part of a line before the next read.
Returns(p) ==
  IF p = "writer" THEN {"user"}
  ELSE {"user", IF reg[p] = Nothing THEN "eof" ELSE "empty"}

\* Lines 145-148, 177-180.
WakeOn(p) ==
  /\ current = p
  /\ \/ /\ pc[p] = "wake" /\ waitingProcess # NoProcess
        /\ pstate' = SetState(waitingProcess, 1)
        /\ Goto(p, "clear")
        /\ UNCHANGED waitingProcess
     \/ /\ \/ pc[p] = "wake" /\ waitingProcess = NoProcess
           \/ pc[p] = "clear"
        /\ waitingProcess' = NoProcess
        /\ \E l \in Returns(p) : Goto(p, l)
        /\ UNCHANGED pstate
  /\ UNCHANGED <<ring, ends, fd, todo, reg, current, sent, got, kills, hits, cut>>
-----------------------------------------------------------------------------
\* Wrong on purpose: nobody is told that an end was closed.
NoneToWake(readable, writable) == FALSE

\* Does closing an fdPipe with these flags wake the waiting process?
ClosingWakes(readable, writable) ==
  \/ readable /\ writeOpen
  \/ ~readable /\ writable /\ readOpen

\* Wrong on purpose: the pipe is freed with its write end.
FreedWithWriter(readable, writable) == freed \/ (~readable /\ writable)

\* Is the other end closed already?
LastClosed(readable, writable) ==
  \/ freed
  \/ readable /\ ~writeOpen
  \/ ~readable /\ writable /\ ~readOpen

\* Lines 107 and 116.
CloseEnd(readable, writable) ==
  /\ readOpen' = (readOpen /\ ~readable)
  /\ writeOpen' = (writeOpen /\ (readable \/ ~writable))

\* closeFdPipe of an fdPipe with these flags, with interrupts off.
CloseFdPipe(readable, writable) ==
  /\ CloseEnd(readable, writable)
  /\ freed' = LastClosed(readable, writable)

\* deleteProcessFromPipes.  (Line 204 also reads the pid of a null waitingProcess;
\* low memory is mapped and its contents are no pid in use.)
Forgotten(p) == IF waitingProcess = p THEN NoProcess ELSE waitingProcess

\* exit, with interrupts off: close, deleteProcess and the switch.  cat, wc and filter
\* end before their input does on an empty line.
Exit(p) ==
  LET readable == p = "reader" \/ fd.readable
      writable == p = "writer" /\ fd.writable
  IN  /\ current = p /\ pc[p] \in {"user", "eof"}
      /\ CloseFdPipe(readable, writable)
      /\ IF ClosingWakes(readable, writable)
         THEN WakeUp
         ELSE waitingProcess' = Forgotten(p) /\ UNCHANGED pstate
      /\ Goto(p, "dead")
      /\ Switch
      /\ UNCHANGED <<ring, fd, todo, reg, sent, got, kills, hits, cut>>

\* exit by the F2 of a read of the keyboard, with interrupts on.
ExitOfRead ==
  /\ current = "writer" /\ pc["writer"] = "user"
  /\ CloseEnd(fd.readable, fd.writable)
  /\ Goto("writer", "shut")
  /\ UNCHANGED <<ring, freed, waitingProcess, fd, todo, pstate, reg, current, sent, got,
                 kills, hits, cut>>

\* The rest of closeFdPipe, access by access, and deleteProcess.  (Of a pipe that the
\* reader has freed meanwhile the tests read what is in that memory by then; whether it
\* is freed again or a process is woken through it, it stays freed.  What a tick does
\* to deleteProcess is in module Scheduler.)
CloseOn ==
  /\ current = "writer"
  /\ \/ /\ pc["writer"] = "shut"
        /\ freed' = LastClosed(fd.readable, fd.writable)
        /\ Goto("writer", IF ~freed' /\ ClosingWakes(fd.readable, fd.writable)
                          THEN "tell" ELSE "gone")
        /\ UNCHANGED <<waitingProcess, pstate, current>>
     \/ /\ pc["writer"] = "tell"
        /\ pstate' = IF waitingProcess = NoProcess THEN pstate
                     ELSE SetState(waitingProcess, 1)
        /\ Goto("writer", IF waitingProcess = NoProcess THEN "gone" ELSE "told")
        /\ UNCHANGED <<freed, waitingProcess, current>>
     \/ /\ pc["writer"] = "told"
        /\ waitingProcess' = NoProcess
        /\ Goto("writer", "gone")
        /\ UNCHANGED <<freed, pstate, current>>
     \/ /\ pc["writer"] = "gone"
        /\ waitingProcess' = Forgotten("writer")
        /\ Goto("writer", "dead") /\ Switch
        /\ UNCHANGED <<freed, pstate>>
  /\ UNCHANGED <<ring, readOpen, writeOpen, fd, todo, reg, sent, got, kills, hits, cut>>

\* killPid by another process: it closes nothing.
KillPid(p) ==
  /\ current = NoProcess
  /\ pc[p] # "dead" /\ kills < MaxKills
  /\ waitingProcess' = Forgotten(p)
  /\ Goto(p, "dead")
  /\ kills' = kills + 1
  /\ UNCHANGED <<ring, ends, fd, todo, pstate, reg, current, sent, got, hits, cut>>

\* What the CPU does for p.
Step(p) ==
  \/ p = "writer" /\ (ResumeWrite \/ WriteOn \/ CloseOn)
  \/ p = "reader" /\ (Read \/ ResumeRead \/ ReadOn)
  \/ BlockOn(p)
  \/ WakeOn(p)
  \/ pc[p] = "eof" /\ Exit(p)

Next ==
  \/ \E p \in Procs \union {NoProcess} : Tick(p)
  \/ \E k \in 1..MaxWrite : Write(k)
  \/ \E p \in Procs : Step(p) \/ Exit(p) \/ KillPid(p)
  \/ ExitOfRead

Spec == Init /\ [][Next]_vars

\* The scheduler starves nobody, a system call goes on while it has the CPU, and
\* the reader reads until the end.  The writer need not write or exit.
Fairness == \A p \in Procs : SF_vars(Tick(p)) /\ SF_vars(Step(p))

FairSpec == Spec /\ Fairness
-----------------------------------------------------------------------------
(* Properties                                                              *)

TypeOK ==
  /\ data \in [0..(PIPE_SIZE - 1) -> 0..MaxBytes]
  /\ readPos \in 0..PIPE_SIZE /\ writePos \in 0..(PIPE_SIZE - 1)
  /\ bytesToRead \in Int
  /\ {readOpen, writeOpen, freed} \subseteq BOOLEAN
  /\ waitingProcess \in Procs \union {NoProcess}
  /\ fd \in [readable : BOOLEAN, writable : BOOLEAN]
  /\ todo \in 0..MaxWrite
  /\ pstate \in [Procs -> {0, 1}]
  /\ pc \in [Procs -> Pcs] /\ reg \in [Procs -> Int]
  /\ current \in Procs \union {NoProcess}
  /\ sent \in 0..MaxBytes /\ got \in Seq(0..MaxBytes)
  /\ kills \in 0..MaxKills /\ hits \in 0..MaxHits /\ cut \in BOOLEAN

\* The reader gets the bytes in the order in which they were written, each once,
\* through any number of turns of the ring, blocked calls, early exits and kills,
\* until the timer hits a call with interrupts on; bytesToRead says how many are left;
\* and while the reader's end is open nothing is overwritten before it is read: the
\* writer, which does not test again after it was woken, is woken by a read.
Fifo ==
  hits = 0 =>
    /\ \A i \in DOMAIN got : got[i] = i
    /\ \/ \E p \in Procs : pc[p] \in {"load", "add", "sub", "take"}
       \/ bytesToRead = sent - Len(got)
    /\ readOpen => bytesToRead <= PIPE_SIZE

\* A process blocked in the pipe is the one that the next read, write or close
\* wakes; hence never both sides at once.
BlockedIsWaiting ==
  hits = 0 /\ (current \in Procs => pc[current] \notin {"wait", "clear", "told"}) =>
    \A p \in Procs :
      pc[p] # "dead" => (pstate[p] = 0 <=> waitingProcess = p)

\* The waiting process is never one that has ended, whoever ended it and when.
WaiterIsAlive ==
  waitingProcess \in {NoProcess} \union {p \in Procs : pc[p] # "dead"}

\* The invariant of the waiting side.
Inv == TypeOK /\ BlockedIsWaiting /\ WaiterIsAlive

\* The pipe is freed by the exit of the last of the two processes, and not before:
\* always when both exit and the writer's fdPipe has kept its flags.  Nobody uses it, or
\* frees it again, after that.  Until the timer hits an exit by F2: behind line 116 the
\* reader may see the end, exit and free the pipe that the writer then goes on closing.
FreedAtTheEnd ==
  ~cut =>
    /\ freed => pc["reader"] = "dead" /\ pc["writer"] \in {"gone", "dead"}
    /\ kills = 0 /\ fd = Intact /\ (\A p \in Procs : pc[p] = "dead") => freed

\* A process was killed, or the timer hit a call with interrupts on.
Disturbed == kills > 0 \/ hits > 0

\* Until the pipe is disturbed, a writer blocked while the reader's end is open goes on
\* some time: the reader reads, or closes.  (Line 135 does not look at readOpen: a
\* writer that finds the pipe full after the reader has closed, in a write that began
\* before it was full, blocks for good.)
WriterGoesOn ==
  pc["writer"] = "asleep" /\ readOpen ~> (pc["writer"] # "asleep" \/ Disturbed)

\* Until then the reader also comes to the end of its input and exits, after a writer
\* whose fdPipe has kept its flags has exited.
InputEnds ==
  pc["writer"] = "dead" /\ fd = Intact ~> (pc["reader"] = "dead" \/ Disturbed)
-----------------------------------------------------------------------------
(* What the documents promise and the code does not keep.                  *)

\* "wc: Cuenta las lineas ingresadas por stdin" (Readme.md:23), which wc does when
\* its input ends: after the writer has exited the reader gets there.
WcCounts == pc["writer"] = "dead" ~> pc["reader"] = "dead"

\* "cat: Imprime en pantalla los caracteres recibidos por stdin" (Readme.md:25):
\* the reader gets what was written, in order.
CatPrints == \A i \in DOMAIN got : got[i] = i
=============================================================================
