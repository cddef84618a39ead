------------------------------ MODULE PipeTable ------------------------------
(***************************************************************************)
(* The kernel's array of pipes (Kernel/utils/pipes.c: createPipe,          *)
(* openPipeId, closeFdPipe) and the fdPipes of the processes: the pairs    *)
(* that the shell's managePipe starts on a new pipe, and the programs p2   *)
(* and p3 (Userland/SampleCodeModule/apps.c), which open pipe 1 by number. *)
(*                                                                         *)
(* openPipeId writes through fd->pipe before it sets it, or returns        *)
(* without setting it.  The memory of the fdPipe is not cleared: it holds  *)
(* the pipe of an earlier fdPipe, or NULL (memory that was never used).    *)
(* At NULL is the IDT: the bytes that stand for readOpen and writeOpen are *)
(* reserved ones, but pipeWrite overwrites gates.                          *)
(*                                                                         *)
(* A call that starts in a program is one step: it runs with interrupts    *)
(* off.  With interrupts on run                                            *)
(*   - a read that has slept: it takes what is there, and read makes the   *)
(*     next pipeRead for the same line, which looks, blocks and registers; *)
(*   - the exit that F2 makes of a read of the keyboard, by the left side  *)
(*     of a pair.  When the timer hits it this module stops: module Pipe   *)
(*     follows what comes of it for one pipe.                              *)
(* Here a pipe only has something to read or not; byte by byte it is in    *)
(* module Pipe.                                                            *)
(***************************************************************************)
EXTENDS Integers, Sequences, FiniteSets, SequencesExt, FiniteSetsExt

CONSTANTS
  Procs,       \* the processes, beside the shell
  Cells,       \* addresses that alloc returns for a pipe
  MAX_PIPES,
  PIPE_IDS,    \* the number of values of the counter pipeIds: 256
  MaxDisturbances,  \* bound: how many of the disturbances happen
  NULL

ASSUME CellsAssumption ==
  NULL \notin Cells /\ IsFiniteSet(Cells) /\ MAX_PIPES <= Cardinality(Cells)
ASSUME ProcsAssumption == NULL \notin Procs
ASSUME IdsAssumption == MAX_PIPES \in Nat /\ MAX_PIPES > 1 /\ PIPE_IDS \in Nat \ {0}
ASSUME BoundAssumption == MaxDisturbances \in Nat

VARIABLES
  pipes,       \* the entries below pipeAmount
  pipeIds,
  cell,        \* what memory holds at each address
  used,        \* the addresses that are allocated
  prog,        \* what a process executes: its part of a pair, "p2", "p3" or "none"
  pc,          \* where it is; "asleep" in pipeRead, behind it in the rest of read
  ready,       \* pcb.pstate = 1
  fd,          \* the fdPipe of a process
  seen,        \* history: which disturbances have happened so far
  count        \* history: how many of them

vars == <<pipes, pipeIds, cell, used, prog, pc, ready, fd, seen, count>>
log == <<seen, count>>
array == <<pipes, pipeIds, used>>

\* The number that p2 and p3 open.
NAMED == 1
NoFd == [pipe |-> NULL, readable |-> FALSE, writable |-> FALSE]

\* A pipe was opened whose flag was set elsewhere; an open was refused; pipeIds
\* came round while an older pipe was there; a process was killed; a pair was not
\* started; the timer hit a read that had looked and not registered yet.
\* "wild": memory that is nothing of the above was written, and "cut": the timer hit
\* an exit with interrupts on.  What the system then does is not modelled.
Disturbances == {"missed", "refused", "wrapped", "killed", "unstarted", "hit", "wild", "cut"}
Note(s) ==
  /\ seen' = seen \union s
  /\ count' = count + Cardinality(s \ {"wild"})
  /\ count' <= MaxDisturbances
Calm == seen \intersect {"wild", "cut"} = {}

Indices == 1..Len(pipes)
\* The entries with the number id.
Found(id) == {i \in Indices : cell[pipes[i]].id = id}

Closed == [id |-> NAMED, readOpen |-> FALSE, writeOpen |-> FALSE, unread |-> FALSE,
           waiting |-> NULL]
-----------------------------------------------------------------------------
Init ==
  /\ pipes = <<>> /\ pipeIds = 0
  /\ cell = [c \in Cells |-> Closed]
  /\ used = {}
  /\ prog = [p \in Procs |-> "none"]
  /\ pc = [p \in Procs |-> "start"]
  /\ ready = [p \in Procs |-> TRUE]
  /\ fd = [p \in Procs |-> NoFd]
  /\ seen = {} /\ count = 0

\* A process that does not exist, and no pipe points to the pcb.
Absent(p) == prog[p] = "none" /\ \A c \in Cells : cell[c].waiting # p

\* Wrong on purpose: the number is taken from the array's length.
NextIdOfLength == MAX_PIPES + Len(pipes)

\* Line 34.
NextId == MAX_PIPES + pipeIds

Incremented == (pipeIds + 1) % PIPE_IDS

\* createPipe; its failure leaves two fdPipes as they were allocated.
createPipe(c) ==
  /\ Calm /\ Len(pipes) < MAX_PIPES /\ c \in Cells \ used
  /\ pipes' = Append(pipes, c) /\ used' = used \union {c}
  /\ pipeIds' = Incremented
  /\ cell' = [cell EXCEPT ![c] = [id |-> NextId, readOpen |-> TRUE, writeOpen |-> TRUE,
                                  unread |-> FALSE, waiting |-> NULL]]

\* The counter comes round while an older pipe is there.
Wrapping == IF pipeIds = PIPE_IDS - 1 /\ pipes # <<>> THEN {"wrapped"} ELSE {}

\* The shell's `w | r`.
managePipe(w, r) ==
  /\ w # r /\ Absent(w) /\ Absent(r)
  /\ \E c \in Cells :
       /\ createPipe(c)
       /\ fd' = [fd EXCEPT ![r] = [pipe |-> c, readable |-> TRUE, writable |-> FALSE],
                           ![w] = [pipe |-> c, readable |-> FALSE, writable |-> TRUE]]
  /\ prog' = [prog EXCEPT ![w] = "left", ![r] = "right"]
  /\ pc' = [pc EXCEPT ![w] = "open", ![r] = "open"]
  /\ ready' = [ready EXCEPT ![w] = TRUE, ![r] = TRUE]
  /\ Note(Wrapping)

\* With an unknown command the shell returns after it has made the pipe.
CommandNotFound ==
  /\ \E c \in Cells : createPipe(c)
  /\ Note({"unstarted"} \union Wrapping)
  /\ UNCHANGED <<prog, pc, ready, fd>>

\* createPipe returns -1 to managePipe, which goes on with fdPipes not set.
TooManyPipes ==
  /\ Calm /\ Len(pipes) = MAX_PIPES
  /\ Note({"wild"})
  /\ UNCHANGED <<array, cell, prog, pc, ready, fd>>

createProcess(p, program) ==
  /\ Calm /\ Absent(p) /\ program \in {"p2", "p3"}
  /\ prog' = [prog EXCEPT ![p] = program]
  /\ pc' = [pc EXCEPT ![p] = "start"]
  /\ ready' = [ready EXCEPT ![p] = TRUE]
  /\ UNCHANGED <<array, cell, fd, log>>
-----------------------------------------------------------------------------
\* Lines 54-55: the flags are set whatever comes of the open.
Opened(p, c) == [fd EXCEPT ![p] = [pipe |-> c, readable |-> prog[p] = "p3",
                                   writable |-> prog[p] = "p2"]]

\* The end of pipe c that p opens is open already.
EndTaken(p, c) == IF prog[p] = "p3" THEN cell[c].readOpen ELSE cell[c].writeOpen

\* Lines 74-77 with j in fd->pipe.
SetOpen(p, j) ==
  IF j = NULL THEN cell
  ELSE IF prog[p] = "p3" THEN [cell EXCEPT ![j].readOpen = TRUE]
  ELSE [cell EXCEPT ![j].writeOpen = TRUE]

\* p3 leaves when the open is refused; p2 does not look.
openPipeId(p) ==
  /\ Calm /\ prog[p] \in {"p2", "p3"} /\ pc[p] = "start"
  /\ \/ /\ Found(NAMED) = {} /\ Len(pipes) < MAX_PIPES
        \* waitingProcess is not set: a pcb that exists, or nothing that matters.
        /\ \E c \in Cells \ used, q \in {r \in Procs : prog[r] # "none"} \union {NULL} :
             /\ pipes' = Append(pipes, c) /\ used' = used \union {c}
             /\ cell' = [cell EXCEPT ![c] =
                  [id |-> NAMED, readOpen |-> prog[p] = "p3", writeOpen |-> prog[p] = "p2",
                   unread |-> FALSE, waiting |-> q]]
             /\ fd' = Opened(p, c)
        /\ pc' = [pc EXCEPT ![p] = "open"]
        /\ UNCHANGED <<pipeIds, log>>
     \/ \* Line 58 compares with PIPE_SIZE: the entry is stored behind the array.
        /\ Found(NAMED) = {} /\ Len(pipes) = MAX_PIPES
        /\ Note({"wild"})
        /\ UNCHANGED <<array, cell, fd, pc>>
     \/ \E i \in Found(NAMED), j \in Cells \union {NULL} :
          /\ EndTaken(p, pipes[i])
          /\ fd' = Opened(p, j)
          /\ pc' = [pc EXCEPT ![p] = IF prog[p] = "p3" THEN "leave" ELSE "open"]
          /\ Note({"refused"})
          /\ UNCHANGED <<array, cell>>
     \/ \E i \in Found(NAMED), j \in Cells \union {NULL} :
          /\ ~EndTaken(p, pipes[i])
          /\ cell' = SetOpen(p, j)
          /\ fd' = Opened(p, pipes[i])
          /\ pc' = [pc EXCEPT ![p] = "open"]
          /\ Note(IF j = pipes[i] THEN {} ELSE {"missed"})
          /\ UNCHANGED array
  /\ UNCHANGED <<prog, ready>>

\* Wrong on purpose: nobody is woken.
WokenNobody(c) == ready

\* The waiting process of pipe c is set ready.
Woken(c) == IF cell[c].waiting = NULL THEN ready
            ELSE [ready EXCEPT ![cell[c].waiting] = TRUE]

\* A program that opened by number writes or reads once.
After(p) == IF prog[p] \in {"p2", "p3"} THEN "leave" ELSE "open"

pipeWrite(p) ==
  LET c == fd[p].pipe
  IN  /\ Calm /\ ready[p] /\ pc[p] = "open" /\ fd[p].writable
      /\ IF c = NULL
         THEN Note({"wild"}) /\ UNCHANGED <<cell, ready>>
         ELSE /\ cell' = [cell EXCEPT ![c].unread = TRUE, ![c].waiting = NULL]
              /\ ready' = Woken(c)
              /\ UNCHANGED log
      /\ pc' = [pc EXCEPT ![p] = After(p)]
      /\ UNCHANGED <<array, prog, fd>>

\* Nothing to read, and somebody may write yet: lines 157-158.
Blocks(c) == ~cell[c].unread /\ cell[c].writeOpen

\* Line 160 up to the switch.
Waits(p) ==
  /\ cell' = [cell EXCEPT ![fd[p].pipe].waiting = p]
  /\ ready' = [ready EXCEPT ![p] = FALSE]
  /\ pc' = [pc EXCEPT ![p] = "asleep"]

\* Lines 164-180.
Takes(c) ==
  /\ cell' = [cell EXCEPT ![c].unread = FALSE, ![c].waiting = NULL]
  /\ ready' = Woken(c)

\* A pipeRead of p3, or the read of the right side of a pair.
pipeRead(p) ==
  LET c == fd[p].pipe
  IN  /\ Calm /\ ready[p] /\ pc[p] = "open" /\ fd[p].readable
      /\ \/ Blocks(c) /\ Waits(p)
         \/ ~Blocks(c) /\ Takes(c) /\ pc' = [pc EXCEPT ![p] = After(p)]
      /\ UNCHANGED <<array, prog, fd, log>>

\* The rest of a pipeRead that has slept, or that read makes after it: read wants
\* another byte unless the line is complete or there was none.
ReadOn(p) ==
  LET c == fd[p].pipe
      more == IF prog[p] = "right" /\ cell[c].unread THEN {"again"} ELSE {}
  IN  /\ Calm /\ ready[p]
      /\ pc[p] = "asleep" \/ (pc[p] = "again" /\ ~Blocks(c))
      /\ Takes(c)
      /\ \E l \in {After(p)} \union more : pc' = [pc EXCEPT ![p] = l]
      /\ UNCHANGED <<array, prog, fd, log>>

\* The pipeRead that read makes for the next byte blocks, if the timer lets it.
BlockOn(p) ==
  /\ Calm /\ ready[p] /\ pc[p] = "again" /\ Blocks(fd[p].pipe)
  /\ \/ Waits(p) /\ UNCHANGED log
     \/ Note({"hit"}) /\ pc' = [pc EXCEPT ![p] = "block"] /\ UNCHANGED <<cell, ready>>
  /\ UNCHANGED <<array, prog, fd>>

\* A read that was hit goes on: blockCurrentProcess and the store into waitingProcess,
\* with or without the timer between them.
HitOn(p) ==
  /\ Calm /\ ready[p]
  /\ \/ pc[p] = "block" /\ Waits(p)
     \/ /\ pc[p] = "block"
        /\ ready' = [ready EXCEPT ![p] = FALSE]
        /\ pc' = [pc EXCEPT ![p] = "store"]
        /\ UNCHANGED cell
     \/ /\ pc[p] = "store"
        /\ cell' = [cell EXCEPT ![fd[p].pipe].waiting = p]
        /\ pc' = [pc EXCEPT ![p] = "asleep"]
        /\ UNCHANGED ready
  /\ UNCHANGED <<array, prog, fd, log>>
-----------------------------------------------------------------------------
\* Lines 94-98.
Removed(i) == RemoveAt(pipes, i)

\* deletePipeFromArray looks for the number it reads in the pipe.
deletePipeFromArray(c) ==
  LET entries == Found(cell[c].id)
  IN  IF entries = {} THEN pipes ELSE Removed(Min(entries))

\* Wrong on purpose: the pipe is freed when its first end is closed.
FirstClosed(f) == TRUE

\* The other end of the pipe of f is closed already.
OtherClosed(f) == IF f.readable THEN ~cell[f.pipe].writeOpen ELSE ~cell[f.pipe].readOpen

Shut(f, c) ==
  IF f.readable THEN [cell EXCEPT ![c].readOpen = FALSE]
  ELSE [cell EXCEPT ![c].writeOpen = FALSE]

\* What closeFdPipe leaves in memory.
AfterClose(f) ==
  IF f.pipe = NULL THEN cell
  ELSE IF OtherClosed(f) THEN Shut(f, f.pipe)
  ELSE [Shut(f, f.pipe) EXCEPT ![f.pipe].waiting = NULL]

\* closeFdPipe, and m is the memory after it.
closeFdPipe(p, m) ==
  LET f == fd[p]  c == f.pipe
  IN  /\ m = AfterClose(f)
      /\ \/ /\ c = NULL   \* nothing there has number, waiting process or memory to free
            /\ UNCHANGED <<pipes, used, ready, log>>
         \/ /\ c # NULL /\ OtherClosed(f)
            /\ pipes' = deletePipeFromArray(c)
            /\ used' = used \ {c}
            \* The heap's free list takes a block twice.
            /\ Note(IF c \in used THEN {} ELSE {"wild"})
            /\ UNCHANGED ready
         \/ /\ c # NULL /\ ~OtherClosed(f)
            /\ ready' = Woken(c)
            /\ UNCHANGED <<pipes, used, log>>
      /\ fd' = [fd EXCEPT ![p] = NoFd]
      /\ UNCHANGED pipeIds

\* p2 and p3 close, and end in a later call.
Leave(p) ==
  /\ Calm /\ ready[p] /\ pc[p] = "leave"
  /\ closeFdPipe(p, cell')
  /\ pc' = [pc EXCEPT ![p] = "end"]
  /\ UNCHANGED prog

\* deleteProcessFromPipes, in a memory m and an array s.
Forgotten(p, m, s) ==
  [c \in Cells |-> IF c \in Range(s) /\ m[c].waiting = p
                   THEN [m[c] EXCEPT !.waiting = NULL] ELSE m[c]]

\* exit of p2 and p3, which have closed; one of a pair closes in it.
Exit(p) ==
  /\ Calm /\ ready[p]
  /\ prog' = [prog EXCEPT ![p] = "none"]
  /\ \/ /\ prog[p] \in {"left", "right"} /\ pc[p] = "open"
        /\ LET m == AfterClose(fd[p])
           IN  closeFdPipe(p, m) /\ cell' = Forgotten(p, m, pipes')
     \/ /\ pc[p] = "end"
        /\ cell' = Forgotten(p, cell, pipes)
        /\ UNCHANGED <<array, ready, fd, log>>
  /\ pc' = [pc EXCEPT ![p] = "start"]

\* The exit by F2 of the left side of a pair, hit behind line 116.
CutExit(p) ==
  /\ Calm /\ ready[p] /\ prog[p] = "left" /\ pc[p] = "open" /\ fd[p].pipe # NULL
  /\ cell' = Shut(fd[p], fd[p].pipe)
  /\ Note({"cut"})
  /\ UNCHANGED <<array, prog, pc, ready, fd>>

\* killPid closes nothing.
KillPid(p) ==
  /\ Calm /\ prog[p] # "none"
  /\ prog' = [prog EXCEPT ![p] = "none"]
  /\ fd' = [fd EXCEPT ![p] = NoFd]
  /\ cell' = Forgotten(p, cell, pipes)
  /\ Note(IF fd[p].pipe = NULL THEN {} ELSE {"killed"})
  /\ pc' = [pc EXCEPT ![p] = "start"] /\ ready' = [ready EXCEPT ![p] = TRUE]
  /\ UNCHANGED array

Next ==
  \/ CommandNotFound \/ TooManyPipes
  \/ \E p \in Procs :
       \/ \E r \in Procs : managePipe(p, r)
       \/ createProcess(p, "p2") \/ createProcess(p, "p3")
       \/ openPipeId(p) \/ pipeWrite(p) \/ pipeRead(p)
       \/ ReadOn(p) \/ BlockOn(p) \/ HitOn(p)
       \/ Leave(p) \/ Exit(p) \/ CutExit(p) \/ KillPid(p)

Spec == Init /\ [][Next]_vars
\* For TLC: processes are alike, and so are addresses.
Symmetry == Permutations(Procs) \union Permutations(Cells)
-----------------------------------------------------------------------------
(* Properties                                                              *)

TypeOK ==
  /\ pipes \in Seq(Cells) /\ Len(pipes) <= MAX_PIPES
  /\ pipeIds \in 0..(PIPE_IDS - 1)
  /\ cell \in [Cells -> [id : {NAMED} \union (MAX_PIPES .. (MAX_PIPES + PIPE_IDS - 1)),
                         readOpen : BOOLEAN, writeOpen : BOOLEAN, unread : BOOLEAN,
                         waiting : Procs \union {NULL}]]
  /\ used \subseteq Cells
  /\ prog \in [Procs -> {"left", "right", "p2", "p3", "none"}]
  /\ pc \in [Procs -> {"start", "open", "asleep", "again", "block", "store", "leave", "end"}]
  /\ ready \in [Procs -> BOOLEAN]
  /\ fd \in [Procs -> [pipe : Cells \union {NULL}, readable : BOOLEAN, writable : BOOLEAN]]
  /\ seen \subseteq Disturbances /\ count \in 0..MaxDisturbances

\* Until a pipe is joined or refused by number or the numbers wrap, the array has an
\* entry for every allocated pipe and for no other, each with a number of its own,
\* whoever is killed, whichever read the timer hits and in whatever order the ends are
\* closed.
TableIsAllocated ==
  seen \subseteq {"killed", "unstarted", "hit"} =>
    /\ Range(pipes) = used /\ Len(pipes) = Cardinality(used)
    /\ \A i, j \in Indices : cell[pipes[i]].id = cell[pipes[j]].id => i = j

\* The invariant of the array.
Inv == TypeOK /\ TableIsAllocated

\* While nothing disturbs the pipes, the end of an allocated pipe is open exactly while
\* a process has it, and a process has no end of a freed one.
EndsMatchHolders ==
  seen = {} =>
    /\ \A p \in Procs : fd[p].pipe # NULL => fd[p].pipe \in used
    /\ \A c \in used :
         /\ cell[c].readOpen <=> \E p \in Procs : fd[p].pipe = c /\ fd[p].readable
         /\ cell[c].writeOpen <=> \E p \in Procs : fd[p].pipe = c /\ fd[p].writable

\* A process blocked in pipeRead is the one its pipe will wake, and a process that
\* exists has the other end, to write or to close, until a holder is killed, a pipe is
\* joined or refused by number, the numbers wrap, or the timer hits a read that has
\* found nothing before it is registered, or an exit by F2.
SleeperHasWriter ==
  seen \subseteq {"unstarted"} =>
    \A p \in Procs :
      prog[p] # "none" /\ ~ready[p] =>
        /\ cell[fd[p].pipe].waiting = p
        /\ \E q \in Procs :
             fd[q].pipe = fd[p].pipe /\ fd[q].writable /\ prog[q] # "none" /\ ready[q]
-----------------------------------------------------------------------------
(* What the documents promise and the code does not keep.                  *)

\* "wait for p2 to leave msg in pipe" (apps.c:108): the pipe that p3 has opened is
\* there until p3 closes it.
PipeWaits ==
  \A p \in Procs : prog[p] = "p3" /\ pc[p] \in {"open", "asleep"} => fd[p].pipe \in used
=============================================================================
