----------------------------- MODULE Scheduler -----------------------------
(***************************************************************************)
(* The preemptive scheduler of the kernel (Kernel/utils/scheduler.c): the  *)
(* list of process control blocks, the choice of the next process with     *)
(* ageing, and the system calls that create, end, block and re-prioritise  *)
(* processes.                                                              *)
(*                                                                         *)
(* Every system call runs with interrupts disabled (the int 80h gate and   *)
(* the cli of syscallHandler.asm), so it is one step up to the point where *)
(* it calls runScheduler.  runScheduler is `sti; int 20h`: the interrupt   *)
(* shadow of sti makes the switch part of the same step.  Two things can   *)
(* still interleave and are actions of their own: the timer interrupt      *)
(* (Tick) and the wake-ups that other handlers perform (Wake).             *)
(*                                                                         *)
(* One system call is not one step: after waitForKeyboard a read goes on   *)
(* with interrupts on, and the key F2 makes it call exit (syscalls.c:75).  *)
(* exitCurrentProcess is then taken apart (LowerFlag to Unlinked).  A tick *)
(* behind line 266 leaves the process in the list for good, since it is    *)
(* never dispatched again.  The module follows that up to where another    *)
(* process changes the list, or allocates, while the recursion of          *)
(* deleteProcess has its nodes in hand or while a freed node is in the     *)
(* list (Tear): what the memory holds after that is not known.             *)
(*                                                                         *)
(* What the rest of the kernel does to a process here is only to block the *)
(* running one (semaphores, pipes, sleep, keyboard) and to set a blocked   *)
(* one ready.                                                              *)
(*                                                                         *)
(* QUANTUM is 1 in the source, so scheduler->quantum is always 0 and the   *)
(* early return of switchProcess (lines 186-189) is dead; it is left out.  *)
(***************************************************************************)
EXTENDS Integers, Sequences, FiniteSets, SequencesExt

CONSTANTS
  MaxPid,            \* bound: how many processes are ever created
  PRIORITY_QUANTUM,  \* switches between two ageing rounds, minus one
  NicePriorities,    \* bound: the priorities the nice system call is given
  MaxExiting         \* bound: exits with interrupts on that are under way at a time

ASSUME MaxPidAssumption == MaxPid \in Nat \ {0}
ASSUME QuantumAssumption == PRIORITY_QUANTUM \in Nat \ {0}
ASSUME NiceAssumption == NicePriorities \subseteq 2..10

Blocked == 0
Ready   == 1
Exited  == 2

NULL  == -1   \* the null ListNode pointer
Dummy == 0    \* the idle process: pid 0, never in the list
Shell == 1    \* the first process, loaded by the kernel's main

Foreground == 1   \* libc.c createProcess: no stdin and no trailing "&"
Background == 3   \* libc.c createProcess: everything else

Pids == 1..MaxPid

VARIABLES
  list,             \* scheduler->start: the pids along the next pointers
  pstate,           \* pcb.pstate, by pid
  priority,         \* pcb.priority, by pid; 0 where no pcb exists
  auxPriority,      \* pcb.auxPriority, by pid; 0 where no pcb exists
  current,          \* pid of scheduler->currentProcess
  fgTaken,          \* scheduler->fgTaken
  priorityQuantum,  \* scheduler->priorityQuantum
  nextPid,          \* the global pid: the next number to hand out
  firstProcess,     \* no process has been dispatched yet
  exitAt,           \* how far an exit with interrupts on has come, by pid
  torn              \* history: Tear has happened

vars == <<list, pstate, priority, auxPriority, current, fgTaken,
          priorityQuantum, nextPid, firstProcess, exitAt, torn>>

\* p has a node in the list.
Listed(p) == p \in ToSet(list)

\* A process that is executing user code, hence may make a system call.
Running == current \in Pids /\ pstate[current] = Ready /\ exitAt[current] = "no"

\* The current process is in exitCurrentProcess, with interrupts on.
Exiting(at) == current \in Pids /\ exitAt[current] = at

\* Another process was preempted while deleteProcess held its predecessors (it writes
\* their next pointers when it goes on), or left a freed node in the list.
Exposed == \E p \in Pids : p # current /\ Listed(p) /\ exitAt[p] \in {"found", "freed"}
-----------------------------------------------------------------------------
(* The two scans of switchProcess, and the choice between their results.   *)

\* Index of the node with pid p in l, or Len(l) + 1 when it is not there.
Position(l, p) ==
  IF p \in ToSet(l)
  THEN CHOOSE i \in 1..Len(l) : l[i] = p
  ELSE Len(l) + 1

\* What hangs from the next pointer of p: nothing for the dummy.
After(l, p) == SubSeq(l, Position(l, p) + 1, Len(l))

\* Wrong on purpose: takes the last of several minimal nodes.
NextStepLast(next, node, ps, ap) ==
  IF ps[next] # Ready \/ (ps[node] = Ready /\ ap[node] <= ap[next])
  THEN node ELSE next

\* One turn of the first loop: next is the candidate, node the node visited.
NextStep(next, node, ps, ap) ==
  LET candidate == IF ps[next] # Ready THEN node ELSE next
  IN  IF ap[node] < ap[candidate] /\ ps[node] = Ready
      THEN node ELSE candidate

\* The first loop: it visits s, the nodes after the current one.
NextScan(s, ps, ap) ==
  LET scan[i \in 0..Len(s)] ==
        IF i = 0 THEN s[1] ELSE NextStep(scan[i-1], s[i], ps, ap)
  IN  scan

NextProcess(s, ps, ap) ==
  IF s = <<>> THEN NULL ELSE NextScan(s, ps, ap)[Len(s)]

\* One turn of the second loop at index i of l.  The shell is stepped over
\* while a foreground process exists.
FirstMinStep(first, i, l, ps, ap, fg) ==
  IF l[i] = Shell /\ fg
  THEN IF first = Shell
       THEN IF i < Len(l) THEN l[i+1] ELSE NULL
       ELSE first
  ELSE LET candidate == IF ps[first] # Ready THEN l[i] ELSE first
       IN  IF ap[l[i]] < ap[candidate] /\ ps[candidate] = Ready
           THEN l[i] ELSE candidate

\* The second loop: it visits l up to, and not including, the process p.
FirstMinScan(l, p, ps, ap, fg) ==
  LET scan[i \in 0..(Position(l, p) - 1)] ==
        IF i = 0 THEN l[1] ELSE FirstMinStep(scan[i-1], i, l, ps, ap, fg)
  IN  scan

FirstMinReadyProcess(l, p, ps, ap, fg) ==
  IF l = <<>> THEN NULL
  ELSE FirstMinScan(l, p, ps, ap, fg)[Position(l, p) - 1]

\* Wrong on purpose: the current process is not kept.
NotKept(firstMin, p, ps) == firstMin

\* Lines 238-239: keep the current process when the second scan found nothing
\* ready.
Kept(firstMin, p, ps) ==
  IF /\ firstMin # NULL
     /\ ps[firstMin] # Ready
     /\ p # Dummy
     /\ ps[p] = Ready
  THEN p ELSE firstMin

\* Wrong on purpose: the shell is let through.
ShellLetThrough(min, fg) == min

\* Lines 241-242: the shell never takes the CPU from a foreground process.
ShellDropped(min, fg) == IF fg /\ min = Shell THEN NULL ELSE min

\* Lines 244-255: prefer the first scan's result on a tie, and idle when both
\* candidates are not ready.
Choose(next, firstMin, p, ps, ap, fg) ==
  LET min == ShellDropped(Kept(firstMin, p, ps), fg)
      nextReady == next # NULL /\ ps[next] = Ready
      minReady  == min # NULL /\ ps[min] = Ready
  IN  CASE ~nextReady /\ ~minReady -> Dummy
        [] ~nextReady /\ minReady  -> min
        [] nextReady /\ ~minReady  -> next
        [] nextReady /\ minReady   -> IF ap[min] < ap[next] THEN min ELSE next
-----------------------------------------------------------------------------
Init ==
  /\ list = <<Shell>>
  /\ pstate = [p \in Pids |-> IF p = Shell THEN Ready ELSE Exited]
  /\ priority = [p \in Pids |-> IF p = Shell THEN Foreground ELSE 0]
  /\ auxPriority = [p \in Pids |-> IF p = Shell THEN Foreground ELSE 0]
  /\ current = NULL
  /\ fgTaken = FALSE
  /\ priorityQuantum = PRIORITY_QUANTUM
  /\ nextPid = 2
  /\ firstProcess = TRUE
  /\ exitAt = [p \in Pids |-> "no"] /\ torn = FALSE

\* The first timer interrupt: the stack pointer is not saved.
FirstSwitch ==
  /\ firstProcess
  /\ firstProcess' = FALSE
  /\ current' = list[1]
  /\ UNCHANGED <<list, pstate, priority, auxPriority, fgTaken,
                 priorityQuantum, nextPid, exitAt, torn>>

\* Wrong on purpose: nobody ages.
NotAged(l, ps, ap) == ap

\* Wrong on purpose: ageing has no floor.
AgedBelowOne(l, ps, ap) ==
  [p \in Pids |-> IF p # current /\ ps[p] = Ready THEN ap[p] - 1 ELSE ap[p]]

\* Lines 193-201: one ageing round.
Aged(l, ps, ap) ==
  [p \in Pids |-> IF /\ p \in ToSet(l)
                     /\ ap[p] > 1
                     /\ p # current
                     /\ ps[p] = Ready
                  THEN ap[p] - 1 ELSE ap[p]]

\* switchProcess on the list l with the process states ps, the effective
\* priorities ap and the flag fg that the calling handler leaves; rest is what
\* the next pointer of the (possibly freed) current node leads to.
SwitchProcess(l, rest, ps, ap, fg) ==
  LET aged == IF priorityQuantum = 0 THEN Aged(l, ps, ap) ELSE ap
      next == NextProcess(rest, ps, aged)
      firstMin == FirstMinReadyProcess(l, current, ps, aged, fg)
      chosen == Choose(next, firstMin, current, ps, aged, fg)
  IN  /\ ~firstProcess
      /\ current' = chosen
      /\ auxPriority' = IF chosen = Dummy THEN aged
                        ELSE [aged EXCEPT ![chosen] = priority[chosen]]
      /\ priorityQuantum' = IF priorityQuantum = 0 THEN PRIORITY_QUANTUM
                            ELSE priorityQuantum - 1
      /\ UNCHANGED firstProcess

\* A timer interrupt, or the yield system call.
Tick ==
  /\ SwitchProcess(list, After(list, current), pstate, auxPriority, fgTaken)
  /\ UNCHANGED <<list, pstate, priority, fgTaken, nextPid, exitAt, torn>>
-----------------------------------------------------------------------------
\* Where loadProcess and changeProcessPriority link a node of priority pr: after
\* the last node of the leading run whose successors have priority <= pr.  The
\* head itself is never compared.
InsertPosition(l, pr) ==
  CHOOSE k \in 1..Len(l) :
    /\ k < Len(l) => pr < priority[l[k+1]]
    /\ \A j \in 1..(k-1) : pr >= priority[l[j+1]]

\* Wrong on purpose: appends the node whatever its priority.
LinkLast(l, p, pr) == l \o <<p>>

\* Wrong on purpose: the new node's next pointer is not set.
LinkCutsTail(l, p, pr) ==
  SubSeq(l, 1, InsertPosition(l, pr)) \o <<p>>

Link(l, p, pr) ==
  IF l = <<>> THEN <<p>>
  ELSE InsertAt(l, InsertPosition(l, pr) + 1, p)

\* Wrong on purpose: skips the node behind the removed one too.
UnlinkTwo(l, p) ==
  LET k == Position(l, p)
  IN  SubSeq(l, 1, k-1) \o SubSeq(l, k+2, Len(l))

Unlink(l, p) == RemoveAt(l, Position(l, p))

\* The programs start a foreground process only from the shell, which reads its
\* next command after the previous foreground process ended.
CreateProcess(pr) ==
  /\ Running /\ ~Exposed
  /\ nextPid <= MaxPid
  /\ pr = Foreground => current = Shell /\ ~fgTaken
  /\ fgTaken' = (fgTaken \/ pr = Foreground)
  /\ list' = Link(list, nextPid, pr)
  /\ pstate' = [pstate EXCEPT ![nextPid] = Ready]
  /\ priority' = [priority EXCEPT ![nextPid] = pr]
  /\ auxPriority' = [auxPriority EXCEPT ![nextPid] = pr]
  /\ nextPid' = nextPid + 1
  /\ UNCHANGED <<current, priorityQuantum, firstProcess, exitAt, torn>>

\* Wrong on purpose: any exit gives the terminal back.
FlagCleared == FALSE

FlagAfterExit ==
  IF priority[current] = Foreground THEN FALSE ELSE fgTaken

\* The last step of an exit.  The switch stores sp in the freed node (line 206) and
\* reads its next pointer (line 208) before anything can be allocated there: the node
\* still leads to its old successor, from where the first scan starts.
UnlinkAndSwitch(fg) ==
  LET ps == [pstate EXCEPT ![current] = Exited]
      ap == [auxPriority EXCEPT ![current] = 0]
  IN  /\ SwitchProcess(Unlink(list, current), After(list, current), ps, ap, fg)
      /\ list' = Unlink(list, current)
      /\ pstate' = ps
      /\ priority' = [priority EXCEPT ![current] = 0]
      /\ fgTaken' = fg
      /\ exitAt' = [exitAt EXCEPT ![current] = "no"]
      /\ UNCHANGED <<nextPid, torn>>

\* The shell only exits from its prompt, when no foreground process is left.
MayExit == Running /\ (current = Shell => ~fgTaken)

\* exitCurrentProcess followed by runScheduler, with interrupts off.
Exit ==
  /\ MayExit /\ ~Exposed
  /\ UnlinkAndSwitch(FlagAfterExit)

\* The same with interrupts on, from the F2 of a read that waited.  Line 281:
LowerFlag ==
  /\ MayExit /\ Cardinality({p \in Pids : exitAt[p] # "no"}) < MaxExiting
  /\ fgTaken' = FlagAfterExit
  /\ exitAt' = [exitAt EXCEPT ![current] = "lowered"]
  /\ UNCHANGED <<list, pstate, priority, auxPriority, current, priorityQuantum,
                 nextPid, firstProcess, torn>>

\* Lines 262-275, on the way down to the node.
FindNode ==
  /\ Exiting("lowered")
  /\ exitAt' = [exitAt EXCEPT ![current] = "found"]
  /\ UNCHANGED <<list, pstate, priority, auxPriority, current, fgTaken,
                 priorityQuantum, nextPid, firstProcess, torn>>

\* Line 266.
MarkExited ==
  /\ Exiting("found")
  /\ pstate' = [pstate EXCEPT ![current] = Exited]
  /\ exitAt' = [exitAt EXCEPT ![current] = "marked"]
  /\ UNCHANGED <<list, priority, auxPriority, current, fgTaken,
                 priorityQuantum, nextPid, firstProcess, torn>>

\* Lines 270-271.
FreeNode ==
  /\ Exiting("marked")
  /\ exitAt' = [exitAt EXCEPT ![current] = "freed"]
  /\ UNCHANGED <<list, pstate, priority, auxPriority, current, fgTaken,
                 priorityQuantum, nextPid, firstProcess, torn>>

\* Line 275 or 283.  A tick before the runScheduler that follows is that switch.
Unlinked ==
  /\ Exiting("freed") /\ ~Exposed
  /\ UnlinkAndSwitch(fgTaken)

\* A list with a freed node, or one that will be written from old pointers, is changed,
\* or memory is allocated.
Tear ==
  /\ Exposed /\ (Running \/ Exiting("freed"))
  /\ torn' = TRUE
  /\ UNCHANGED <<list, pstate, priority, auxPriority, current, fgTaken,
                 priorityQuantum, nextPid, firstProcess, exitAt>>

\* killPid.  No program kills itself, and none kills a foreground process: the
\* shell's kill command cannot be typed while one runs, unless that one has given up
\* the terminal and was preempted in its exit, and the other callers kill the
\* background processes they created.
KillPid(p) ==
  /\ Running /\ ~Exposed
  /\ p > Shell /\ p # current /\ Listed(p)
  /\ priority[p] = Foreground => exitAt[p] # "no"
  /\ list' = Unlink(list, p)
  /\ pstate' = [pstate EXCEPT ![p] = Exited]
  /\ priority' = [priority EXCEPT ![p] = 0]
  /\ auxPriority' = [auxPriority EXCEPT ![p] = 0]
  /\ exitAt' = [exitAt EXCEPT ![p] = "no"]
  /\ UNCHANGED <<current, fgTaken, priorityQuantum, nextPid, firstProcess, torn>>

\* changeProcessPriority.  Its callers are those of killPid.  The loop that looks
\* for the predecessor of p starts behind the head, so p must not be the head.
ChangeProcessPriority(p, pr) ==
  /\ Running /\ ~Exposed
  /\ p > Shell /\ Listed(p) /\ list[1] # p
  /\ priority[p] = Foreground => exitAt[p] # "no"
  /\ list' = Link(Unlink(list, p), p, pr)
  /\ priority' = [priority EXCEPT ![p] = pr]
  /\ auxPriority' = [auxPriority EXCEPT ![p] = pr]
  /\ UNCHANGED <<pstate, current, fgTaken, priorityQuantum, nextPid,
                 firstProcess, exitAt, torn>>

\* changeProcessState on another process: it toggles between ready and blocked, and
\* leaves one alone that has been marked.
ToggleState(p) ==
  /\ Running
  /\ p > Shell /\ p # current /\ Listed(p) /\ pstate[p] # Exited
  /\ pstate' = [pstate EXCEPT ![p] = IF @ = Ready THEN Blocked ELSE Ready]
  /\ UNCHANGED <<list, priority, auxPriority, current, fgTaken,
                 priorityQuantum, nextPid, firstProcess, exitAt, torn>>

\* The running process blocks (changeProcessState on itself, waitForKeyboard,
\* sleep, sem_wait, a pipe) and calls runScheduler with interrupts off.
BlockAndSwitch ==
  LET ps == [pstate EXCEPT ![current] = Blocked]
  IN  /\ Running
      /\ SwitchProcess(list, After(list, current), ps, auxPriority, fgTaken)
      /\ pstate' = ps
      /\ UNCHANGED <<list, priority, fgTaken, nextPid, exitAt, torn>>

\* blockCurrentProcess with interrupts on (a second turn of the loop of sem_wait,
\* which runs after runScheduler has executed sti): the switch is a later step.
BlockCurrentProcess ==
  /\ Running
  /\ pstate' = [pstate EXCEPT ![current] = Blocked]
  /\ UNCHANGED <<list, priority, auxPriority, current, fgTaken,
                 priorityQuantum, nextPid, firstProcess, exitAt, torn>>

\* An interrupt handler or a system call of another process sets p ready.
Wake(p) ==
  /\ ~firstProcess
  /\ Listed(p) /\ pstate[p] = Blocked
  /\ pstate' = [pstate EXCEPT ![p] = Ready]
  /\ UNCHANGED <<list, priority, auxPriority, current, fgTaken,
                 priorityQuantum, nextPid, firstProcess, exitAt, torn>>

Next ==
  \/ /\ ~torn
     /\ \/ FirstSwitch
        \/ Tick
        \/ \E pr \in {Foreground, Background} : CreateProcess(pr)
        \/ Exit
        \/ LowerFlag \/ FindNode \/ MarkExited \/ FreeNode \/ Unlinked
        \/ Tear
        \/ \E p \in Pids : KillPid(p)
        \/ \E p \in Pids, pr \in NicePriorities : ChangeProcessPriority(p, pr)
        \/ \E p \in Pids : ToggleState(p)
        \/ BlockAndSwitch
        \/ BlockCurrentProcess
        \/ \E p \in Pids : Wake(p)
  \/ torn /\ UNCHANGED vars

Spec == Init /\ [][Next]_vars

\* The timer interrupt keeps coming: no system call leaves interrupts off for
\* good here, and the hardware raises IRQ 0 18 times a second.  (Tick is enabled
\* after the first switch until Tear, and always changes priorityQuantum, so this is
\* WF_vars(FirstSwitch) /\ WF_vars(Tick) for the behaviours without Tear.)
FairSpec == Spec /\ []<><<Tick>>_vars
-----------------------------------------------------------------------------
(* Properties                                                              *)

TypeOK ==
  /\ list \in Seq(Pids)
  /\ pstate \in [Pids -> {Blocked, Ready, Exited}]
  /\ priority \in [Pids -> 0..10]
  /\ auxPriority \in [Pids -> 0..10]
  /\ current \in Pids \union {Dummy, NULL}
  /\ fgTaken \in BOOLEAN
  /\ priorityQuantum \in 0..PRIORITY_QUANTUM
  /\ nextPid \in 2..(MaxPid + 1)
  /\ firstProcess \in BOOLEAN
  /\ exitAt \in [Pids -> {"no", "lowered", "found", "marked", "freed"}]
  /\ torn \in BOOLEAN

\* The list holds each created process that has not ended exactly once, and beside them
\* only what was preempted, or is, between the marking and the unlinking of its own
\* exit: no relinking by nice, exit or kill loses or duplicates a node.
ListIsAlive ==
  /\ \A i, j \in 1..Len(list) : list[i] = list[j] => i = j
  /\ \A p \in Pids :
       Listed(p) <=> p < nextPid /\ (pstate[p] # Exited \/ exitAt[p] \in {"marked", "freed"})

\* What currentProcess points to, between two switches, is a node of the list (or the
\* dummy): nobody else unlinks the process that runs, and no process that was unlinked,
\* or marked and then preempted, is dispatched again.  (The switch that ends an exit
\* still writes to the node it has just unlinked.)
CurrentIsLive ==
  ~firstProcess => current = Dummy \/ Listed(current)

\* While it lives the shell is the head of the list: loadProcess and nice never
\* link in front of it, which the second scan (lines 221-226) relies on.
ShellIsHead == Listed(Shell) => list[1] = Shell

\* The list is ordered by priority while the shell, whose priority is the
\* highest, is its head.
SortedBehindShell ==
  Listed(Shell) =>
    \A i, j \in 1..Len(list) : i < j => priority[list[i]] <= priority[list[j]]

\* A foreground process that has not begun to exit.
HasForeground(p) ==
  p # Shell /\ Listed(p) /\ priority[p] = Foreground /\ exitAt[p] = "no"

\* fgTaken, which keeps the shell off the CPU, is set exactly while there is a
\* foreground process besides the shell that has not begun to exit, and then there is
\* only one: one that is preempted in its exit, even for good, keeps the shell neither
\* from running nor from starting the next, and takes nothing from that one.
ForegroundFlag ==
  /\ fgTaken <=> \E p \in Pids : HasForeground(p)
  /\ \A p, q \in Pids : HasForeground(p) /\ HasForeground(q) => p = q

\* Ageing keeps the effective priority between 1 and the nominal one.
AgeingBounded ==
  \A p \in Pids : Listed(p) => auxPriority[p] \in 1..priority[p]

\* May p be dispatched?
Eligible(p) == Listed(p) /\ pstate[p] = Ready /\ ~(p = Shell /\ fgTaken)

\* Whatever the switch dispatches is ready, and is not the shell while a
\* foreground process exists.
DispatchesEligible ==
  [][priorityQuantum' # priorityQuantum => 
       current' = Dummy \/ \E p \in Pids : p = current' /\ Eligible(p)']_vars

\* The first scan finds the first of the nodes behind the current one that is
\* ready with the least effective priority, when any of them is ready.
NextScanIsMinimal ==
  LET s == After(list, current)
      n == NextProcess(s, pstate, auxPriority)
      ready == {i \in 1..Len(s) : pstate[s[i]] = Ready}
  IN  ~firstProcess /\ ready # {} =>
        \E i \in ready :
          /\ n = s[i]
          /\ \A j \in ready : /\ auxPriority[s[i]] <= auxPriority[s[j]]
                              /\ j < i => auxPriority[s[i]] < auxPriority[s[j]]

\* The idle process runs although p may be dispatched only when a process of the list
\* that is not ready has a smaller effective priority than p: it hides p from the
\* second scan (line 233 tests the candidate's state, not the visited node's).
IdleIsExplained ==
  [][priorityQuantum' # priorityQuantum /\ current' = Dummy
     => \A p \in Pids : Eligible(p)' =>
          \E q \in Pids : /\ Listed(q)' /\ pstate'[q] # Ready
                          /\ auxPriority'[q] < auxPriority'[p]]_vars

\* A process that stays eligible is dispatched: ageing prevents starvation, unless
\* nice, which resets the effective priority, is called again and again.
NoStarvation ==
  \/ []<><<\E p \in Pids, pr \in NicePriorities : ChangeProcessPriority(p, pr)>>_vars
  \/ \A p \in Pids : Eligible(p) ~> (current = p \/ ~Eligible(p))
-----------------------------------------------------------------------------
(* What the documents promise and the code does not keep.                  *)

\* "lista ordenada por prioridades, los mas prioritarios primero"
\* (scheduler.c:34): the same claim without the shell.
SortedByPriority ==
  \A i, j \in 1..Len(list) : i < j => priority[list[i]] <= priority[list[j]]
=============================================================================
