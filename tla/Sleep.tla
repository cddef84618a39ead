------------------------------- MODULE Sleep -------------------------------
(***************************************************************************)
(* The sleep system call and the timer's queue (Kernel/interruptions/      *)
(* time.c).  timer_handler runs in every hardware timer interrupt, and     *)
(* also in the int 20h by which runScheduler switches (irqHandlerMaster in *)
(* interrupts.asm does not tell them apart), so a process that sleeps or   *)
(* yields makes the kernel's clock tick as well.                           *)
(*                                                                         *)
(* A node of the queue points to a pcb.  deleteProcess frees the pcb of a  *)
(* killed process but not its node, and the heap hands the pcb to the next *)
(* process, so the model names pcbs and lets them be freed and reused.     *)
(*                                                                         *)
(* ticks - initialTicks is kept in the node as its age; the absolute       *)
(* number of ticks matters to nothing else.                                *)
(*                                                                         *)
(* The names that every specification has begin with Timer here: the       *)
(* proofs about timer, keyboard and screen share a module.                 *)
(***************************************************************************)
EXTENDS Integers, Sequences, FiniteSets, FiniteSetsExt

CONSTANTS
  Pcbs,       \* addresses of process control blocks
  TICKS,      \* timer interrupts per second, 18 in the source
  Seconds,    \* bound: the arguments of sleep
  MaxMeddling \* bound: how many kill and block commands are ever given

ASSUME TicksAssumption == TICKS \in Nat \ {0}
ASSUME SecondsAssumption ==
  Seconds \subseteq Nat /\ Seconds # {} /\ IsFiniteSet(Seconds)
ASSUME MeddlingAssumption == MaxMeddling \in Nat

VARIABLES
  start,   \* the queue: nodes along the next pointers
  pcb,     \* by pcb: "free", "awake" (pstate 1) or "asleep" (pstate 0)
  meddled  \* history: kill and block commands so far

timerVars == <<start, pcb, meddled>>

\* hw is history: the hardware interrupts among the ticks of age.
Node(p, s) == [process |-> p, seconds |-> s, age |-> 0, hw |-> 0]

Queued(p) == \E i \in DOMAIN start : start[i].process = p
-----------------------------------------------------------------------------
(* timer_handler, on a queue q whose ages already count the new tick       *)

Expired(n) == n.age \div TICKS >= n.seconds

\* The node that prev points to when the loop visits node i.
Prev(q, i) == IF i = 1 THEN 1 ELSE Max({j \in 1..(i-1) : ~Expired(q[j])})

\* Wrong on purpose: an expired node behind the head clears the queue too.
ClearsAlways(q) == {i \in DOMAIN q : Expired(q[i])}

\* The nodes at which the loop clears the whole queue (lines 40-44): an expired
\* head, or an expired node behind a node of the same process.
Clears(q) ==
  {i \in DOMAIN q : /\ Expired(q[i])
                    /\ i > 1 => ~Expired(q[1])
                    /\ q[i].process = q[Prev(q, i)].process}

Visited(q) == 1..(IF Clears(q) = {} THEN Len(q) ELSE Min(Clears(q)))

Woken(q) == {q[i].process : i \in {j \in Visited(q) : Expired(q[j])}}

\* Wrong on purpose: the node after a removed one is not visited.
RemainingSkipping(q) ==
  IF Clears(q) # {} THEN <<>>
  ELSE LET stays(i) == ~Expired(q[i]) \/ (i > 1 /\ Expired(q[i-1]))
           keep == {i \in DOMAIN q : stays(i)}
       IN  [k \in 1..Cardinality(keep) |->
              q[CHOOSE i \in keep : Cardinality({j \in keep : j <= i}) = k]]

Remaining(q) ==
  LET kept[i \in 0..Len(q)] ==
        IF i = 0 THEN <<>>
        ELSE IF Expired(q[i]) THEN kept[i-1] ELSE Append(kept[i-1], q[i])
  IN  IF Clears(q) # {} THEN <<>> ELSE kept[Len(q)]

\* Wrong on purpose: the tick counter wraps within a second.
AgedWrapping(q, hw) ==
  [i \in DOMAIN q |-> [q[i] EXCEPT !.age = (@ + 1) % TICKS, !.hw = (@ + hw) % TICKS]]

Aged(q, hw) ==
  [i \in DOMAIN q |-> [q[i] EXCEPT !.age = @ + 1, !.hw = @ + hw]]

\* q and states are the queue and the process states at the interrupt; hw is 1
\* for the hardware timer and 0 for int 20h.  Freed memory takes the write of
\* pstate without effect.
TimerHandler(q, states, hw) ==
  LET aged == Aged(q, hw)
  IN  /\ start' = Remaining(aged)
      /\ pcb' = [p \in Pcbs |-> IF p \in Woken(aged) /\ states[p] = "asleep"
                               THEN "awake" ELSE states[p]]
-----------------------------------------------------------------------------
TimerInit ==
  /\ start = <<>>
  /\ pcb = [p \in Pcbs |-> "awake"]
  /\ meddled = 0

\* A hardware timer interrupt.
HardwareTick == TimerHandler(start, pcb, 1) /\ UNCHANGED meddled

\* A running process switches by runScheduler without going to sleep.
Yield ==
  /\ \E p \in Pcbs : pcb[p] = "awake"
  /\ TimerHandler(start, pcb, 0)
  /\ UNCHANGED meddled

\* sleep: the node is linked in front, the caller blocks, and runScheduler runs
\* the handler at once.
SleepCall(p, s) ==
  /\ pcb[p] = "awake"
  /\ TimerHandler(<<Node(p, s)>> \o start, [pcb EXCEPT ![p] = "asleep"], 0)
  /\ UNCHANGED meddled

\* killPid on any other process: its node stays in the queue.
Kill(p) ==
  /\ meddled < MaxMeddling
  /\ pcb[p] # "free"
  /\ \E q \in Pcbs \ {p} : pcb[q] = "awake"
  /\ pcb' = [pcb EXCEPT ![p] = "free"]
  /\ meddled' = meddled + 1
  /\ UNCHANGED start

\* changeProcessState, the block command: a sleeper is set ready and keeps its
\* node.
ToggleState(p) ==
  /\ meddled < MaxMeddling
  /\ pcb[p] # "free"
  /\ \E q \in Pcbs \ {p} : pcb[q] = "awake"
  /\ pcb' = [pcb EXCEPT ![p] = IF @ = "awake" THEN "asleep" ELSE "awake"]
  /\ meddled' = meddled + 1
  /\ UNCHANGED start

\* createProcess gets the freed pcb back from the heap.
Create(p) ==
  /\ pcb[p] = "free"
  /\ pcb' = [pcb EXCEPT ![p] = "awake"]
  /\ UNCHANGED <<start, meddled>>

TimerNext ==
  \/ HardwareTick
  \/ Yield
  \/ \E p \in Pcbs, s \in Seconds : SleepCall(p, s)
  \/ \E p \in Pcbs : Kill(p)
  \/ \E p \in Pcbs : ToggleState(p)
  \/ \E p \in Pcbs : Create(p)

TimerSpec == TimerInit /\ [][TimerNext]_timerVars

\* The hardware timer keeps interrupting: no system call of this module leaves
\* interrupts off.
FairTimerSpec == TimerSpec /\ WF_timerVars(HardwareTick)
-----------------------------------------------------------------------------
(* Properties                                                              *)

TimerTypeOK ==
  /\ start \in Seq([process : Pcbs, seconds : Seconds,
                    age : 0..(TICKS * Max(Seconds)), hw : 0..(TICKS * Max(Seconds))])
  /\ pcb \in [Pcbs -> {"free", "awake", "asleep"}]
  /\ meddled \in 0..MaxMeddling

\* timer_handler leaves no expired node behind, whatever it unlinks on its way:
\* nobody oversleeps who is still queued.
NoExpiredNode == \A i \in DOMAIN start : ~Expired(start[i])

\* Without kill and block commands the queue holds each process at most once, and only
\* processes that are asleep: a timer node never wakes a process that waits for
\* something else.
NodesAreSleepers ==
  meddled = 0 =>
    /\ \A i, j \in DOMAIN start : start[i].process = start[j].process => i = j
    /\ \A i \in DOMAIN start : pcb[start[i].process] = "asleep"

\* The invariant of the queue behind every run of timer_handler.
TimerInv == TimerTypeOK /\ NoExpiredNode /\ NodesAreSleepers

\* Does the node n expire at the next tick?
Expiring(n) == Expired([n EXCEPT !.age = @ + 1])

\* Without kill and block commands a sleeper is dropped from the queue without
\* being woken only in the step in which the node at the head, which is another
\* process, expires and wakes: the head of the queue, or the node that sleep puts in
\* front of it with a time that is over at once.
DroppedOnlyBehindHead ==
  [][meddled = 0 =>
       \A p \in Pcbs : Queued(p) /\ pcb'[p] = "asleep" /\ ~Queued(p)' =>
         /\ start' = <<>>
         /\ \/ LET head == start[1].process
               IN  /\ head # p /\ Expiring(start[1])
                   /\ pcb[head] = "asleep" /\ pcb'[head] = "awake"
            \/ \E q \in Pcbs \ {p}, s \in Seconds :
                 SleepCall(q, s) /\ Expiring(Node(q, s)) /\ pcb'[q] = "awake"
    ]_timerVars

\* Each sleeper that is queued eventually leaves the queue, woken or dropped.
QueueDrains == \A p \in Pcbs : Queued(p) ~> (pcb[p] # "asleep" \/ ~Queued(p))
-----------------------------------------------------------------------------
(* What the documents promise and the code does not keep.                  *)

\* "wait for p2 to leave msg in pipe" (apps.c:108, behind sys_sleep(5)): who sleeps
\* goes on some time later, so it is queued for the timer to wake it.
SleeperIsQueued == \A p \in Pcbs : pcb[p] = "asleep" => Queued(p)

\* "Imprime un saludo cada x segundos" (Readme.md:27): the timer wakes a process
\* no earlier than TICKS hardware interrupts per second after its call.
SleepsLongEnough ==
  [][\A i \in DOMAIN start :
       /\ pcb[start[i].process] = "asleep" /\ pcb'[start[i].process] = "awake"
       => start[i].hw + 1 >= start[i].seconds * TICKS]_timerVars
=============================================================================
