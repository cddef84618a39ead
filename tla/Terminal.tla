------------------------------ MODULE Terminal ------------------------------
(***************************************************************************)
(* The keyboard and its readers: keyboard_handler and getInput             *)
(* (Kernel/interruptions/keyboard.c), the ring of waiting readers          *)
(* (waitForKeyboard and awakeKeyboardQueue of Kernel/utils/scheduler.c)    *)
(* and the line that read (Kernel/interruptions/syscalls.c) edits, for a   *)
(* reader whose standard input is no pipe.                                 *)
(*                                                                         *)
(* There are two readers, the shell and at most one foreground process,    *)
(* and the shell is not dispatched while there is one.  The first wait of  *)
(* a read happens with interrupts off and is one step.  The reader resumes *)
(* behind runScheduler with interrupts on, so from then on the timer and   *)
(* the keyboard may interrupt between any two accesses.                    *)
(*                                                                         *)
(* Keys are what ASCIITable makes of the scan codes: the release of a key  *)
(* counts as a key of its own, NoKey, except that of a shift, which        *)
(* toggles again.                                                          *)
(***************************************************************************)
EXTENDS Integers, Sequences, FiniteSets

CONSTANTS
  MAX_WAITING_KEYBOARD, \* the ring has one node more
  LineSize,             \* characters of a line that read stores (100)
  MaxCount,             \* bound: characters typed in a line
  MaxHits,              \* bound: timer interrupts of a resumed read
  MaxSeen               \* bound: kinds of disturbances in a behaviour

\* Each of the two readers has a node of the ring (of 10 in the source).
ASSUME SizeAssumption == MAX_WAITING_KEYBOARD \in Nat \ {0} /\ LineSize \in Nat
ASSUME BoundAssumption == {MaxCount, MaxHits, MaxSeen} \subseteq Nat

Readers == {"shell", "fg"}
Nodes   == 0..MAX_WAITING_KEYBOARD
NoKey   == "none"
\* The keys that read tells apart; F1 copies registers and changes no line.
Keys    == {"a", "back", "enter", "f1", "f2", "f3", "shift"}
Other   == "other"   \* any process that does not read, or none

VARIABLES
  actualKey,          \* the last key, until getInput takes it
  node, head, tail,   \* waitingKeyboardList: its nodes, current and tail
  size,               \* waitingKeyboardList->size
  pstate,             \* pcb.pstate of the readers: 1 ready, 0 blocked
  pc, current,        \* where the readers are, and who has the CPU
  limit, buf, count,  \* read: its limit, the characters stored in front of count,
                      \* and count
  key, reg,           \* the key read has taken; a register of waitForKeyboard
  mayus,              \* read: letters are capitals
  down, shift,        \* the kind of the key that is held down; whether a shift is
  typed,              \* history: the line as it was typed
  hits,               \* history: timer interrupts of a resumed read so far
  seen                \* history: which disturbances have happened so far

ring  == <<node, head, tail, size>>
line  == <<limit, buf, count, typed>>
user  == <<down, shift>>
vars  == <<actualKey, ring, pstate, pc, current, line, key, reg, mayus, user,
           hits, seen>>

\* A reader is in its program, switched out in waitForKeyboard, at a line behind
\* it, or not there.
ResumedPcs == {"clear", "handle", "block", "put", "size", "store"}
Pcs        == {"user", "wait", "gone"} \union ResumedPcs

\* A key was overwritten unread; a key came while its reader did not wait for it;
\* it woke the other reader; it came while the ring was being changed; the timer
\* interrupted a resumed read.
Disturbances == {"erased", "ahead", "swallowed", "midway", "hit"}

Successor(n) == IF n = MAX_WAITING_KEYBOARD THEN 0 ELSE n + 1
Active       == IF pc["fg"] # "gone" THEN "fg" ELSE "shell"

\* The shell is not dispatched while there is a foreground process.
Eligible(p) ==
  pstate[p] = 1 /\ pc[p] # "gone" /\ (p = "shell" => pc["fg"] = "gone")
Switch == current' \in {p \in Readers : Eligible(p)'} \union {Other}

Goto(p, l)  == pc' = [pc EXCEPT ![p] = l]
Runs(p, l)  == current = p /\ pc[p] = l
-----------------------------------------------------------------------------
Init ==
  /\ actualKey = NoKey
  /\ node = [n \in Nodes |-> Other] /\ head = 0 /\ tail = 0 /\ size = 0
  /\ pstate = [p \in Readers |-> 1]
  /\ pc = [p \in Readers |-> IF p = "shell" THEN "user" ELSE "gone"]
  /\ current = "shell"
  /\ limit = [p \in Readers |-> -1]
  /\ buf = [p \in Readers |-> <<>>] /\ count = [p \in Readers |-> 0]
  /\ key = [p \in Readers |-> NoKey] /\ reg = [p \in Readers |-> 0]
  /\ mayus = FALSE
  /\ down = NoKey /\ shift = FALSE
  /\ typed = [p \in Readers |-> <<>>]
  /\ hits = 0 /\ seen = {}

Sees(d) == seen' = seen \union d /\ Cardinality(seen') <= MaxSeen

\* The timer interrupt.
Tick ==
  /\ IF current \in Readers /\ pc[current] \in ResumedPcs
     THEN hits < MaxHits /\ hits' = hits + 1 /\ Sees({"hit"})
     ELSE UNCHANGED <<hits, seen>>
  /\ UNCHANGED <<actualKey, ring, pstate, pc, line, key, reg, mayus, user>>
  /\ Switch
-----------------------------------------------------------------------------
(* The keyboard interrupt.                                                 *)

\* Wrong on purpose: the reader is not made ready.
AwakeNobody ==
  IF size = 0 THEN UNCHANGED <<size, pstate, head>>
  ELSE size' = size - 1 /\ head' = Successor(head) /\ UNCHANGED pstate

\* A node that no reader was put in holds NULL.
awakeKeyboardQueue ==
  \/ size = 0 /\ UNCHANGED <<size, pstate, head>>
  \/ /\ size > 0 /\ size' = size - 1
     /\ pstate' = [p \in Readers |-> IF p = node[head] THEN 1 ELSE pstate[p]]
     /\ head' = Successor(head)

Disturbs(k) ==
  LET waits == pc[Active] = "wait" /\ pstate[Active] = 0
  IN  {d \in Disturbances :
         \/ d = "erased" /\ actualKey # NoKey
         \/ d = "ahead" /\ k # NoKey /\ ~waits
         \/ d = "swallowed" /\ k # NoKey /\ waits /\ node[head] # Active
         \/ d = "midway" /\ \E p \in Readers : pc[p] \in {"put", "size", "store"}}

keyboard_handler(k) ==
  /\ actualKey' = k
  /\ awakeKeyboardQueue
  /\ Sees(Disturbs(k))
  /\ UNCHANGED <<node, tail, pc, current, limit, buf, count, key, reg, mayus, hits>>

\* What the user sees of the line.
Edited(s, k) ==
  CASE k = "a" -> Append(s, IF shift THEN "A" ELSE "a")
    [] k = "back" /\ s # <<>> -> SubSeq(s, 1, Len(s) - 1)
    [] OTHER -> s

Press(k) ==
  /\ down = NoKey
  /\ k = "a" => Len(typed[Active]) < MaxCount /\ count[Active] < MaxCount
  /\ keyboard_handler(k)
  /\ typed' = [typed EXCEPT ![Active] = Edited(@, k)]
  /\ down' = (IF k \in {"f1", "f2", "f3"} THEN "function" ELSE "ascii")
  /\ UNCHANGED shift

\* The release of a function key has a code beyond the table.
Release ==
  /\ down # NoKey /\ down' = NoKey
  /\ IF down = "function"
     THEN UNCHANGED <<actualKey, ring, pstate, pc, current, limit, buf, count,
                      key, reg, mayus, hits, seen>>
     ELSE keyboard_handler(NoKey)
  /\ UNCHANGED <<typed, shift>>

\* Entries 0x2A, 0x36, 0xAA and 0xB6 of ASCIITable.
ShiftKey == "shift"

Shift ==
  /\ keyboard_handler(ShiftKey)
  /\ shift' = ~shift
  /\ UNCHANGED <<down, typed>>

Keyboard == (\E k \in Keys \ {"shift"} : Press(k)) \/ Release \/ Shift
-----------------------------------------------------------------------------
(* The readers.                                                            *)

\* The shell starts a foreground process that reads lines (cat) or keys (phylo).
StartFg ==
  /\ Runs("shell", "user") /\ pc["fg"] = "gone"
  /\ Goto("fg", "user")
  /\ pstate' = [pstate EXCEPT !["fg"] = 1]
  /\ \E n \in {-1, 1} : limit' = [limit EXCEPT !["fg"] = n]
  /\ UNCHANGED <<actualKey, ring, current, buf, count, typed, key, reg, mayus,
                 user, hits, seen>>

\* read with interrupts off, up to the switch of its first waitForKeyboard.
Read(p) ==
  /\ Runs(p, "user")
  /\ buf' = [buf EXCEPT ![p] = <<>>] /\ count' = [count EXCEPT ![p] = 0]
  /\ typed' = [typed EXCEPT ![p] = <<>>]
  /\ pstate' = [pstate EXCEPT ![p] = 0]
  /\ node' = [node EXCEPT ![tail] = p] /\ tail' = Successor(tail)
  /\ size' = size + 1
  /\ Goto(p, "wait")
  /\ UNCHANGED <<actualKey, head, limit, key, reg, mayus, user, hits, seen>>
  /\ Switch

\* getInput up to its assignment: without a key, read waits again.
LoadKey(p) ==
  /\ Runs(p, "wait")
  /\ key' = [key EXCEPT ![p] = actualKey]
  /\ Goto(p, IF actualKey = NoKey THEN "block" ELSE "clear")
  /\ UNCHANGED <<actualKey, ring, pstate, current, line, reg, mayus, user, hits, seen>>

ClearKey(p) ==
  /\ Runs(p, "clear")
  /\ actualKey' = NoKey
  /\ Goto(p, "handle")
  /\ UNCHANGED <<ring, pstate, current, line, key, reg, mayus, user, hits, seen>>

\* The loop condition of read, when n characters have been read.
Loop(p, n) == Goto(p, IF n < limit[p] \/ limit[p] = -1 THEN "block" ELSE "user")

Done(p) == key' = [key EXCEPT ![p] = NoKey]

\* Wrong on purpose: the length of the line is not tested.
StoredAnyway(s, n, c) == Append(s, c)

\* Lines 97-98: the character number n of the line.
Stored(s, n, c) == IF n < LineSize THEN Append(s, c) ELSE s

\* The n characters that a backspace leaves.
Left(s, n) == IF n < Len(s) THEN SubSeq(s, 1, n) ELSE s

Char(p) ==
  /\ Runs(p, "handle") /\ key[p] = "a"
  /\ buf' = [buf EXCEPT ![p] = Stored(@, count[p], IF mayus THEN "A" ELSE "a")]
  /\ count' = [count EXCEPT ![p] = @ + 1]
  /\ Loop(p, count[p] + 1) /\ Done(p)
  /\ UNCHANGED <<actualKey, ring, pstate, current, limit, typed, reg, mayus, user,
                 hits, seen>>

\* The cursor is never at the start of the screen when the line has a character.
Backspace(p) ==
  /\ Runs(p, "handle") /\ key[p] = "back"
  /\ count' = [count EXCEPT ![p] = IF @ > 0 THEN @ - 1 ELSE @]
  /\ buf' = [buf EXCEPT ![p] = Left(@, count'[p])]
  /\ Loop(p, count'[p]) /\ Done(p)
  /\ UNCHANGED <<actualKey, ring, pstate, current, limit, typed, reg, mayus, user,
                 hits, seen>>

\* Shifts and F1.
NoChar(p) ==
  /\ Runs(p, "handle") /\ key[p] \in {"shift", "f1"}
  /\ mayus' = IF key[p] = "shift" THEN ~mayus ELSE mayus
  /\ Loop(p, count[p]) /\ Done(p)
  /\ UNCHANGED <<actualKey, ring, pstate, current, line, reg, user, hits, seen>>

\* The end of the line, and F3.
Return(p) ==
  /\ Runs(p, "handle") /\ key[p] \in {"enter", "f3"}
  /\ Goto(p, "user") /\ Done(p)
  /\ UNCHANGED <<actualKey, ring, pstate, current, line, reg, mayus, user, hits, seen>>

\* F2, and the end of a foreground program.
Exit(p) ==
  /\ current = p
  /\ \/ pc[p] = "handle" /\ key[p] = "f2"
     \/ pc[p] = "user" /\ p = "fg"
  /\ Goto(p, "gone") /\ Done(p)
  /\ limit' = [limit EXCEPT ![p] = -1]
  /\ buf' = [buf EXCEPT ![p] = <<>>] /\ count' = [count EXCEPT ![p] = 0]
  /\ typed' = [typed EXCEPT ![p] = <<>>]
  /\ UNCHANGED <<actualKey, ring, pstate, reg, mayus, user, hits, seen>>
  /\ Switch

\* waitForKeyboard with interrupts on.
Wait(p) ==
  /\ current = p
  /\ \/ /\ pc[p] = "block" /\ Goto(p, "put")
        /\ pstate' = [pstate EXCEPT ![p] = 0]
        /\ UNCHANGED <<ring, reg, current>>
     \/ /\ pc[p] = "put" /\ Goto(p, "size")
        /\ node' = [node EXCEPT ![tail] = p] /\ tail' = Successor(tail)
        /\ UNCHANGED <<head, size, pstate, reg, current>>
     \/ /\ pc[p] = "size" /\ Goto(p, "store")
        /\ reg' = [reg EXCEPT ![p] = size]
        /\ UNCHANGED <<ring, pstate, current>>
     \/ /\ pc[p] = "store" /\ Goto(p, "wait")
        /\ size' = reg[p] + 1 /\ reg' = [reg EXCEPT ![p] = 0]
        /\ UNCHANGED <<node, head, tail, pstate>>
        /\ Switch
  /\ UNCHANGED <<actualKey, line, key, mayus, user, hits, seen>>

Reader(p) ==
  \/ Read(p) \/ LoadKey(p) \/ ClearKey(p)
  \/ Char(p) \/ Backspace(p) \/ NoChar(p) \/ Return(p) \/ Exit(p)
  \/ Wait(p)

Next ==
  \/ Tick
  \/ Keyboard
  \/ StartFg
  \/ \E p \in Readers : Reader(p)

Spec == Init /\ [][Next]_vars

\* The scheduler hands the CPU to the active reader while it stays ready, and once in
\* a while a time slice is long enough for a step of it.
FairSpec ==
  /\ Spec
  /\ SF_vars(\E p \in Readers : p = Active /\ Reader(p))
  /\ WF_vars(Tick /\ current' = Active)
-----------------------------------------------------------------------------
(* Properties                                                              *)

TypeOK ==
  /\ actualKey \in Keys \union {NoKey} /\ key \in [Readers -> Keys \union {NoKey}]
  /\ node \in [Nodes -> Readers \union {Other}]
  /\ head \in Nodes /\ tail \in Nodes /\ size \in Nat /\ reg \in [Readers -> Nat]
  /\ pstate \in [Readers -> {0, 1}] /\ pc \in [Readers -> Pcs]
  /\ current \in Readers \union {Other}
  /\ limit \in [Readers -> {-1, 1}] /\ count \in [Readers -> Nat]
  /\ buf \in [Readers -> Seq({"a", "A"})] /\ typed \in [Readers -> Seq({"a", "A"})]
  /\ \A p \in Readers : Len(buf[p]) <= LineSize /\ Len(typed[p]) <= MaxCount
  /\ mayus \in BOOLEAN /\ shift \in BOOLEAN /\ down \in {NoKey, "ascii", "function"}
  /\ hits \in 0..MaxHits /\ seen \subseteq Disturbances

Places(p)  == {i \in 0..(size - 1) : node[(head + i) % (MAX_WAITING_KEYBOARD + 1)] = p}
Blocked(p) == pc[p] = "wait" /\ pstate[p] = 0

\* While no interrupt has split waitForKeyboard, the ring names exactly the blocked
\* readers, each once, whatever keys come early or late: nobody waits unseen, and the
\* ring never holds more readers than it has nodes.
RingIsRight ==
  seen \intersect {"hit", "midway"} = {} =>
    /\ size <= MAX_WAITING_KEYBOARD + 1
    /\ \A p \in Readers : pc[p] = "wait" =>
         /\ Places(p) = {} <=> pstate[p] = 1
         /\ \A i, j \in Places(p) : i = j

\* The line of the active reader, when it waits for a key, is what was typed.
LineIsTyped ==
  Blocked(Active) => buf[Active] =
    SubSeq(typed[Active], 1, IF Len(typed[Active]) < LineSize
                             THEN Len(typed[Active]) ELSE LineSize)

\* The invariant of the ring: its types, and that it names the blocked readers.
Inv == TypeOK /\ RingIsRight

\* As long as every key finds its reader waiting, the line is what was typed: a
\* backspace takes off the last character, a shift holds for what follows it, and
\* letters are capitals while a shift is held, whichever reader saw it go down.
LineIsRight ==
  seen = {} => LineIsTyped /\ (Blocked(Active) => mayus = shift)

\* The end of a line that the active reader was woken for is always handed to its
\* program, unless it is disturbed.
LineIsReturned ==
  (pc[Active] = "wait" /\ actualKey = "enter") ~>
    (pc[Active] \in {"user", "gone"} \/ seen # {})
-----------------------------------------------------------------------------
(* What the documents promise and the code does not keep.                  *)

\* "cat: Imprime en pantalla los caracteres recibidos por stdin" (Readme.md:25), and
\* so does every reader, even when keys are released before the reader has run.
ReleasedKeyIsRead == seen \subseteq {"erased"} => LineIsTyped

\* The same of a foreground process that was started while the shell went on to
\* wait for its own next line.
ForegroundKeyIsRead == seen \subseteq {"swallowed"} => LineIsTyped

\* The same of a reader that the timer interrupts: it is still there to be woken.
InterruptedReaderIsListed ==
  seen \subseteq {"hit"} =>
    \A p \in Readers : pc[p] # "gone" /\ pstate[p] = 0 /\ current # p => Places(p) # {}
=============================================================================
