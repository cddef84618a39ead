------------------------------ MODULE Session ------------------------------
(***************************************************************************)
(* A session at the prompt: the loop of the shell (apps.c), the lines that *)
(* read stores and echoes (Kernel/interruptions/syscalls.c), the screen    *)
(* (Console), the commands they become (Shell), and the processes that     *)
(* print in between.  A system call is one step.  The keys are characters  *)
(* that find their reader waiting: Terminal has the shifts and the keys    *)
(* that come too early.                                                    *)
(*                                                                         *)
(* The user has words in mind, types them with single blanks, and corrects *)
(* a slip with backspace.                                                  *)
(*                                                                         *)
(* The names that every specification has begin with Session here, and     *)
(* read's count is called length: the proofs about timer, keyboard and     *)
(* screen share a module.                                                  *)
(***************************************************************************)
EXTENDS Console, Shell

CONSTANTS
  LINE,       \* characters of a line that read stores (100); its buffer has one more
  Words,      \* bound: the words the user may type
  MaxWords,   \* bound: words in all lines together
  MaxSlips,   \* bound: wrong characters typed
  MaxPrints   \* bound: times another process prints

ASSUME SessionBounds == {LINE, MaxWords, MaxSlips, MaxPrints} \subseteq Nat

\* When the screen has scrolled there are more characters in front of the cursor than
\* the user takes back: 1840 in the source.
ASSUME SlipsAssumption == MaxSlips <= (height - 2) * width

VARIABLES
  console,
  memory,      \* the shell's buffer and what lies behind it
  length,      \* count of read
  stage,       \* of the shell: "prompt", "read" or "execute"
  outcome,     \* history: what the last command came to
  running, fg, \* the processes besides the shell; the foreground one, or 0
  nextPid,
  meant, entered, wordsLeft, slips, \* the user: the line he wants and the line he has
  prints,                         \* history: times another process has printed
  mixed,       \* history: somebody else has printed since the prompt
  odd          \* history: how the buffer came to differ from the line

typist == <<meant, wordsLeft, slips>>
sessionVars == <<console, memory, length, stage, outcome, running, fg, nextPid, typist,
                 entered, prints, mixed, odd>>

SomeWords ==
  {<<"loop">>, <<"kill">>, <<"clear">>, <<"2">>, <<"|">>, <<"&">>, <<"1", "2", "x">>}

Prompt == <<">", Blank>>
Render(words) ==
  LET line[n \in 0..Len(words)] ==
        CASE n = 0 -> <<>>
          [] n = 1 -> words[1]
          [] n > 1 -> line[n - 1] \o <<Blank>> \o words[n]
  IN  line[Len(words)]
Slip   == "x"

\* The characters that are typed and printed; no key of the table types the one that
\* shows the cursor, and the end of a row is a case of its own.
Signs  == {Blank, ">", "?", Slip}
Chars  == (UNION {Range(w) : w \in Words}) \union Range(Numeral) \union Signs
Glyphs == Chars \union {CursorMark, NUL}
ASSUME CharsAssumption == CursorMark \notin Chars /\ Newline \notin Chars

\* The name of a command counts as one character.
ASSUME WordsAssumption == \A w \in Words : w \in Seq(Chars) /\ Len(w) \in 1..3

MaxLen == 4 * MaxWords + MaxSlips
Memory == 0..(MaxLen + 1)

\* What an uninitialised buffer holds; behind everything there is an end.
Stale == {[i \in Memory |-> IF i = MaxLen + 1 THEN End ELSE c] : c \in {End, "clear"}}
-----------------------------------------------------------------------------
SessionInit ==
  /\ console = Cleared
  /\ memory \in Stale
  /\ length = 0 /\ stage = "prompt" /\ outcome = Unknown
  /\ running = {} /\ fg = 0 /\ nextPid = 2
  /\ meant = <<>> /\ entered = <<>> /\ wordsLeft = MaxWords /\ slips = 0
  /\ prints = 0 /\ mixed = FALSE /\ odd = {}

\* The shell prints the prompt and calls read.
PrintPrompt ==
  /\ stage = "prompt" /\ stage' = "read"
  /\ console' = ncPrint(console, Prompt)
  /\ length' = 0 /\ entered' = <<>> /\ meant' = <<>> /\ mixed' = FALSE /\ odd' = {}
  /\ outcome' = Unknown
  /\ UNCHANGED <<memory, running, fg, nextPid, wordsLeft, slips, prints>>

Reads == stage = "read" /\ fg = 0

\* Wrong on purpose: a line as long as the buffer loses its last character.
StoresOneLess(key) ==
  IF length < LINE - 1 THEN [memory EXCEPT ![length] = key] ELSE memory

\* Lines 97-98.
StoredKey(key) == IF length < LINE THEN [memory EXCEPT ![length] = key] ELSE memory

TypeKey(key) ==
  /\ Reads
  /\ memory' = StoredKey(key)
  /\ length' = length + 1
  /\ console' = ncPrintChar(console, key)
  /\ entered' = Append(entered, key)
  /\ UNCHANGED <<stage, outcome, running, fg, nextPid, prints, mixed, odd>>

\* The next character of the line, for which the user may decide on another word.
TypeNext ==
  /\ \/ UNCHANGED <<meant, wordsLeft>>
     \/ /\ entered = Render(meant) /\ wordsLeft > 0 /\ wordsLeft' = wordsLeft - 1
        /\ \E w \in Words : meant' = Append(meant, w)
  /\ IsStrictPrefix(entered, Render(meant'))
  /\ TypeKey(Render(meant')[Len(entered) + 1])
  /\ UNCHANGED slips

TypeSlip ==
  /\ slips < MaxSlips /\ slips' = slips + 1
  /\ TypeKey(Slip)
  /\ UNCHANGED <<meant, wordsLeft>>

EraseKey ==
  /\ Reads /\ entered # <<>>
  /\ ~IsPrefix(entered, Render(meant)) \/ slips < MaxSlips
  /\ entered' = Front(entered)
  /\ slips' = IF IsPrefix(entered, Render(meant)) THEN slips + 1 ELSE slips
  /\ IF length > 0 /\ CanBackspace(console)
     THEN console' = ncBackspace(console) /\ length' = length - 1
     ELSE UNCHANGED <<console, length>>
  /\ UNCHANGED <<memory, stage, outcome, running, fg, nextPid, meant, wordsLeft,
                 prints, mixed, odd>>

\* The end of the line, which for a line of more than LINE characters is written
\* behind the buffer.
Enter ==
  /\ Reads /\ entered = Render(meant) /\ meant # <<>>
  /\ console' = ncNewline(console)
  /\ memory' = [memory EXCEPT ![length] = End]
  /\ stage' = "execute"
  /\ odd' = IF length > LINE THEN {"long"} ELSE {}
  /\ UNCHANGED <<length, outcome, running, fg, nextPid, typist, entered, prints, mixed>>

\* F3: read returns -1, the line has no end, and the shell does not ask.  It costs
\* the user two words, so that there are not too many of them.
EndOfFile ==
  /\ Reads /\ wordsLeft > 1 /\ wordsLeft' = wordsLeft - 2
  /\ stage' = "execute" /\ odd' = {"f3"}
  /\ UNCHANGED <<console, memory, length, outcome, running, fg, nextPid, meant, slips,
                 entered, prints, mixed>>

\* What the shell prints of a command: for clear nothing.
Printed ==
  CASE outcome'.builtin = "clear" -> ncClear(console)
    [] outcome' = Unknown         -> ncPrint(console, <<"?", Newline>>)
    [] OTHER                      -> console

\* killPid spares the shell; nice and block touch no process of this module.
Killed(o) == IF o.builtin = "kill" THEN {o.numbers[1]} ELSE {}

Execute ==
  /\ stage = "execute" /\ stage' = "prompt"
  /\ \E stack \in {<<>>, <<"2">>} : outcome' = executeCommand(memory, stack)
  /\ console' = Printed
  /\ LET n    == Len(outcome'.processes)
         born == nextPid..(nextPid + n - 1)
     IN  /\ nextPid' = nextPid + n
         /\ running' = (running \union born) \ Killed(outcome')
         /\ fg' = IF n > 0 /\ outcome'.processes[1].foreground THEN nextPid ELSE fg
  /\ UNCHANGED <<memory, length, typist, entered, prints, mixed, odd>>

\* A process prints its pid, as loop does, and perhaps the end of a row.
Write(p) ==
  /\ p \in running /\ prints < MaxPrints
  /\ prints' = prints + 1 /\ mixed' = TRUE
  /\ \E end \in {<<>>, <<Newline>>} :
       console' = ncPrint(console, uintToBase(p, 10) \o end)
  /\ UNCHANGED <<memory, length, stage, outcome, running, fg, nextPid, typist, entered,
                 odd>>

ExitProcess(p) ==
  /\ p \in running
  /\ running' = running \ {p}
  /\ fg' = IF fg = p THEN 0 ELSE fg
  /\ UNCHANGED <<console, memory, length, stage, outcome, nextPid, typist, entered, prints,
                 mixed, odd>>

\* dummyProcess, when nobody else is ready.
Blink ==
  /\ stage = "read"
  /\ console' = displayCursor(console)
  /\ UNCHANGED <<memory, length, stage, outcome, running, fg, nextPid, typist, entered,
                 prints, mixed, odd>>

SessionNext ==
  \/ PrintPrompt \/ TypeNext \/ TypeSlip \/ EraseKey \/ Enter \/ EndOfFile \/ Execute
  \/ \E p \in running : Write(p) \/ ExitProcess(p)
  \/ Blink

SessionSpec == SessionInit /\ [][SessionNext]_sessionVars
-----------------------------------------------------------------------------
(* Properties                                                              *)

SessionTypeOK ==
  /\ console.video \in [Cells -> Glyphs] /\ console.cursor \in BOOLEAN
  /\ DOMAIN memory = Memory /\ length \in Memory
  /\ stage \in {"prompt", "read", "execute"}
  /\ running \subseteq 2..(nextPid - 1) /\ fg \in running \union {0}

\* The current position is never behind the first column of the last row, so that
\* neither a character nor the cursor is written outside the screen.
StaysOnScreen == console.current \in 0..((height - 1) * width)

\* The cursor is only shown where the next character goes: printing, scrolling
\* and deleting leave no second one behind.
OneCursor ==
  \A i \in Cells : console.video[i] = CursorMark => i = console.current

\* The invariant of the screen: its type, its bounds and its cursor.
SessionInv == SessionTypeOK /\ StaysOnScreen /\ OneCursor

\* Unless somebody else prints, what stands in front of the cursor is the prompt
\* and the line, over the ends of rows and when the screen scrolls; and it is what
\* read has stored.
LineOnScreen ==
  stage = "read" /\ ~mixed =>
    LET shown == Prompt \o entered
        n     == Min({Len(shown), console.current})
    IN  /\ \A i \in 0..(n - 1) :
             console.video[console.current - n + i] = shown[Len(shown) - n + i + 1]
        /\ \A i \in DOMAIN entered : i <= LINE => memory[i - 1] = entered[i]
        /\ length = Len(entered)

\* What the words of a line should come to.
Cut(word) == SubSeq(word, 1, Min({Len(word), MAX_ARG_COMMAND_LEN}))
Kept      == LET n == Min({Len(meant), MAX_ARG_AMT + 1}) IN [i \in 1..n |-> Cut(meant[i])]
Value(word, max) ==
  IF \E n \in 0..(max - 1) : uintToBase(n, 10) = word
  THEN CHOOSE n \in 0..(max - 1) : uintToBase(n, 10) = word ELSE 0

Started(words, behindPipe) ==
  LET alone == ~behindPipe /\ Last(words) = <<"&">>
  IN  [args |-> IF alone THEN Front(words) ELSE words,
       foreground |-> ~behindPipe /\ Last(words) # <<"&">>, stdin |-> behindPipe]

Meant ==
  LET bars == {i \in 2..(Len(Kept) - 1) : Kept[i] = <<"|">>}
      bar  == Min(bars)
      pipes == bars # {} /\ IsProcess(Kept[1]) /\ IsProcess(Kept[bar + 1])
  IN  CASE Len(meant[1]) > MAX_ARG_COMMAND_LEN -> Unknown
        [] pipes -> Outcome(<<Started(SubSeq(Kept, 1, bar - 1), FALSE),
                              Started(SubSeq(Kept, bar + 1, Len(Kept)), TRUE)>>, "none", <<>>)
        [] bars = {} /\ IsProcess(meant[1]) ->
             Outcome(<<Started(Kept, FALSE)>>, "none", <<>>)
        [] bars = {} /\ meant[1] = <<"kill">> ->
             Outcome(<<>>, "kill", <<Value(Kept[2], WORD32)>>)
        [] bars = {} /\ IsBuiltin(meant[1]) -> Outcome(<<>>, meant[1][1], <<>>)
        [] OTHER -> Unknown

\* The command that is run is the one the user meant, whatever he typed before,
\* corrected on the way or read on the screen; unless the line was too long for
\* the buffer, ended by F3, or an argument of kill was left out.
CommandIsMeant ==
  stage = "prompt" /\ meant # <<>> /\ odd = {} /\ ~(meant[1] = <<"kill">> /\ Len(meant) = 1)
    => outcome = Meant
=============================================================================
