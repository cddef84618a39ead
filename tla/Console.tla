------------------------------ MODULE Console ------------------------------
(***************************************************************************)
(* The text screen of Kernel/naiveConsole.c as functions of a console c:   *)
(* c.video holds the characters, c.current is the index at which           *)
(* currentVideo points, c.cursor the flag of the blinking cursor.  The     *)
(* attribute bytes are left out.  Video memory goes on behind the screen,  *)
(* so an index of the cells' length or more would be a stray write.        *)
(***************************************************************************)
EXTENDS Integers, Sequences

CONSTANTS width, height   \* 80 and 25 in the source

ASSUME ScreenAssumption == width \in Nat \ {0} /\ height \in Nat \ {0, 1}

Cells   == 0..(width * height - 1)
NUL     == "nul"
Newline == "newline"
Blank   == " "
CursorMark == "_"
Cleared == [video |-> [i \in Cells |-> Blank], current |-> 0, cursor |-> FALSE]

deleteCursor(c) == [c EXCEPT !.video[c.current] = Blank, !.cursor = FALSE]

displayCursor(c) ==
  IF c.cursor THEN deleteCursor(c)
  ELSE [c EXCEPT !.video[c.current] = CursorMark, !.cursor = TRUE]

\* As soon as the last row is reached: what is in the last row is always blank.
scrollDown(c) ==
  IF c.current \div width < height - 1 THEN c
  ELSE [c EXCEPT !.video = [i \in Cells |-> IF i + width \in Cells
                                            THEN c.video[i + width] ELSE Blank],
                 !.current = @ - width]

Put(c, char) ==
  LET d == scrollDown(c)
  IN  [d EXCEPT !.video[d.current] = char, !.current = @ + 1]

\* At least one blank, and then up to the end of the row.
ncNewline(c) ==
  LET blanks == width - (c.current % width)
      after[i \in 0..blanks] == IF i = 0 THEN c ELSE Put(after[i - 1], Blank)
  IN  after[blanks]

ncPrintChar(c, char) ==
  IF char = Newline THEN ncNewline(scrollDown(c)) ELSE Put(c, char)

ncPrint(c, string) ==
  LET after[i \in 0..Len(string)] ==
        IF i = 0 THEN c ELSE ncPrintChar(after[i - 1], string[i])
  IN  after[Len(string)]

ncClear(c) == [Cleared EXCEPT !.cursor = c.cursor]

\* Wrong on purpose: the cursor is not taken off the screen first.
BackspaceUnderCursor(c) ==
  [c EXCEPT !.video[c.current - 1] = NUL, !.current = @ - 1]

\* ncBackspace where it returns 1, which is when CanBackspace.
CanBackspace(c) == c.current >= 1
ncBackspace(c)  ==
  [deleteCursor(c) EXCEPT !.video[c.current - 1] = NUL, !.current = @ - 1]
=============================================================================
