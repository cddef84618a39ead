------------------------------- MODULE Shell -------------------------------
(***************************************************************************)
(* From a line of text to a command: executeCommand and managePipe         *)
(* (Userland/SampleCodeModule/apps.c), the arguments of the built-in       *)
(* commands (builtin.c), createProcess, atoi and uintToBase (libc.c), and  *)
(* createProcessWrapper of the kernel, which takes the arguments apart     *)
(* again.  Memory is a function from indices to characters; an array of    *)
(* characters without its end is a sequence.  The name of a command counts *)
(* as one character.                                                       *)
(***************************************************************************)
EXTENDS Integers, Sequences, SequencesExt, FiniteSets, FiniteSetsExt

CONSTANTS
  MAX_ARG_AMT, MAX_ARG_COMMAND_LEN,  \* 5 and 20
  WORD32, WORD8,                     \* values of a uint32_t and of a uint8_t
  Processes, Builtins                \* names of processList and of builtinList

ASSUME ArgAssumption == {MAX_ARG_AMT, MAX_ARG_COMMAND_LEN} \subseteq Nat \ {0}
ASSUME WidthAssumption ==
  WORD8 \in Nat \ {0} /\ WORD32 \in Nat /\ WORD32 >= WORD8

End     == "nul"
Numeral == <<"0", "1", "2", "3", "4", "5", "6", "7", "8", "9">>

\* The digits of n, in their order once the buffer has been reversed.
uintToBase(n, base) ==
  LET digits[v \in 0..n] ==
        IF v < base THEN <<Numeral[v + 1]>>
        ELSE Append(digits[v \div base], Numeral[(v % base) + 1])
  IN  digits[n]

\* The value, or 0 when a character is no digit.
atoi(str) ==
  IF \E i \in DOMAIN str : str[i] \notin Range(Numeral) THEN 0
  ELSE FoldLeft(LAMBDA n, d : n * 10 + SelectInSeq(Numeral, LAMBDA x : x = d) - 1, 0, str)
-----------------------------------------------------------------------------
(* executeCommand: the line starts at index 0 of the memory b.             *)

WordEnd(b, i)  == Min({j \in DOMAIN b : j >= i /\ b[j] \in {" ", End}})
BlankEnd(b, i) == Min({j \in DOMAIN b : j >= i /\ b[j] # " "})

\* Lines 190-193.
TooLong(b) == WordEnd(b, 0) >= MAX_ARG_COMMAND_LEN /\ b[MAX_ARG_COMMAND_LEN] # " "

\* The words of the line, each cut to its size; blanks in front of the line make
\* an empty first word.
Args(b) ==
  LET start[n \in 0..MAX_ARG_AMT] ==
        IF n = 0 THEN 0 ELSE BlankEnd(b, WordEnd(b, start[n - 1]))
      argNum == 1 + Cardinality({n \in 1..MAX_ARG_AMT : b[start[n]] # End})
      last(n) == Min({WordEnd(b, start[n]), start[n] + MAX_ARG_COMMAND_LEN}) - 1
  IN  [n \in 1..argNum |-> [k \in 1..(last(n-1) - start[n-1] + 1) |-> b[start[n-1] + k - 1]]]

Pack(argv) == FoldLeft(LAMBDA s, word : s \o word \o <<End>>, <<>>, argv)

\* createProcessWrapper: argc words out of packed ones.
Unpack(argc, packed) ==
  LET ends == SetToSortSeq({i \in DOMAIN packed : packed[i] = End}, <)
      from(n) == IF n = 1 THEN 1 ELSE ends[n - 1] + 1
  IN  [n \in 1..argc |-> SubSeq(packed, from(n), ends[n] - 1)]

\* Wrong on purpose: the & stays an argument.
KeepsAmpersand(argv, stdin) ==
  [args |-> Unpack(Len(argv), Pack(argv)),
   foreground |-> ~stdin /\ Last(argv) # <<"&">>, stdin |-> stdin]

\* createProcess of the libc.  The right side of a pipe is always in the
\* background, and keeps a final &.
createProcess(argv, stdin) ==
  LET ampersand == ~stdin /\ Last(argv) = <<"&">>
      words     == IF ampersand THEN Front(argv) ELSE argv
  IN  [args |-> Unpack(Len(words), Pack(words)),
       foreground |-> ~stdin /\ ~ampersand, stdin |-> stdin]

\* What a command comes to: the processes it creates, and the built-in command it
\* calls with which numbers.
Outcome(processes, builtin, numbers) ==
  [processes |-> processes, builtin |-> builtin, numbers |-> numbers]
Unknown == Outcome(<<>>, "none", <<>>)

IsProcess(word) == Len(word) = 1 /\ word[1] \in Processes
IsBuiltin(word) == Len(word) = 1 /\ word[1] \in Builtins

managePipe(args, bar) ==
  IF IsProcess(args[1]) /\ IsProcess(args[bar + 1])
  THEN Outcome(<<createProcess(SubSeq(args, 1, bar - 1), FALSE),
                 createProcess(SubSeq(args, bar + 1, Len(args)), TRUE)>>, "none", <<>>)
  ELSE Unknown

\* The arguments kill, block and nice pass on.  An argument that was not typed is
\* whatever the stack holds.
Numbers(args, stack) ==
  LET number(n, word) == atoi(IF n <= Len(args) THEN args[n] ELSE stack) % word
  IN  CASE args[1][1] \in {"kill", "block"} -> <<number(2, WORD32)>>
        [] args[1][1] = "nice" -> <<number(2, WORD32), number(3, WORD8)>>
        [] OTHER -> <<>>

executeCommand(b, stack) ==
  LET args == Args(b)
      bars == {i \in 2..(Len(args) - 1) : args[i] = <<"|">>}
  IN  CASE TooLong(b)         -> Unknown
        [] bars # {}          -> managePipe(args, Min(bars))
        [] IsProcess(args[1]) -> Outcome(<<createProcess(args, FALSE)>>, "none", <<>>)
        [] IsBuiltin(args[1]) -> Outcome(<<>>, args[1][1], Numbers(args, stack))
        [] OTHER              -> Unknown
=============================================================================
