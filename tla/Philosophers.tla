---------------------------- MODULE Philosophers ----------------------------
(***************************************************************************)
(* The phylo program (Userland/SampleCodeModule/philo.c): a process for    *)
(* each philosopher, and the shell's foreground process, called main here, *)
(* which adds the next philosopher ('a'), removes the last one ('r') and   *)
(* ends the dining ('q' or an empty line) at any time.                     *)
(*                                                                         *)
(* Semaphores are taken for what they promise: sem_wait takes a unit or    *)
(* sleeps until there is one, and sem_close refuses while somebody sleeps. *)
(* What a dead process that stays queued does to later posts is left out:  *)
(* SemaphoreTable has it.                                                  *)
(* The mutex keeps the bodies of takeChopsticks, putChopsticks, addPh and  *)
(* deletePh apart, so each is one step between taking and returning the    *)
(* mutex.  endDining does not take it, and is modelled call by call.       *)
(* sem_open always finds room in its table of 20: phylo opens at most 11.  *)
(*                                                                         *)
(* The names that every specification has begin with Dining here: the      *)
(* proofs share a module with those about Semaphore.                       *)
(***************************************************************************)
EXTENDS Integers

CONSTANT MAX_PH

ASSUME MaxAssumption == MAX_PH \in Nat \ {0}

Seats == 0..(MAX_PH - 1)

VARIABLES
  state,     \* philos[i].state
  amountPh,
  mutex,     \* value of the mutex
  philoSem,  \* value of philoSem[i]; 0 when it was closed and freed
  open,      \* philoSem[i] has been opened and not been closed
  at,        \* where the philosopher process of a seat is
  main,      \* where the main process is
  removed,   \* history: a philosopher has been removed
  refused,   \* history: sem_close refused in deletePh, which kept the mutex, or the
             \* run before left a mutex that is taken
  reseated,  \* history: somebody joined beside a hungry philosopher
  stray      \* history: a closed semaphore was posted

diningVars == <<state, amountPh, mutex, philoSem, open, at, main, removed, reseated,
                refused, stray>>

History == <<removed, reseated, refused, stray>>

PhiloPcs == {"none", "thinking", "take", "wait", "asleep", "eating", "put"}
MainPcs  == {"menu", "end", "endKill", "endLess", "exited"}

left(i) == IF i = 0 THEN amountPh - 1 ELSE i - 1
right(i) == IF i = amountPh - 1 THEN 0 ELSE i + 1

GoesTo(i, l) == at' = [at EXCEPT ![i] = l]
-----------------------------------------------------------------------------
(* A table is what checkAvailability changes: states, semaphores and those *)
(* who sleep on them.                                                      *)

Table == [state |-> state, sem |-> philoSem, at |-> at, stray |-> stray]

\* Wrong on purpose: only one neighbour is looked at.
LeftMayEat(t, i, l, r) == t.state[i] = "HUNGRY" /\ t.state[l] # "EATING"

MayEat(t, i, l, r) ==
  t.state[i] = "HUNGRY" /\ t.state[l] # "EATING" /\ t.state[r] # "EATING"

\* sem_post(philoSem[i]).
Told(t, i) ==
  [t EXCEPT !.sem[i] = @ + 1,
            !.at[i] = IF @ = "asleep" THEN "wait" ELSE @,
            !.stray = @ \/ ~open[i]]

\* Wrong on purpose: the philosopher stays HUNGRY and is told again.
ToldAgain(t, i, l, r) == IF MayEat(t, i, l, r) THEN Told(t, i) ELSE t

\* checkAvailability(i), where l and r are the neighbours of i.
Checked(t, i, l, r) ==
  IF MayEat(t, i, l, r) THEN Told([t EXCEPT !.state[i] = "EATING"], i) ELSE t

\* The table t, from which philosopher i goes on at the line l.
SetTable(t, i, l) ==
  /\ state' = t.state /\ philoSem' = t.sem /\ stray' = t.stray
  /\ at' = [t.at EXCEPT ![i] = l]
-----------------------------------------------------------------------------
DiningInit ==
  /\ state = [i \in Seats |-> "THINKING"]
  /\ amountPh = 0
  /\ mutex = 1
  /\ philoSem = [i \in Seats |-> 0]
  /\ open = [i \in Seats |-> FALSE]
  /\ at = [i \in Seats |-> "none"]
  /\ main = "menu"
  /\ removed = FALSE /\ reseated = FALSE /\ refused = FALSE /\ stray = FALSE

\* sem_wait(mutex) of a philosopher, after one of its sleeps.
LockMutex(i) ==
  /\ mutex > 0 /\ mutex' = mutex - 1
  /\ \/ at[i] = "thinking" /\ GoesTo(i, "take")
     \/ at[i] = "eating" /\ GoesTo(i, "put")
  /\ UNCHANGED <<state, amountPh, philoSem, open, main>> /\ UNCHANGED History

\* Lines 89-90.
Hungry(i) ==
  LET t == [Table EXCEPT !.state[i] = "HUNGRY"]
  IN  Checked(t, i, left(i), right(i))

\* takeChopsticks up to its sem_wait.
takeChopsticks(i) ==
  /\ at[i] = "take"
  /\ SetTable(Hungry(i), i, "wait")
  /\ mutex' = mutex + 1
  /\ UNCHANGED <<amountPh, open, main, removed, reseated, refused>>

\* Line 93.
WaitChopsticks(i) ==
  /\ at[i] = "wait"
  /\ \/ /\ philoSem[i] > 0 /\ philoSem' = [philoSem EXCEPT ![i] = @ - 1]
        /\ GoesTo(i, "eating")
     \/ /\ philoSem[i] = 0 /\ GoesTo(i, "asleep")
        /\ UNCHANGED philoSem
  /\ UNCHANGED <<state, amountPh, mutex, open, main>> /\ UNCHANGED History

\* Wrong on purpose: nobody is told that the chopsticks are back.
ThinkingOnly(i) == [Table EXCEPT !.state[i] = "THINKING"]

\* Lines 101-104.
Thinking(i) ==
  LET t == [Table EXCEPT !.state[i] = "THINKING"]
      l == left(i)
      r == right(i)
  IN  Checked(Checked(t, l, left(l), right(l)), r, left(r), right(r))

putChopsticks(i) ==
  /\ at[i] = "put"
  /\ SetTable(Thinking(i), i, "thinking")
  /\ mutex' = mutex + 1
  /\ UNCHANGED <<amountPh, open, main, removed, reseated, refused>>
-----------------------------------------------------------------------------
\* main at its menu, and the mutex that both 'a' and 'r' wait for is free.  What
\* philosophers do while main waits, or holds the mutex, they do before its step.
AtMenu == main = "menu" /\ mutex > 0

\* 'a'.  sem_open looks for the number of the semaphore first: one that endDining could
\* not close comes back with the value it has.
addPh ==
  /\ AtMenu /\ amountPh < MAX_PH
  /\ state' = [state EXCEPT ![amountPh] = "THINKING"]
  /\ philoSem' = [philoSem EXCEPT ![amountPh] = IF open[amountPh] THEN @ ELSE 1]
  /\ open' = [open EXCEPT ![amountPh] = TRUE]
  /\ GoesTo(amountPh, "thinking")
  /\ amountPh' = amountPh + 1
  /\ reseated' = (reseated \/ (amountPh > 0 /\ \E i \in {0, amountPh - 1} :
                                                state[i] = "HUNGRY"))
  /\ UNCHANGED <<mutex, main, removed, refused, stray>>

\* Lines 144-147, when amountPh is already smaller: the new last philosopher and
\* the first.  With none left, checkAvailability(-1) reads in front of the array,
\* but its right neighbour is the removed one, EATING, so that it grants nothing.
Left(i) ==
  LET last == i - 1
      l == last - 1
      t == Checked(Table, last, IF l < 0 THEN last ELSE l, 0)
  IN  IF state[i] # "EATING" \/ i = 0 THEN Table
      ELSE Checked(t, 0, last, IF last = 0 THEN 0 ELSE 1)

\* 'r', on the last philosopher.  When sem_close refuses, deletePh returns with the
\* mutex taken.
deletePh ==
  LET i == amountPh - 1
  IN  /\ AtMenu /\ amountPh > 0
      /\ \/ /\ at[i] = "asleep"
            /\ refused' = TRUE /\ mutex' = mutex - 1
            /\ UNCHANGED <<state, amountPh, philoSem, open, at>>
            /\ UNCHANGED <<removed, stray>>
         \/ /\ at[i] # "asleep"
            /\ open' = [open EXCEPT ![i] = FALSE]
            /\ amountPh' = i
            /\ SetTable([Left(i) EXCEPT !.sem[i] = 0], i, "none")
            /\ removed' = TRUE
            /\ UNCHANGED <<mutex, refused>>
      /\ UNCHANGED <<main, reseated>>

\* 'q', or an empty line.
Quit ==
  /\ main = "menu" /\ main' = "end"
  /\ UNCHANGED <<state, amountPh, mutex, philoSem, open, at>> /\ UNCHANGED History

\* endDining, which does not take the mutex, and the sys_exit behind it.
endDining ==
  LET i == amountPh - 1
  IN  /\ \/ /\ main = "end" /\ amountPh > 0
            /\ \/ at[i] = "asleep" /\ UNCHANGED <<open, philoSem>>
               \/ /\ at[i] # "asleep"
                  /\ open' = [open EXCEPT ![i] = FALSE]
                  /\ philoSem' = [philoSem EXCEPT ![i] = 0]
            /\ main' = "endKill"
            /\ UNCHANGED <<at, amountPh>>
         \/ /\ main = "endKill"
            /\ GoesTo(i, "none") /\ main' = "endLess"
            /\ UNCHANGED <<open, philoSem, amountPh>>
         \/ /\ main = "endLess"
            /\ amountPh' = i /\ main' = "end"
            /\ UNCHANGED <<open, philoSem, at>>
         \/ /\ main = "end" /\ amountPh = 0
            /\ main' = "exited"
            /\ UNCHANGED <<open, philoSem, at, amountPh>>
      /\ UNCHANGED <<state, mutex>> /\ UNCHANGED History

\* phylo is started again.  Its mutex is a new one, unless sem_close of the last run's
\* was refused: a wrong process removed from its queue (semaphore.c:137) leaves the
\* dead one in it, and the number leads to the old mutex with the value it has.
philo ==
  /\ main = "exited"
  /\ main' = "menu" /\ mutex' \in {mutex, 1}
  /\ refused' = (mutex' = 0)
  /\ removed' = FALSE /\ reseated' = FALSE /\ stray' = FALSE
  /\ UNCHANGED <<state, amountPh, philoSem, open, at>>

Philosopher(i) ==
  \/ LockMutex(i)
  \/ takeChopsticks(i)
  \/ WaitChopsticks(i)
  \/ putChopsticks(i)

DiningNext ==
  \/ \E i \in Seats : Philosopher(i)
  \/ addPh
  \/ deletePh
  \/ Quit
  \/ endDining
  \/ philo

DiningSpec == DiningInit /\ [][DiningNext]_diningVars

\* Every philosopher process runs, its sleeps end, and a wait that can succeed for
\* good does.  Nothing is assumed of the order in which the mutex is handed out, and
\* no key need ever be pressed.
Fairness == \A i \in Seats : WF_diningVars(Philosopher(i))

FairDiningSpec == DiningSpec /\ Fairness
-----------------------------------------------------------------------------
(* Properties                                                              *)

DiningTypeOK ==
  /\ state \in [Seats -> {"THINKING", "EATING", "HUNGRY"}]
  /\ amountPh \in 0..MAX_PH
  /\ mutex \in {0, 1}
  /\ philoSem \in [Seats -> 0..2]
  /\ open \in [Seats -> BOOLEAN]
  /\ at \in [Seats -> PhiloPcs] /\ main \in MainPcs
  /\ {removed, reseated, refused, stray} \subseteq BOOLEAN

AtTable == 0..(amountPh - 1)
Neighbours(i, j) == i # j /\ (j = left(i) \/ j = right(i))

\* While nobody is removed no two neighbours are in the state EATING, whoever
\* joins between two others in the meantime.
StatesExclude ==
  ~removed /\ main = "menu" =>
    \A i, j \in AtTable :
      Neighbours(i, j) => ~(state[i] = "EATING" /\ state[j] = "EATING")

Ate(i)     == IF at[i] \in {"eating", "put"} THEN 1 ELSE 0
Granted(i) == IF state[i] = "EATING" THEN 1 ELSE 0

\* The unit with which philoSem is opened (line 56) is spent at most once: as soon
\* as a philosopher has eaten without being EATING, it never does so again.
OneSpareUnit ==
  \A i \in AtTable :
    main = "menu" => philoSem[i] + Ate(i) - Granted(i) \in {0, 1}

\* No chopsticks are granted to a philosopher whose semaphore was closed, until
\* endDining, which takes no mutex.
NoStrayPost == main = "menu" => ~stray

\* What holds of the table between two keys: types, no two neighbours EATING, and no
\* post of a closed semaphore.
DiningInv == DiningTypeOK /\ StatesExclude /\ NoStrayPost

\* A philosopher who is left HUNGRY by putChopsticks has an eating neighbour who
\* will look at it again, unless its neighbours were changed while it was hungry.
NobodyForgotten ==
  main = "menu" /\ mutex = 1 /\ ~removed /\ ~reseated =>
    \A i \in AtTable : state[i] = "HUNGRY" =>
      state[left(i)] = "EATING" \/ state[right(i)] = "EATING"

\* While the dining goes on, no removal was refused and nobody was seated beside a
\* hungry philosopher, meals are finished again and again, in whatever order the
\* mutex is handed out, unless philosophers are removed again and again.
MealsGoOn ==
  \/ []<><<deletePh>>_diningVars
  \/ (main = "menu" /\ amountPh > 0) ~>
       \/ main # "menu" \/ amountPh = 0 \/ refused \/ reseated
       \/ \E i \in AtTable : at[i] = "put"
-----------------------------------------------------------------------------
(* What the documents promise and the code does not keep.                  *)

\* "'a' para agregar - 'r' para remover filosofos" (philo.c:179): whoever is added
\* or removed, the others go on eating.
MealsOutliveRemoval ==
  (main = "menu" /\ amountPh > 0) ~>
    (main # "menu" \/ amountPh = 0 \/ \E i \in AtTable : at[i] = "put")

\* "Resolucion del problema de sincronizacion de los filosofos" (Readme.md:26): two
\* neighbours never eat at the same time.
NeighboursDoNotEat ==
  \A i, j \in AtTable : Neighbours(i, j) => ~(at[i] = "eating" /\ at[j] = "eating")
=============================================================================
