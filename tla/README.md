# TLA+ models of 64bit-shell-OS

This directory holds TLA+ models of the kernel of 64bit-shell-OS, of the programs that use
it, and of the tools that make its disk; TLC runs that check them on small instances; and
TLAPS proofs about the scheduler, the semaphores, the pipes, the memory managers, the timer's
queue, the keyboard, the screen and `phylo`, for every number of processes, addresses and bytes.
All paths below are relative to `src/`; `K/` stands for `Kernel/` and `U/` for `Userland/SampleCodeModule/`.

Contents: [the system](#the-system), [components](#components),
[hazards](#hazards), [modules](#modules), [runs](#runs), [fairness](#fairness),
[proofs](#proofs), [known divergences](#known-divergences),
[what is not modelled](#what-is-not-modelled), [plan](#plan).

## The system

A 64-bit kernel for one CPU, loaded by Pure64, with a shell and programs that are all
linked into one user binary and share the address space of the kernel. There is no memory
protection, so a pointer that outlives its object reads or writes whatever is there.

What runs when:

- A program enters the kernel by `int 80h`. The gate and the `cli` of
  `K/interruptions/syscallHandler.asm:41-51` keep interrupts off, so a system call is
  atomic up to its return or up to the point where it calls `runScheduler`.
- Hardware interrupts (timer and keyboard, `irqHandlerMaster`,
  `K/interruptions/interrupts.asm:66-97`) run with interrupts off. The timer's handler
  counts a tick, wakes sleepers and calls `switchProcess`.
- `runScheduler` (`K/asm/libasm.asm:72-80`) is `sti; int 20h`. The software interrupt enters
  the same handler as the timer: it switches, and it also counts as a tick. Two things
  follow that shape half of the models:
  1. The caller resumes with interrupts **on**. Whatever a blocked system call does after
     it was woken can be preempted between any two accesses. That includes a whole `exit`:
     `read` makes it for the key F2 (`K/interruptions/syscalls.c:75`) behind the wait for the
     key, so that closing the pipe, marking, freeing and unlinking the process are all
     preemptible there, and the next `pipeRead` or wait for a key that `read` makes after it
     was woken.
  2. `runScheduler` has no `ret`: the resumed caller runs into `_xchg`, which stores the
     low half of `rsi` at the address in `rdi` before it returns. What these registers
     hold is decided by the compiled caller. In `sem_wait` the store clears the lock. In
     `pipeWrite` it overwrites the two flags of the writer's `fdPipe`.
- The build does not optimise (`K/Makefile.inc:6` has no `-O`), so the order of accesses in
  the source is the order in the binary; this is what makes the steps of a resumed call
  well defined.

Every module takes its grain from these rules: one action for a whole system call or
handler as long as interrupts are off, and one action per access in a resumed call.

## Components

| component | state | operations | correct when |
|---|---|---|---|
| Scheduler, `K/utils/scheduler.c` | the list of pcbs, states, priorities and effective priorities, the current process, `fgTaken`, the ageing counter | `switchProcess`, `createProcess`, `exitCurrentProcess`, `killPid`, `changeProcessPriority` (nice), `changeProcessState` (block), `blockCurrentProcess` | the list holds the living processes once, a switch dispatches a ready one of least effective priority, the shell yields to a foreground process, nobody starves |
| Semaphores, `K/utils/semaphore.c` | the table, its lock; per semaphore a value, a lock, a queue | `sem_open`, `sem_wait`, `sem_post`, `sem_close`, removal of a killed process | units are conserved, sleepers are queued and woken, the table and the allocated memory agree |
| Timer and sleep, `K/interruptions/time.c` | the tick counter, the queue of sleepers | `sleep`, `timer_handler` | a sleeper is woken, and not early |
| Memory managers, `K/utils/MemoryManagerADT.c` (HEAP2, the default of `K/Makefile:4`) and `K/utils/MemManBuddy.c` (BUDDY), behind `K/utils/mm.c` | blocks, free list, free bytes | `allocMem`, `freeMem` | granted bytes never overlap, the blocks tile the heap |
| Pipes, `K/utils/pipes.c` | an array of pipes; per pipe a ring of bytes, open flags, the waiting process | `createPipe`, `openPipeId`, `pipeRead`, `pipeWrite`, `closeFdPipe`, removal of an ended process | bytes arrive once and in order, who waits is woken, the last side frees the pipe |
| Keyboard and terminal, `K/interruptions/keyboard.c`, `read` in `K/interruptions/syscalls.c`, `waitForKeyboard` and `awakeKeyboardQueue` in `scheduler.c` | the last key, a ring of waiting readers, the line being edited | `keyboard_handler`, `getInput`, `read` | the line read is the line typed |
| System calls and exceptions, `K/interruptions/*` | a table | dispatch | – (the grain of the models) |
| Console, `K/naiveConsole.c` | the screen, the place of the next character, whether the cursor is shown | print, newline, scroll, backspace, clear, blink | nothing is written outside the screen, no cursor stays behind |
| Shell and commands, `U/apps.c`, `U/builtin.c`, `U/sampleCodeModule.c` | the line, a buffer that is never cleared | `executeCommand`, `managePipe`, `p2`, `p3`, `cat`, `wc`, `filter`, `loop`, `mem`, `ps`, `kill`, `nice`, `block`, `sem`, `pipe` | the command that runs is the one typed |
| libc, `U/libc.c` | – | `createProcess`, `scanf`, `printf`, conversions | the words arrive in the new process as they were packed |
| phylo, `U/philo.c` | philosophers, their semaphores, a mutex | join, leave, take and put chopsticks, end | neighbours do not eat together, the hungry eat |
| Tests, `U/tests/*.c` | – | `test_processes`, `test_mm`, `test_sync`, `test_prio` | – (programs of the models) |
| Module packer, `Toolchain/ModulePacker/main.c` | – | `checkFiles`, `buildImage` | the kernel can take the image apart again |
| Disk tool, `Bootloader/BMFS/bmfs.c` | the directory and the blocks of a disk | `initialize`, `format`, `create`, `write`, `read`, `delete`, `list` | files lie apart and keep what was written |
| Kernel start, `K/kernel.c`, `K/moduleLoader.c`, `K/lib.c` | the memory | `loadModules`, `clearBSS` | every module arrives at its address before its copy is cleared |
| Boot loader, `Bootloader/Pure64` | the memory | load the first sectors, move the payload | a disk that boots starts the kernel that was packed (only these two copies are modelled) |
| Clock chip, system call table and stubs, exceptions | – | – | not modelled |

How they interact:

- **Scheduler and everything that blocks.** Semaphores, pipes, sleep and the keyboard all
  block by setting `pstate = 0` and calling `runScheduler`, and wake by setting
  `pstate = 1` through a pcb pointer they keep. `Scheduler` has the two as
  `BlockAndSwitch` and `Wake`; the other modules have the reverse view: of the
  scheduler they keep only that any ready process may be dispatched.
- **End of a process.** `deleteProcess` (`scheduler.c:261`) unlinks the node, tells the
  semaphores and the pipes to forget the process, and frees the pcb. It does not tell the
  timer's queue or the ring of readers. Each module has its own `KillPid` or `Exit` with
  that part of it.
- **Memory.** Pcbs, semaphores, pipes and timer nodes come from `alloc`; freed addresses come
  back. `Sleep`, `SemaphoreTable` and `PipeTable` therefore name addresses and let
  them be reused. Which address comes back is any free one, as `Heap` promises.
- **Programs.** `test_sync` is the client of `Semaphore` and `SemaphoreTable`; `cat`, `wc`, `p2`,
  `p3` and the shell's `|` are the clients of `Pipe` and `PipeTable`; the shell and a
  foreground program are the clients of `Terminal`; the shell with the processes it starts, the
  line editing of `read` and the screen are put together in `Session`; `phylo` is a client of semaphores whose own
  logic is `Philosophers`.

- **From files to a running system.** The packer writes kernel and modules into one file,
  `bmfs initialize` puts it behind boot record and Pure64 on the disk, these load it, and the
  kernel copies the modules to their addresses and clears its bss. `Image` has the whole way,
  with other runs of `bmfs` on the same disk in between.

## Hazards

What is hard to test in this code, in groups; `PROJECT.json` lists each at its line with
the properties that would catch it.

- **The switch.** Two scans with different rules, ageing every sixth switch, a shell that is
  stepped over, freed nodes that are still current: which process runs next depends on the
  whole list, and a test sees one list.
- **Resumed calls.** Everything behind `runScheduler` is preemptible and has lost a lock or a
  flag to `_xchg`. The window is a few instructions wide and opens only for a process that
  was blocked. An exit by F2 is such a call: a tick in it leaves a process with state 2, or a node
  that has been freed, in the list, or lets the other side of a pipe free it first.
- **Handles.** Semaphores are closed by everybody who opened them: the second close goes through
  an address that has been freed.
- **Removal.** A killed process may be queued in a semaphore, a pipe, the timer and the ring of
  readers. Two of the four forget it, one of them the wrong slot.
- **Order of ends.** Two sides of a pipe close, exit or are killed in any order, and the last one
  frees.
- **Lost input.** One variable holds the last key. A key that comes before its reader waits, a
  release before its reader has run, a key that wakes the other reader: each loses one.
- **Sequences.** Splitting and merging of blocks, numbers of pipes, nice, seats at a table: every
  call is legal and the state after fifty of them is what counts.
- **Shared screen and line.** Everybody prints on one screen while a line is being edited, the
  line has one limit in `read`, the words another in the shell and a third in the kernel, and
  the buffer keeps the line before.
- **Disk.** Gaps of deleted files, a directory without an end, a bss that lies over the modules
  that have been loaded.
- **Limits.** A full semaphore queue or table keeps a lock, an array of pipes is compared with the
  wrong limit, sizes wrap.

## Modules

`Sources → module` is one to one with `PROJECT.json`, whose `map` gives the lines of every
definition. Actions carry the name of the function they model; a definition that starts with
the comment *Wrong on purpose* is a deliberately broken version of the definition behind it,
and shows that a property depends on the code (replace the one by the other and TLC finds the
property violated).

### Scheduler

`list` is the linked list along its `next` pointers, as a sequence of pids; `pstate`,
`priority` and `auxPriority` are the fields of the pcbs; `current`, `fgTaken`,
`priorityQuantum` and `nextPid` are the variables of the same names. `Tick` is the timer
interrupt (or `yield`), `SwitchProcess` is `switchProcess` with its ageing round, the
two scans (`NextScan`, `FirstMinScan`, recursive functions that make one step per
visited node) and `Choose`. `CreateProcess`, `Exit`, `KillPid`,
`ChangeProcessPriority`, `ToggleState`, `BlockAndSwitch`, `BlockCurrentProcess` and
`Wake` are the rest of the file. A call that ends in `runScheduler` contains the switch.
`Exit` is `exitCurrentProcess` of the system call `exit`, with interrupts off. The switch in it
stores `sp` in the node that has just been freed (`scheduler.c:206`) and reads that node's `next`
(208): the scan starts from the old successor, which the memory still holds because nothing can be
allocated in between.

The exit by F2, with interrupts on, is `LowerFlag` (line 281), `FindNode` (the way down of
`deleteProcess`), `MarkExited` (266), `FreeNode` (270-271) and `Unlinked` (275 or 283, with the
switch); `exitAt` says how far each process has come, and `Tick` may come between any two. A process that
is preempted behind 266 is never dispatched again and stays in the list; one preempted behind 281 is
listed and ready with `fgTaken` lowered, so that the shell may run, start another foreground process
and even kill it. `ListIsAlive`, `CurrentIsLive` and `ForegroundFlag` say what remains true of the list and
the flag in all of these states. The module follows them up to `Tear`: another process changes the list, or
allocates, while a preempted `deleteProcess` has nodes in hand that it will write when it goes on, or while a
freed node is in the list (`Exposed`). Nothing is said of what happens after that. `MaxExiting` bounds how
many such exits are under way at a time; the proofs hold for any number.

The callers' rules are guards and named in comments: the shell creates a foreground process
only when there is none, nobody kills itself, and a foreground process is killed or reniced
only when it has begun to exit, because before that the shell that would do it does not run.

### Semaphore, SemaphoreTable

`Semaphore` is one semaphore at the grain of the interrupt. `SemWait` and `SemPost` are whole
calls; a resumed `sem_wait` is `Resume` (with the store of `_xchg`), `TestValue`,
`TestWaiting`, `CountWaiting`, `BlockCurrent`, `StoreAndSwitch`, `LoadValue` and
`TakeValue`. `queue` keeps its stale slots, which `sem_post` can read. `hits` counts
timer interrupts inside a resumed `sem_wait`, `seen` the kinds of other disturbances, so that
every property can say exactly until when it holds.

`SemaphoreTable` is the array of semaphores and the handles, which are addresses and survive a
`sem_close`. Any number of processes may close (`Closers`), as the philosophers do, who all close the
same numbers: a close through a handle that has outlived the semaphore removes the entry whose number the
memory holds by then, and frees the old address, perhaps for the second time. `seen` says whether a
semaphore was closed under a holder, whether a queue was damaged by a kill in its middle, whether the
timer hit a resumed `sem_wait` between blocking and queueing (`Hit`, line 79), and whether
an address was freed twice. The last two end what the module follows (`Followed`): what a hit leads to is
in `Semaphore`, and what `alloc` returns after a second free is not known.

### Sleep

`start` is the timer's queue; `TimerHandler` contains the removal rules of lines 33-53, including
the case that clears the queue. `HardwareTick` is the hardware interrupt and `Yield` a voluntary
switch that ticks as well. A pcb can be freed with its node queued and handed out again.

### Heap, MemoryManagerADT, Heap2, BuddyHeap, MemoryManagers

`Heap` is what a caller relies on: granted byte ranges that never overlap. `MemoryManagerADT`
has what the two managers share: the free list ordered by size, the bytes a request needs, the
parts of their invariants and the refinement mapping to `Heap` (the header is subtracted).
`Heap2` splits and never merges; `BuddyHeap` splits and merges with the history bits that tell a
left buddy from a right one. `MemoryManagers` is the heap as the `Makefile` builds it: `MM` is
chosen in `Init` and never changes, the properties hold for whichever was chosen.

### Pipe, PipeTable

`Pipe` is one pipe between a writer and a reader, at the grain of the interrupt, with bytes
numbered in the order of writing. `fd` holds the flags of the writer's `fdPipe`, which
`ResumeWrite` overwrites with either value. `PipeTable` is the array: `managePipe` with and
without a known command, `p2` and `p3` by number, kills, leaks, the counter `pipeIds`
and reuse of addresses. Calls from a program are steps. A read that was woken takes what is there
(`ReadOn`) and asks for the next byte with interrupts on: `BlockOn` looks and registers undisturbed, or the
timer hits it, and then `HitOn` blocks and stores `waitingProcess` with or without the timer in between.

The exit that F2 makes of cat's read of the keyboard (`cat | wc`) runs `closeFdPipe` with interrupts on. In
`Pipe` it is `ExitOfRead` (up to line 116) and `CloseOn` (the accesses behind it), and `cut` remembers that the timer hit
one. In `PipeTable` such a hit (`CutExit`) ends what the module follows.

### Terminal

`keyboard_handler` on `Press`, `Release` and `Shift`; two readers, the shell and a foreground
process; the first wait of `read` as one step (`Read`) and the steps behind it (`LoadKey`,
`ClearKey`, `Char`, `Backspace`, `NoChar`, `Return`, `Exit`, `Wait`). `typed` is
the line as the user means it. `seen` has the kinds of disturbances.

### Console, Shell, Session

`Console` is `naiveConsole.c` as operators on a record `c`: `video` (the characters of the
cells), `current` (`currentVideo`) and `cursor`. A newline prints at least one blank; scrolling
happens before a character is printed, when the place has reached the last row.

`Shell` is the way from the characters in the buffer to a command: `Args` (the splitting of
`executeCommand` with its limits), `managePipe`, `createProcess` with `Pack` (libc) and `Unpack`
(`createProcessWrapper` in the kernel), `atoi` and `uintToBase`. A word is a sequence of
characters, except that the name of a command is a single one.

`Session` composes them with the shell's loop and the line editing of `read`: a user has words in
mind (`meant`), types them key by key, makes slips and takes them back, ends the line or presses
F3; processes print and end and the cursor blinks in between. `memory` is the shell's buffer and
the bytes behind it, whose first contents are arbitrary (`Stale`) and which is never cleared.
`stage` is where the shell's loop is, `length` is `count` of `read`, `entered` the line so far, and
`TypeNext`, `TypeSlip`, `EraseKey`, `Enter` and `EndOfFile` are the keys.
`outcome` is what the last line came to. Every key finds its reader waiting, which is what
`Terminal` examines.

### Bmfs, Image

`Bmfs` is `bmfs.c` as operators on a disk `d` with its tag, its directory (by slot) and its blocks.
`new_file_start` is the search of `create` as it is, also where it goes on over deleted entries
(`Starts`) and where its differences wrap (`Fits`); `Sorted` has every order that `qsort` may leave,
among files with the same start and among deleted entries. A file behind the last block makes the
disk longer, with zeros up to it.

`Image` is the way of the modules: `PackKernel` (`buildImage`), `Initialize` as `Image/Makefile` calls it,
any commands of `bmfs` (`Format`, `CreateFile`, `WriteFile`, `DeleteFile`), and, as functions of the disk, what the boot loader has in memory
and what the kernel makes of it (`initializeKernelBinary`). `loadSectors` is the boot record's load of the first
sectors, `Bootable` its comparison with the first bytes of Pure64 (`bmfs_mbr.asm:27-62`), and `Payload` the move to
100000h (`pure64.asm:586-590`), which copies as much as was loaded from behind Pure64 on, so that its last cells
come from behind what was loaded and may be anything (`Memories`). A cell of a file
is a number or a piece of a program. `packedFrom`, `diskFrom` and `written` remember what went in.

### Philosophers

`philo.c` with semaphores taken for what they promise (which `Semaphore` shows they keep while
no resumed wait is hit). The critical sections of a philosopher are single steps between taking
and returning the mutex, those of the keys 'a' and 'r' are one step that begins when the mutex
is free; `endDining`, which takes no mutex, goes call by call. A run finds a new mutex or, where a kill
took the wrong slot of its queue and `sem_close` refused, the one of the run before with its value: taken,
perhaps (`refused`). What else a dead process in the queue does, namely take wake-ups, is left out here.

### The proof modules

`SchedulerProofs`, `SemaphoreTableProofs`, `PipeProofs`, `PipeTableProofs` and
`MemoryManagersProofs` extend the module they are about. `SynchronizationProofs` is about
`Semaphore` and `Philosophers`, and `DeviceProofs` about `Sleep`, `Terminal`, `Session` with its
`Console`, and `Image` with its `Bmfs`: modules that share a proof module give their `Init`, `Next`,
`Spec` and `Inv` a prefix (`Dining`, `Timer`, `Session`, `Image`). `KernelLemmas` has what the proofs share: removing from, inserting
into and sorting sequences, arithmetic of positions in a ring, sums over finite sets, and that the
equation of a recursive function has a solution. See [proofs](#proofs).

## Runs

`tlc -config <cfg> <module>` in this directory. Every `Inv` (`TimerInv`, `DiningInv`,
`SessionInv`, `ImageInv`) is the conjunction of the type
invariant and the structural invariants of the module that are named in its definition.

| run | shows | instance and why it is enough |
|---|---|---|
| `sched` (`Scheduler.cfg`) | the list, the flag, the ageing and every choice of a switch are right; `IdleIsExplained`; `NoStarvation` | 4 processes, the fewest with a shell, a foreground process and two background ones whose order matters; `PRIORITY_QUANTUM` 1 so that ageing rounds happen often (5 in the source: the proofs hold for every value); nice value 2, between the shell's 1 and the default 3 (the proofs hold for all from 2 to 10); one exit with interrupts on at a time (the proofs hold for any number), which every other process, the shell too, may meet half done |
| `sem` (`Semaphore.cfg`) | `Inv`: a free lock unless the queue is full, and a queue that names the sleepers; `UnitsConserved`; `NoLostWakeup` | 3 users and one process that posts and kills, 2 slots: the queue fills, a kill hits its middle; one kill, one post and one hit, because each property speaks of the time before one of them |
| `sem_table` | numbers are unique, table = allocated memory, a second free takes a close under a holder, sleepers are reachable | 3 processes of which 2 close, 2 numbers, 2 addresses and 2 entries, opened with -1, 0 or 1: a table that fills, an open that is refused, an address that is reused under another number and freed through an old handle |
| `sleep` | no expired node stays, nodes are sleepers, a sleeper is lost only in a step in which another one at the head expires and is woken, the queue drains | 3 pcbs, a second of 2 ticks, sleeps of 0 to 2 s: every order of expiry of three nodes, also of two in one tick |
| `memory` | tiling, sorted exact free list, grants that fit, HEAP2's accounting, BUDDY's headers where they are looked for, complete merging, and `ImplementsHeap` for both | 32 bytes, headers of 2: for `Heap2` several blocks and splits that leave a remainder just too small; for `BuddyHeap` 8 minimum blocks on 4 levels, so that merges cascade. Requests from 0 to one the heap cannot hold |
| `pipe` | order and count of the bytes, who waits is alive and registered, the pipe is freed last; the two liveness properties | a ring of 3 bytes and 7 bytes in all, so the ring turns twice; writes of 1 or 2 bytes; one kill and one hit, also in an exit by F2 |
| `pipe_table` | array = allocated memory, open flags = holders, a reader that sleeps has a writer | 3 processes, 2 entries, 2 addresses, 3 numbers (256 in the source), one disturbance; processes and addresses are symmetric and the run has no liveness property |
| `phylo` | no two neighbours EATING, no stray posts, one spare unit, the hungry are told, meals go on | `MAX_PH` 4 (10 in the source): the smallest table at which some two philosophers are not neighbours |
| `terminal` | the ring names the blocked readers; the line is what was typed; the end of a line is returned | 2 readers and a ring of 2 nodes, which wraps at every step; lines of 2 characters of which 1 is stored; one kind of disturbance per behaviour, because each property speaks of one |
| `session` | nothing is written outside the screen and no second cursor is left; the line on the screen is the line stored; the command that runs is the one meant | a screen of 5 by 3, which scrolls within a line; words of at most 2 characters kept (one word has 3), at most 4 words kept and 4 typed, so that a pipe, `&`, cut words and two lines one after the other occur; 7 characters stored, so that lines are longer than the buffer; one slip and one print of a process |
| `image` | files lie apart and hold what was written, room is found where there is room, the modules arrive | a directory of 3 entries and disks of 2 (too small), 3 and 7 blocks, files of 1 and 2 blocks with 3 names, 8 runs of `bmfs`: gaps, their reuse and a full directory; images of two modules, one of them empty, of which one is longer than what the boot record loads; a bss that lies over the loaded modules |
| `sem_mutex` | violated: two processes in the section of `test_sync` | 3 processes and one hit |

Deadlock is not checked where the system really stops: when all bounded events have happened,
when a process spins with interrupts off, when the dining has ended in a taken mutex. `sched`,
`sleep`, `memory` and `image` are checked for deadlock.

Many properties read "until ...": the code keeps them until one of a few named things happens,
and the history variables `hits`, `cut`, `torn`, `seen`, `kills`, `removed`, `refused`, `reseated`,
`meddled`, `mixed`, `odd` and `strained` name these things. What happens afterwards is in *known divergences*.

## Fairness

| module | assumed | why the code justifies it |
|---|---|---|
| Scheduler | `[]<><<Tick>>_vars` | the hardware raises IRQ 0 18 times a second, and no call of that module leaves interrupts off. Behaviours with `Tear`, after which nothing is followed, are not among the fair ones |
| Sleep | `WF(HardwareTick)` | the same |
| Pipe | `SF` of the dispatch of each side and of its steps | `NoStarvation`: who stays ready is dispatched again and again |
| Terminal | `WF` of the dispatch of the active reader, `SF` of its steps | the same; the shell is active only without a foreground process |
| Philosophers | `WF` of each philosopher | the same; nothing is assumed of the order in which the mutex is handed out, and no key need be pressed. `MealsGoOn` excludes that philosophers are removed again and again, because one of them may take the mutex every time |

`NoStarvation` itself assumes only ticks, and excludes that nice is called again and again, because
nice resets the effective priority.

## Proofs

Every theorem below is about the specification the run checks, for every value of the
constants under the named assumptions of the module. TLC checked each inductive invariant on
the run's instance before it was proved.

| module | theorem | property | assumed of the constants |
|---|---|---|---|
| `SchedulerProofs` | `TypeCorrect` | `TypeOK` | at least one pid, ageing every so many switches, nice values in `2..10` |
| | `ListCorrect` | `ListIsAlive` | |
| | `CurrentCorrect` | `CurrentIsLive` | |
| | `SortedCorrect` | `SortedBehindShell` | |
| | `ForegroundCorrect` | `ForegroundFlag` | |
| | `AgeingCorrect` | `AgeingBounded`, a part of the inductive invariant: the effective priority stays between 1 and the nominal one | |
| | `NextScanCorrect` | `NextScanIsMinimal` | |
| | `NextProcessCorrect` | the first scan, for any list, returns the first ready node of least effective priority | |
| | `DispatchCorrect` | `DispatchesEligible` | |
| | `IdleCorrect` | `IdleIsExplained` | |
| | `Invariance` | the inductive invariant | |
| `SynchronizationProofs` | `QueueNamesSleepers` | `Inv` of `Semaphore` | finite and disjoint sets of lockers and posters, a queue with a slot |
| | `UnitsStay` | `UnitsConserved` | |
| | `WakeUpsStay` | `NoLostWakeup` | |
| | `InductiveInvariant` | the inductive invariant | |
| | `GrantedApart` | `DiningInv` | a table with a seat |
| | `SpareUnitOnce` | `OneSpareUnit` | |
| | `HungryIsLookedAt` | `NobodyForgotten` | |
| | `DiningInvariance` | the inductive invariant | |
| `SemaphoreTableProofs` | `TableStands` | `Inv` | the closing processes, however many, are processes; addresses enough for the table, values up to at least 1 |
| | `SleepersListed` | `SleeperIsListed` | |
| | `InductiveInvariant` | the inductive invariant | |
| `PipeProofs` | `BytesInOrder` | `Fifo` | a ring of at least one byte, strings no longer than the ring |
| | `BlockedIsWoken` | `Inv` | |
| | `LastExitFrees` | `FreedAtTheEnd` | |
| | `InductiveInvariant` | the inductive invariant | |
| `PipeTableProofs` | `TableStands` | `Inv` | addresses enough for the array, an array of at least 2 |
| | `EndsStay` | `EndsMatchHolders` | |
| | `SleepersHaveWriters` | `SleeperHasWriter` | |
| | `InductiveInvariant` | the inductive invariant | |
| `MemoryManagersProofs` | `HeapCorrect` | `Inv`, for both managers | sizes of the heap and of a header are multiples of the alignment, requests that do not wrap; for BUDDY, a smallest block larger than a header, and a heap of 2^k of them with k at most 32 |
| | `MergedCorrect` | `FullyMerged` | |
| | `HeapImplemented` | `ImplementsHeap`, for both managers | |
| | `Invariance` | the inductive invariant | |
| `DeviceProofs` | `QueueCorrect` | `TimerInv` | a second of at least one tick, a finite set of times to sleep |
| | `DroppedCorrect` | `DroppedOnlyBehindHead` | |
| | `TimerInvariance` | the inductive invariant | |
| | `RingCorrect` | `Inv` of `Terminal` | a ring with a node for each of the two readers |
| | `LineCorrect` | `LineIsRight` | |
| | `TerminalInvariance` | the inductive invariant | |
| | `ScreenCorrect` | `SessionInv` | a screen of two rows or more; words of one to three printable characters, in which the mark of the cursor does not occur; a user who types no more wrong characters than fit in the rows above the last but one (1840 in the source) |
| | `ScreenShowsLine` | `LineOnScreen` | |
| | `SessionInvariance` | the inductive invariant | |
| | `DiskCorrect` | `ImageInv` | files of whole cells, names that no mark begins with, sizes that `bmfs` accepts |
| | `ModulesCorrect` | `ModulesArrive` | the kernel ends in front of its bss, the bss and what is loaded in front of the first module's address, and each module of an image that fits in front of the next address, Pure64 no longer than what is loaded: `kernel.ld`, `moduleAddresses` and the 256 KiB that are loaded give 1 MiB each |
| | `ImageInvariance` | the inductive invariant | |

The bounds on counters (`MaxBytes`, `MaxKills` and so on) are arbitrary in the proofs.

Each proof has one step per action, and under it one per conjunct the action can disturb.
What each inductive invariant adds to the properties, and why they need it:

- **Scheduler.** `Inv` is the conjunction of `TypeOK`, `ListIsAlive`, `CurrentIsLive`, `ShellIsHead`,
  `ForegroundFlag`, `SortedBehindShell`, `AgeingBounded`, `Started`, `PrioritiesSet` and `ExitsRight`. The list
  stays sorted only because `loadProcess` and nice never compare with the head and the head
  is the shell, of highest priority (`ShellIsHead`); it stays the head because nothing links
  in front of it. The flag is right because a living process other than the shell has the
  priority it was created with or a nice value, and nice values are never 1
  (`PrioritiesSet`), and because the flag is lowered in the step in which the exit begins. `current` is a node of
  the list because a switch returns a ready node of the list it was
  given, and the kill of the current process is excluded; a process that is preempted in its exit still
  has its node, and from its marking on it is in a state that no switch dispatches (`ExitsRight`). `Started` says that
  nothing but the shell exists before the first switch. The facts about the recursive scans are proved from the
  defining equation of each scan with `LeastNatural`: the least index at which a claim fails
  would have a predecessor at which it holds. `IdleCorrect` needs in addition what the second scan
  knows of every node it has passed: if it ends with a node that is not ready, then every
  eligible one was passed while a candidate of smaller effective priority stood.
- **Semaphore.** `IInv` holds the types, who runs (`Running`) and, until an interrupt hits a resumed
  `sem_wait`, `Undisturbed`. Its core is `ResumedAlone`: the one resumed waiter is the running
  process, the lock is free, and what it has read of the value and the queue is still so.
  Only then do the separate accesses of a resumed wait add up to an atomic one, and units are conserved
  (`Conserved`), the queue names the sleepers (`QueueRight`, up to a kill behind another
  slot) and as many are awake as there are units to take (`WokenEnough`).
- **SemaphoreTable.** `Base` keeps table and memory the same, whoever closes: what is freed the first time is
  allocated, and as numbers are unique (`UniqueIds`) the entry that a close removes is its own as long as the
  handle is open. After a close under a holder a handle may lead to another semaphore, of which the close
  removes the entry of the number it reads, and that is the one it frees unless the memory is free
  already: the second free, behind which `UniqueIds` and `EntriesUsed` still hold and `UsedEntered` does not. It takes a handle that has outlived its
  semaphore, and until a close under a holder there is none (`HandlesOpen`). `Undamaged`, until anything
  in `seen`, has every sleeper in the queue of what it waits for.
- **Pipe.** `IInv` holds the types, what a side's place says of the ends (`EndsOK`, until the timer hits an
  exit by F2: a writer inside it is the running process) and the bytes left (`TodoOK`), `WaiterIsAlive` without any condition, and, until an interrupt hits a resumed
  call, `Undisturbed`. A woken writer stores without looking for room, so order needs
  `RoomOK`, which needs that the two sides never both wait (`WaitsRightly`), which needs that
  `bytesToRead` is right but for the byte in flight (`Counted`). `RingOK` says which byte is in
  which place of the ring.
- **PipeTable.** `IInv` has three classes of parts, for what has disturbed the pipes so far. A close
  must find its own pipe, so each end is held by one process (`EndsHeld`), and the array names what
  is allocated (`EntriesRight`); a kill does not disturb these (`Named`). A sleeper's writer is alive
  because open ends have holders (`OpenHeld`), which a kill ends (`Held`). It is registered because only a hit
  comes between its look and its registration (`HitNoted`). Only these, the types and what a
  process has where it is (`Phases`) hold throughout.
- **HEAP2.** `HeapInv` is tiling, the exact, injective and ordered free list, alignment of all sizes,
  grants that fit, and the sums: all blocks make the heap, the free ones make `heapLeft`. The sum
  over the blocks is why subtracting a split block never wraps. The refinement follows from tiling and
  fit: what the allocator hands out lies in a free block, and nobody else's bytes do.
- **BUDDY.** `BuddyInv` says that no block is in hand: `Rested`. Its core is `Sound`: the headers tile the
  heap and the address of each block is its size times its history, so that the last bit of the
  history is the parity of the block among those of its size. From it `BuddyBegins` follows: where the
  buddy of a block is looked for, a block begins, and it is no larger, because the sizes are the
  smallest block times powers of two (`SizesDivide`) and a larger block would begin there at an
  address that is no multiple of its size. Inside a call `InHand` takes the place of `Rested`: one block is in no list, and
  it is the only one that anything free could still be merged with. Each turn of the two loops keeps that
  (`MergeStepKeeps`, `SplitStepKeeps`), and `MergedKeeps` shows that merging has ended after `Turns`
  turns, because the block in hand is larger than k smallest ones after k merges. That the
  whole heap is one block again follows from the smallest block: its buddy would be as small, and free.
- **phylo.** `OneHolder` (the mutex) and `SeatsTaken` (processes sit at the places of the table) make each
  step of a critical section see a consistent table; `SpareBounds` counts the units that nobody granted,
  where a semaphore that `endDining` left open must have none; `Looked` is `NobodyForgotten`
  while the mutex is taken as well.

- **Sleep.** `TimerIInv` is the run's invariant and `HardwareCounted`: of the ticks in a node's age
  some came from the hardware. The rest is why the queue is cleared only at its head: until a kill or a block
  command every sleeper has one node, so the node before the one that is removed belongs to another
  process, and the test of line 40 only holds where there is no node before.
- **Terminal.** `Dispatched` and `ResumedRuns` say that nobody reads beside the active reader: the shell waits
  while there is a foreground process, and until an interrupt hits it a resumed `read` has the CPU. So
  the ring is changed by one at a time (`RingHolds`, with the reader that is written but not yet
  counted), and there are at most two names in it, for which it has nodes. `LineHolds` adds that one
  key at most is pending and that it is the active reader's: the line is what was typed but for that key.
- **Session.** A screen is one of `Consoles`: the place is at most the first column of the last row, and
  the mark of the cursor stands nowhere else. Every function of `Console` keeps that. `Ends` says what stands
  before the place, as far as the screen goes back, through ends of rows and scrolls. A backspace
  must not meet the start of the screen while the line has characters, because then `read` would keep them
  (`syscalls.c:66`): `InReach` says that either the whole line is in front of the cursor or, since the screen
  has scrolled, only slips have been taken back, fewer than the rows above hold. Nobody is in the foreground while the shell
  executes a line (`ProcessesOK`), so the foreground process is one that the command has created.
- **Image.** `ImageIInv` holds of any disk, however its files were created, that its entries are entries, that a
  name occurs once and that no entry starts in block 0 (`DiskOK`): that is why nothing `bmfs` does to files
  reaches the system (`SystemIn`), and with it `ModulesArrive` follows from the functions alone: `ImageContains`
  says where in an image the sizes and cells are, `ModulesAreLoaded` that each copy leaves what the next one
  reads and what the last ones wrote. Files are kept (`KeptOn`) as long as they lie apart and in front of
  the last block (`Placed`). Then the sorted entries are in order of their ends as well (`SearchInOrder`), so
  no difference wraps and the first room is free (`RoomIsFree`), and what is free lies in a gap that the
  search comes to (`FreeIsRoom`): with that `create` keeps the files apart, and refuses none that fits.

The fields and tables of C become functions, and updates of them with a new key are `With` of
`MemoryManagerADT`: the prover does not look into `@@` and `:>` of the module TLC. The loops of BUDDY are
recursive functions over their turns and not folds, about which no backend can do the induction; that
such a function exists and what each of its turns keeps is proved by a least counterexample.

Only model-checked:

- every liveness property (`NoStarvation` and those of `Sleep`, `Pipe`, `Terminal` and
  `Philosophers`), and whatever needs ENABLED: beyond the prover;
- `CommandIsMeant`: what splitting, packing and unpacking make of every line is an induction over
  the characters and the words, and the positions are collected with `SetToSortSeq`;

## Known divergences

The first is a run of this project (`sem_mutex`). The others were found while the
modules were written; each is stated as a definition in the last section of its module, and
TLC finds it violated with the constants below. They are kept as the reason why the checked
properties have the conditions they have.

| definition | code | constants |
|---|---|---|
| `Semaphore!MutualExclusion` (run `sem_mutex`) | a resumed `sem_wait` tests and takes the value without the lock (`semaphore.c:84`); `test_sync.c:43` | in `SemaphoreMutex.cfg` |
| `Philosophers!NeighboursDoNotEat` | `philoSem` is opened with 1 (`philo.c:56`), so the first wait of a philosopher returns although nothing was granted; `Readme.md:26` | `MAX_PH` 3 |
| `Scheduler!SortedByPriority` | once the shell has exited, `loadProcess` links behind a head it never compares (`scheduler.c:125`); `scheduler.c:34` | those of `Scheduler.cfg` |
| `Semaphore!QueueListsBlocked` | the removal of a killed process shifts from slot 0 (`semaphore.c:137`); `semaphore.c:111` | `Lockers` {a,b}, `Posters` {s}, initial value 0, `PROCESS_LIMIT` 2, `MaxPosts` 0, one kill, one hit |
| `SemaphoreTable!RefusalIsReported` | a full table returns with its lock taken (`semaphore.c:25`); `test_sync.c:60` | those of `SemaphoreTable.cfg` |
| `SemaphoreTable!ClosedOnce` | `sem_close` frees whatever its handle points to (`semaphore.c:66`), also when another process has closed the number before; `philo.c:136` | those of `SemaphoreTable.cfg` |
| `SemaphoreTable!SharedSemaphore` | `sem_close` frees under its holders (`semaphore.c:66`); `test_sync.c:43` | the same |
| `Sleep!SleeperIsQueued` | an expired head clears the queue (`time.c:41`); `apps.c:108` | 2 pcbs, `TICKS` 18, 1 or 2 seconds, no meddling |
| `Sleep!SleepsLongEnough` | every `int 20h` ticks (`time.c:34`); `Readme.md:27` | the same |
| `CommandIsMeant` of `Session` without `odd` | the shell ignores that `read` was ended by F3 and executes a buffer without an end, with the rest of an older line (`apps.c:144`); a line of more than 100 characters gets its end behind the buffer (`syscalls.c:62`); `Readme.md:36` | those of `Session.cfg` |
| `FilesKept` of `Image` without `strained` | with no room, `create` goes on over deleted entries as if they were files, and a directory without an end counts as empty (`bmfs.c:672`, `bmfs.c:641`): files overlap; `bmfs.c:665-668` | those of `Image.cfg` |
| `Pipe!WcCounts` | `_xchg` overwrites the writer's flags, and no end of input comes (`libasm.asm:74`); `Readme.md:23` | `FairSpec`, ring 2, `MaxBytes` 4, no kills, no hits |
| `Pipe!CatPrints` | a resumed `pipeRead` counts a byte off before it takes it (`pipes.c:166`); `Readme.md:25` | ring 3, `MaxBytes` 8, 2 hits |
| `PipeTable!PipeWaits` | `openPipeId` sets the flag through the old pointer (`pipes.c:75`); `apps.c:108` | those of `PipeTable.cfg` |
| `Philosophers!MealsOutliveRemoval` | `deletePh` returns with the mutex taken (`philo.c:138`); `philo.c:179` | `FairDiningSpec`, `MAX_PH` 2 |
| `Terminal!ReleasedKeyIsRead` | a release overwrites the key (`keyboard.c:24`); `Readme.md:25` | ring 2, `LineSize` 2, `MaxCount` 2, no hits, `MaxSeen` 1 |
| `Terminal!ForegroundKeyIsRead` | a key wakes the shell, which is not dispatched (`scheduler.c:385`); `Readme.md:25` | the same |
| `Terminal!InterruptedReaderIsListed` | a reader is blocked before it is in the ring (`scheduler.c:374`); `Readme.md:25` | the same with one hit |

One more shows without a definition of its own: with four seats `MealsGoOn` fails when
`reseated` is not excepted. A philosopher who becomes hungry and then gets a new neighbour is
not the neighbour of the one who puts the chopsticks back, so it is not told (`philo.c:101-104`).

More was found and has no definition, because the models stop before it:

- BUDDY's `freeMem` adds the size of the merged block (`MemManBuddy.c:174`): `heapLeft`, which
  `mem` prints, grows with every merge. `BuddyHeap` has the wrong sum and promises nothing of it.
- HEAP2 adds header and padding to a 32-bit size (`MemoryManagerADT.c:64`), which wraps for requests
  near 2^32; no program makes one, and `RequestsAssumption` says so.
- `kill`, `nice` and `block` read a row of `args` that was never written when an argument is missing
  (`builtin.c:39-58`; `Session` leaves its value open), and pass on 0 when it is no number.
- The right side of a pipe keeps its `&` and always runs in the background (`libc.c:224`).
- `bmfs initialize` notices a boot record that is too short after it has truncated the disk
  (`bmfs.c:438-503`). An image longer than what the boot record loads (256 KiB) is cut without a
  word; `ModulesArrive` excepts it.
- `bmfs create` never hands out the last block (`bmfs.c:673`).
- The comments of `pure64.asm:12` and `16` limit the payload to 26 KiB (Pure64 and payload to 32 KiB in all), while
  the boot record loads 256 KiB (`bmfs_mbr.asm:29`) and Pure64 moves 256 KiB (`pure64.asm:588`). `ModulesArrive`
  speaks of the code: every image up to what is loaded arrives.
- Pure64 moves 256 KiB from behind its own 6144 bytes (`pure64.asm:586`), so the last 6144 bytes come from behind
  A0000h, where the boot record has put nothing.
- F2 in `read` calls `exit` with interrupts on (`syscalls.c:75`). A tick behind `scheduler.c:266` leaves the process in
  the list for good, one between 270 and 275 a freed node; the next list change or allocation works on it
  (`Tear`). A tick behind `pipes.c:116` lets the reader end and free the pipe that the writer goes on to
  read, remove from the array and free again (`cut`).
- A resumed `pipeRead` that is hit between `blockCurrentProcess` and the store of `waitingProcess`
  (`pipes.c:160`), or a resumed `sem_wait` between blocking and queueing (`semaphore.c:79`), sleeps for good:
  `Hit` of `SemaphoreTable`, `HitOn` of `PipeTable`.

## What is not modelled

- **In `read`:** the store of `_xchg` in a resumed `waitForKeyboard`. The first one writes the
  line limit over the start of the buffer, before any character is stored there; later ones
  write at the address that equals the last printed character, into the descriptor table at
  address 0. The end of a line of more than 100 characters hits the stack frame of the shell;
  `Session` has the bytes behind the buffer and not what they mean.
- **In the scheduler:** `QUANTUM` is 1, so lines 186-189 of `switchProcess` are dead; the register
  frame; `ps`. A foreground process that is killed would leave `fgTaken` set; no program
  does that.
- **In phylo:** F2 in `phylo` ends the main process and leaves the philosophers; the drawing of the
  table.
- **After F2:** what the memory holds after `Tear`, `cut` or a second free. The calls that an exit by F2 makes
  besides, with interrupts on as well (`freeMem`, whose lists `MemoryManagers` changes in one step, the shift of
  the array in `deletePipeFromArray`, the removal from the semaphores' queues), are not taken apart.
- **In phylo's semaphores:** wake-ups that go to a dead process left in the queue of the mutex
  (`SemaphoreTable` and `Semaphore` have them).
- **In the pipes:** an `fdPipe` that `alloc` hands out is not cleared. `PipeTable` treats its
  first use through an old pointer as a write to memory that is nobody's.
- **In the shell and libc:** the text that commands and programs print; `nice` and `block` typed in
  a session (their numbers are `Shell!Numbers`, their effect is in `Scheduler`); names and words
  longer than the sizes that the constants stand for. `hex2int`, `strToDouble`, `dtos`, `itos`,
  `printReg` and the `inforeg`, `printmem` and date functions are called by nothing.
- **In the console:** colours, number formats other than `uintToBase`, `ncPrintReg`.
- **In bmfs:** the parsing of the size, the optional arguments of `initialize`, which `Image/Makefile`
  always gives, and errors of the host's file system; names too long for an entry.
- **Pure64**, third-party assembly that has ended before the kernel starts: `loadSectors`, `Bootable` and `Payload`
  say what the boot record and it copy and compare, and nothing else of it is modelled.
- **Exceptions**, which restart the code of the shell in the faulting process, on the stack of the
  first shell (`interrupts.asm:99-115`): no program raises one. The **system call table**, its
  entry and its stubs are a mapping from numbers to functions, without state; that a call runs
  with interrupts off is the grain of all modules. The **clock chip** is port input.
- **Test programs:** `test_processes`, `test_mm` and `test_prio` make sequences of calls that
  `Scheduler` and `MemoryManagers` allow in any order; they have no state of their own
  that matters to a property.

## Plan

Done, in this order: Scheduler (module, run, proofs), Semaphore and SemaphoreTable, Sleep, the two
memory managers, Pipe and PipeTable, Philosophers, Terminal; then Console, Shell and Session,
the two managers put together in MemoryManagers, Bmfs and Image.

Next, in order of worth:

1. **Proofs.** `CommandIsMeant`, once splitting and packing are functions over positions instead of
   `SetToSortSeq`; no module uses a RECURSIVE operator.
2. **Composition**: Scheduler with the timer's queue and one pipe, so that `Wake` comes from a
   handler and dispatch from `switchProcess`; it replaces the free choice of a ready process
   in `Pipe` and `Sleep` by the real one.
3. **Abstract specifications**: a bounded FIFO channel for `Pipe` without hits, a counting semaphore
   for `Semaphore` without hits.
