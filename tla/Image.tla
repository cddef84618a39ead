------------------------------- MODULE Image -------------------------------
(***************************************************************************)
(* From the built files to the running system: the module packer           *)
(* (Toolchain/ModulePacker/main.c) makes one file of the kernel and its    *)
(* modules, bmfs puts it on a disk (Bmfs, as Image/Makefile calls it),     *)
(* the boot loader brings it to memory, and the kernel copies the modules  *)
(* to their addresses (moduleLoader.c) before it clears its own bss.  In   *)
(* between, bmfs may keep files on the same disk.                          *)
(*                                                                         *)
(* A cell of a file or of the memory is a number of four bytes or a piece  *)
(* of a program.  Addresses count from 100000h, where the kernel starts.   *)
(***************************************************************************)
EXTENDS Bmfs

CONSTANTS
  PURE64,            \* the cells of pure64.sys
  LOADED,            \* the cells that the boot record loads, 256 KiB
  Kernel,            \* the cells of kernel.bin
  bss, endOfKernel,  \* addresses
  moduleAddresses,   \* sampleCodeModuleAddress, sampleDataModuleAddress
  endOfMemory,
  Modules,           \* bound: what the files of the modules may hold
  BootRecords,       \* bound: what the file of the boot record may hold
  Sizes, Files,      \* bounds: sizes of a disk in blocks, names of files
  Contents, MaxSizes,\* bounds: what is written to a file, sizes in MiB asked for
  Memories,          \* bound: what memory may hold before the kernel is there
  MaxRuns            \* bound: times bmfs is run

endOfKernelBinary == Len(Kernel)

\* The modules are loaded, behind all of Pure64, in front of the first of their
\* addresses, and the kernel ends in front of it.
ASSUME LayoutAssumption ==
  /\ {LOADED, bss, endOfKernel, endOfMemory} \subseteq Nat
  /\ moduleAddresses \in Seq(Nat) /\ moduleAddresses # <<>>
  /\ endOfKernelBinary <= bss /\ bss <= endOfKernel
  /\ endOfKernel <= moduleAddresses[1] /\ moduleAddresses[1] <= endOfMemory
  /\ LOADED - Len(PURE64) <= moduleAddresses[1] /\ Len(PURE64) <= LOADED

\* bmfs refuses sizes below one, and no name begins like an entry that is none.  The
\* code of pure64.sys begins with the signature that the boot record looks for.
ASSUME FilesAssumption ==
  /\ Kernel \in Seq(Nat) /\ PURE64 \in Seq(Nat) /\ PURE64 # <<>> /\ PURE64[1] # 0
  /\ \A files \in Modules : files \in Seq(Seq(Nat))
  /\ BootRecords \subseteq Seq(Nat) /\ Contents \subseteq Seq(Seq(Nat))
  /\ Sizes \subseteq Nat /\ MaxSizes \subseteq Nat \ {0}
  /\ Files \intersect {EndOfDirectory, Deleted} = {}
  /\ Memories \subseteq [0..(endOfMemory - 1) -> Nat]

ASSUME RunsAssumption == MaxRuns \in Nat

VARIABLES
  packed, packedFrom, \* packedKernel.bin; history: the modules in it
  disk, diskFrom,     \* history: the modules in the system on the disk
  written,            \* history: by file, what was last written
  strained,           \* history: a file was created where there was no room for it
  runs                \* history: times bmfs has been run

imageVars == <<packed, packedFrom, disk, diskFrom, written, strained, runs>>
Pure64Cells     == <<64>>
KernelCells     == <<51, 52>>
TwoAddresses    == <<9, 12>>
SomeModules     == {<< <<7>>, <<7, 0, 2>> >>, << <<8, 2, 8>>, <<>> >>, << <<7, 8, 7>>, <<7, 8, 7>> >>}
SomeBootRecords == {Missing, <<55>>, <<55, 170>>}
SomeContents    == {<<>>, << <<1>> >>, << <<2>>, <<3>> >>}
SomeMemories    == {[a \in 0..14 |-> 0], [a \in 0..14 |-> 7], [a \in 0..14 |-> a]}
-----------------------------------------------------------------------------
\* write_size and write_file for each of the modules, behind their number.
buildImage(kernel, files) ==
  LET target[n \in 0..Len(files)] ==
        IF n = 0 THEN kernel \o <<Len(files)>>
        ELSE target[n - 1] \o <<Len(files[n])>> \o files[n]
  IN  target[Len(files)]

\* There is an address for every module of an image, and room up to the next one: 1 MiB,
\* of 256 KiB that are loaded.
ASSUME ModulesAssumption ==
  \A files \in Modules : Len(PURE64) + Len(buildImage(Kernel, files)) <= LOADED =>
    /\ Len(files) <= Len(moduleAddresses)
    /\ \A i \in 1..Len(files) :
         /\ moduleAddresses[i] + Len(files[i]) <= endOfMemory
         /\ \A j \in (i + 1)..Len(files) :
              moduleAddresses[i] + Len(files[i]) <= moduleAddresses[j]

memcpy(mem, to, from, length) ==
  [a \in DOMAIN mem |-> IF a \in to..(to + length - 1) THEN mem[a - to + from] ELSE mem[a]]

clearBSS(mem) == [a \in DOMAIN mem |-> IF a \in bss..(endOfKernel - 1) THEN 0 ELSE mem[a]]

\* l.at is currentModule.
loadModule(l, to) ==
  [mem |-> memcpy(l.mem, to, l.at + 1, l.mem[l.at]), at |-> l.at + 1 + l.mem[l.at]]

loadModules(mem) ==
  LET count == mem[endOfKernelBinary]
      after[i \in 0..count] ==
        IF i = 0 THEN [mem |-> mem, at |-> endOfKernelBinary + 1]
        ELSE loadModule(after[i - 1], moduleAddresses[i])
  IN  after[count].mem

\* Wrong on purpose: the order of loader and bss.
ClearsFirst(mem) == loadModules(clearBSS(mem))

initializeKernelBinary(mem) == clearBSS(loadModules(mem))

\* What the boot record loads from the sectors behind the directory and moves to
\* 60000h: always as much, with the zeros of the disk behind the system.
loadSectors(d) ==
  LET cell(i) == IF i <= Len(d.blocks[0]) THEN d.blocks[0][i] ELSE 0
  IN  [a \in 0..(LOADED - 1) |-> cell(SECTOR + a + 1)]

\* It goes on into what it loaded only when that begins like Pure64.
Bootable(d) == d.tag # "none" /\ loadSectors(d)[0] = PURE64[1]

\* The memory at which the kernel starts: Pure64 moves LOADED cells from its own end on,
\* the last of them from behind what was loaded, where memory (that of the screen) may
\* hold anything, and leaves the cells behind them as they were.
Payload(d, memory) ==
  LET cells == loadSectors(d)
  IN  [a \in 0..(endOfMemory - 1) |->
         IF Len(PURE64) + a < LOADED THEN cells[Len(PURE64) + a] ELSE memory[a]]
-----------------------------------------------------------------------------
ImageInit ==
  /\ packed = Missing /\ packedFrom = <<>>
  /\ disk = NoDisk /\ diskFrom = <<>>
  /\ written = <<>> /\ strained = FALSE /\ runs = 0

\* The programs have been compiled; with a file that is missing nothing is packed.
PackKernel ==
  /\ packedFrom' \in Modules
  /\ packed' = buildImage(Kernel, packedFrom')
  /\ UNCHANGED <<disk, diskFrom, written, strained, runs>>

\* A run of bmfs that makes d of the disk.
Run(d) ==
  /\ runs < MaxRuns /\ runs' = runs + 1
  /\ disk' = d
  /\ UNCHANGED <<packed, packedFrom>>

Initialize ==
  \E size \in Sizes, mbr \in BootRecords :
    /\ Run(initialize(disk, size, mbr, PURE64, packed))
    /\ IF Refused(size, mbr, PURE64, packed)
       THEN UNCHANGED <<diskFrom, written, strained>>
       ELSE diskFrom' = packedFrom /\ written' = <<>> /\ strained' = FALSE

\* The commands below want a formatted disk.
Command(d) == disk.tag = "BMFS" /\ Run(d) /\ UNCHANGED diskFrom

\* With /FORCE.
Format == Command(format(disk)) /\ written' = <<>> /\ strained' = FALSE

\* Is there room for n blocks between the files, and an end of the directory?
Room(d, n) ==
  LET D == d.Directory
  IN  /\ FirstWith(D, {EndOfDirectory}) < ENTRIES
      /\ \E s \in 1..(Cardinality(DOMAIN d.blocks) - 1 - n) : \A i \in list(D) :
           s + n <= D[i].StartingBlock \/ s >= FileEnd(D[i])

\* What is known to be written, with that of one file.
Noted(w, name, data) ==
  [f \in DOMAIN w \union {name} |-> IF f = name THEN data ELSE w[f]]

CreateFile(name, maxsize) ==
  /\ \E d \in create(disk, name, maxsize) : Command(d)
  /\ strained' = (strained \/ (disk' # disk /\ ~Room(disk, (maxsize + 1) \div 2)))
  /\ written' = IF disk' = disk THEN written ELSE Noted(written, name, <<>>)

WriteFile(name, data) ==
  /\ Command(write(disk, name, data))
  /\ written' = IF disk' = disk THEN written ELSE Noted(written, name, data)
  /\ UNCHANGED strained

DeleteFile(name) ==
  /\ Command(delete(disk, name))
  /\ written' = Restrict(written, DOMAIN written \ {name})
  /\ UNCHANGED strained

ImageNext ==
  \/ PackKernel \/ Initialize \/ Format
  \/ \E name \in Files :
       \/ \E maxsize \in MaxSizes : CreateFile(name, maxsize)
       \/ \E data \in Contents : WriteFile(name, data)
       \/ DeleteFile(name)

ImageSpec == ImageInit /\ [][ImageNext]_imageVars
-----------------------------------------------------------------------------
(* Properties                                                              *)

LastBlock == Cardinality(DOMAIN disk.blocks) - 1
OnDisk(D) == {D[i] : i \in list(D)}

ImageTypeOK ==
  /\ disk.tag \in {"none", "BMFS"} /\ DOMAIN disk.blocks = 0..LastBlock
  /\ \A e \in OnDisk(disk.Directory) : e.FileName \in Files

\* As long as every file was created where there was room, the files lie apart,
\* between the system and the last block, and each is read as it was last written:
\* whatever is created, grown, deleted and created again in the gaps.
FilesKept ==
  LET D == disk.Directory
  IN  ~strained =>
        /\ {e.FileName : e \in OnDisk(D)} = DOMAIN written
        /\ \A i \in list(D) :
             /\ D[i].StartingBlock >= 1 /\ FileEnd(D[i]) <= LastBlock
             /\ read(disk, D[i].FileName) = written[D[i].FileName]
             /\ \A j \in list(D) \ {i} :
                  FileEnd(D[i]) <= D[j].StartingBlock \/ FileEnd(D[j]) <= D[i].StartingBlock

\* Nor is a file refused for which there is room.
RoomIsFound ==
  ~strained /\ disk.tag = "BMFS" =>
    \A name \in Files \ DOMAIN written : \A maxsize \in MaxSizes :
      Room(disk, (maxsize + 1) \div 2) => disk \notin create(disk, name, maxsize)

\* The invariant of the disk.
ImageInv == ImageTypeOK /\ FilesKept /\ RoomIsFound

\* Whatever has been done to the files and whatever is in memory, a disk that boots
\* brings every module to its address as it was packed, and leaves the kernel its code
\* and a clear bss, which lies over the modules where they were loaded; if the image
\* fits in what is loaded.
ModulesArrive ==
  Bootable(disk) /\ Len(PURE64) + Len(buildImage(Kernel, diskFrom)) <= LOADED =>
    \A memory \in Memories :
      LET mem == initializeKernelBinary(Payload(disk, memory))
      IN  /\ \A i \in DOMAIN diskFrom : \A k \in DOMAIN diskFrom[i] :
               mem[moduleAddresses[i] + k - 1] = diskFrom[i][k]
          /\ \A a \in DOMAIN Kernel : mem[a - 1] = Kernel[a]
          /\ \A a \in bss..(endOfKernel - 1) : mem[a] = 0
=============================================================================
