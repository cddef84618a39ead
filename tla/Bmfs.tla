-------------------------------- MODULE Bmfs --------------------------------
(***************************************************************************)
(* The file system utility that makes the disk of the system               *)
(* (Bootloader/BMFS/bmfs.c), as functions of a disk d: d.tag tells whether *)
(* it is there and formatted, d.Directory holds the entries, d.blocks the  *)
(* blocks of 2 MiB.  Block 0 has the boot record, the directory (kept      *)
(* apart here) and, as a sequence, the system behind them; a block of a    *)
(* file holds one value.  A run of the program is one step.                *)
(***************************************************************************)
EXTENDS Integers, Sequences, FiniteSets, FiniteSetsExt, Functions

CONSTANTS
  ENTRIES,  \* entries of the directory, 64
  SECTOR    \* cells of a boot record, which has 512 bytes

ASSUME BmfsAssumption == {ENTRIES, SECTOR} \subseteq Nat \ {0}

\* First characters that are no names: 0x00 and 0x01.
EndOfDirectory == "end"
Deleted        == "deleted"
Slots          == 0..(ENTRIES - 1)
Zeros          == <<>>

BMFSEntry(name, start, reserved, size) ==
  [FileName |-> name, StartingBlock |-> start, ReservedBlocks |-> reserved,
   FileSize |-> size]

EmptyDirectory == [i \in Slots |-> BMFSEntry(EndOfDirectory, 0, 0, 0)]
NoDisk         == [tag |-> "none", Directory |-> EmptyDirectory, blocks |-> <<>>]

FileEnd(e)      == e.StartingBlock + e.ReservedBlocks
FirstWith(D, s) == Min({i \in Slots : D[i].FileName \in s} \union {ENTRIES})

\* What list prints: the entries in front of the end that are not deleted.
list(D) ==
  {i \in 0..(FirstWith(D, {EndOfDirectory}) - 1) : D[i].FileName # Deleted}

\* The slots findfile can find: the first is taken, and create never makes another.
findfile(D, name) == {i \in list(D) : D[i].FileName = name}

format(d) == [d EXCEPT !.tag = "BMFS", !.Directory = EmptyDirectory]

minimumDiskSize == 3

\* A source file that cannot be opened.
Missing == <<>>

\* initialize with all its arguments: everything is checked and opened before the
\* disk is truncated; a boot record that is too short is noticed after that.
Refused(size, mbr, boot, kernel) ==
  size < minimumDiskSize \/ Missing \in {mbr, boot, kernel}

initialize(d, size, mbr, boot, kernel) ==
  LET blank == format([d EXCEPT !.blocks = [b \in 0..(size - 1) |-> Zeros]])
  IN  IF Refused(size, mbr, boot, kernel) THEN d
      ELSE IF Len(mbr) < SECTOR THEN blank
      ELSE [blank EXCEPT !.blocks[0] = SubSeq(mbr, 1, SECTOR) \o boot \o kernel]
-----------------------------------------------------------------------------
(* create                                                                  *)

\* Entries in front of the end.  Without an end they are taken for none.
num_used_entries(D) ==
  LET end == FirstWith(D, {EndOfDirectory}) IN IF end = ENTRIES THEN 0 ELSE end

first_free_entry(D) == FirstWith(D, {EndOfDirectory, Deleted})

\* Wrong on purpose: the end of a file is taken for the start of its last block.
LooseEnd(e) == FileEnd(e) - 1

prev_file_end(e) == FileEnd(e)

\* The orders in which qsort may leave the entries S.
Sorted(D, S) ==
  {f \in [1..Cardinality(S) -> S] :
     /\ IsInjective(f)
     /\ \A j, k \in DOMAIN f : j < k => D[f[j]].StartingBlock <= D[f[k]].StartingBlock}

\* The k-th place at which the search looks: from the end of one file to the start of the
\* next, which is the last block behind all files.
prev_end(D, files, k) == IF k = 1 THEN 1 ELSE prev_file_end(D[files[k - 1]])
this_file_start(D, files, last, k) ==
  IF k = Len(files) + 1 THEN last ELSE D[files[k]].StartingBlock

\* A difference is unsigned, so a file that starts before the one in front of it has
\* ended counts as room.
Fits(from, to, blocks) == to - from \notin 0..(blocks - 1)

Rooms(D, files, last, blocks) ==
  {k \in 1..(Len(files) + 1) :
     Fits(prev_end(D, files, k), this_file_start(D, files, last, k), blocks)}

\* The starts that the search may come to.  Between files, and behind the last one,
\* the first room is taken.  Without one the search goes on over the deleted entries,
\* in the order in which qsort leaves them, as if they were files in front of the
\* last block.
Starts(D, files, deleted, last, blocks) ==
  LET rooms == Rooms(D, files, last, blocks)
  IN  IF rooms # {} THEN {prev_end(D, files, Min(rooms))}
      ELSE {prev_file_end(D[i]) :
              i \in {j \in deleted : Fits(prev_file_end(D[j]), last, blocks)}}

new_file_start(D, last, blocks_requested) ==
  LET used    == 0..(num_used_entries(D) - 1)
      deleted == {i \in used : D[i].FileName = Deleted}
  IN  UNION {Starts(D, files, deleted, last, blocks_requested) :
               files \in Sorted(D, used \ deleted)}

\* The entry of the new file, and the end behind it when it took the end's place.
Entered(D, slot, entry) ==
  [i \in Slots |->
     CASE i = slot -> entry
       [] i = slot + 1 /\ slot = num_used_entries(D) -> [D[i] EXCEPT !.FileName = EndOfDirectory]
       [] OTHER -> D[i]]

\* The disks that may come of it: d itself when the file exists, when no entry is
\* free or when there is no room.
create(d, name, maxsize) ==
  LET D      == d.Directory
      blocks == (maxsize + 1) \div 2
      starts == new_file_start(D, Cardinality(DOMAIN d.blocks) - 1, blocks)
      slot   == first_free_entry(D)
  IN  IF findfile(D, name) # {} \/ slot = ENTRIES \/ starts = {} THEN {d}
      ELSE {[d EXCEPT !.Directory = Entered(D, slot, BMFSEntry(name, s, blocks, 0))]
              : s \in starts}
-----------------------------------------------------------------------------
\* The content of a file.
read(d, name) ==
  LET e == d.Directory[Min(findfile(d.Directory, name))]
  IN  [k \in 1..e.FileSize |-> d.blocks[e.StartingBlock + k - 1]]

\* A file behind the last block makes the disk longer, with zeros in between.
write(d, name, data) ==
  LET slots == findfile(d.Directory, name)
      slot  == Min(slots)
      e     == d.Directory[slot]
      place == e.StartingBlock..(e.StartingBlock + Len(data) - 1)
      upTo  == IF data = <<>> THEN {} ELSE 0..(e.StartingBlock + Len(data) - 1)
  IN  IF slots = {} \/ e.ReservedBlocks < Len(data) THEN d
      ELSE [d EXCEPT
              !.blocks = [b \in DOMAIN d.blocks \union upTo |->
                            CASE b \in place -> data[b - e.StartingBlock + 1]
                              [] b \in DOMAIN d.blocks \ place -> d.blocks[b]
                              [] OTHER -> Zeros],
              !.Directory[slot].FileSize = Len(data)]

delete(d, name) ==
  LET slots == findfile(d.Directory, name)
  IN  IF slots = {} THEN d ELSE [d EXCEPT !.Directory[Min(slots)].FileName = Deleted]
=============================================================================
