-------------------------------- MODULE Volume --------------------------------
(***************************************************************************)
(* What the file systems of fat.c and ext2.c have in common: a volume on a *)
(* device that may fail reads, the walk of fopen and opendir (vfs.c) down  *)
(* the directories of a path, and an open file with its stream.            *)
(*                                                                         *)
(* A byte of the volume is named by its address: what a read delivers      *)
(* tells where it was taken from.  Names are sequences of characters.      *)
(***************************************************************************)
EXTENDS FileStream

CONSTANTS
  SectorSize,  \* bytes of a sector
  Volumes,     \* the volumes the device may hold, by name: what is on each, how many
               \* sectors it has, and whether it is reliable or may fail any read
  NoBlock,     \* 0xffffffff
  Paths,       \* what fopen and opendir are asked for: sequences of names
  UsedModes, Counts, Sizes, Offsets,  \* what fopen, fread and fseek are given
  MaxCalls     \* bound: calls made

Names == UNION {{path[i] : i \in DOMAIN path} : path \in Paths}

ASSUME VolumeAssumption ==
  /\ SectorSize \in Nat \ {0} /\ BlockSize % SectorSize = 0
  /\ NoBlock \notin Nat /\ MaxCalls \in Nat
  /\ Sizes \subseteq Nat \ {0} /\ Counts \subseteq Nat /\ Offsets \subseteq Int
  /\ Paths \subseteq Seq(Names)

VARIABLES
  disk,    \* the name of the volume on the device
  fs,      \* the mounted file system, NoFs, or Unmounted
  walk,    \* the directory being read, and what is still to be found
  file,    \* opaque of the open file: its first cluster or its inode
  ffbo,    \* fat_file_block_offset: how far a file's chain has been followed; lost is
           \* history: whether the number of a failed read of the table was followed
  eof,     \* VFS_FLAGS_EOF of the stream
  wild,    \* memory has been read that holds nothing: a null inode, a freed entry
  opened,  \* history: the path of the open file
  calls    \* the number of calls made

vars == <<stream, call, pass, disk, fs, walk, file, ffbo, eof, wild, opened, calls>>

vol == Volumes[disk]

Unmounted == [type |-> "unmounted"]
NoFs == [type |-> "none"]

\* fs->block_size in sectors of the device.
BlockSectors == BlockSize \div SectorSize

(***************************************************************************)
(* Reading the device.  ReadFails is what block_read's callers may find at *)
(* any time, and always behind the end of the device.                      *)
(***************************************************************************)
OnDevice(sector, n) == sector + n <= vol.sectors

ReadOK(sector, n) == OnDevice(sector, n)
ReadFails(sector, n) == ~vol.reliable \/ ~OnDevice(sector, n)

\* What a read of a block of the file system answers.
BlockReads(sector) ==
  {[ret |-> BlockSize, data |-> [i \in 0 .. BlockSize - 1 |-> sector * SectorSize + i]] :
     x \in IF ReadOK(sector, BlockSectors) THEN {1} ELSE {}}
    \cup
  {[ret |-> -1, data |-> [i \in 0 .. BlockSize - 1 |-> -1]] :
     x \in IF ReadFails(sector, BlockSectors) THEN {1} ELSE {}}

(***************************************************************************)
(* The walk: read_directory of vfs.c and the loops of fat_read_directory   *)
(* and ext2_read_directory, which are the same.                            *)
(***************************************************************************)
Root == [name |-> <<>>, is_dir |-> TRUE, opaque |-> 0, byte_size |-> 0]

\* phase: "open" before a directory is read, "read" while it is, "done" after.
\* freed: behind the entries of the list is one that was freed.
NoWalk == [phase |-> "none", todo |-> <<>>, name |-> <<>>, dir |-> Root, list |-> <<>>,
           freed |-> FALSE, at |-> 0, idx |-> 0, mode |-> "r", path |-> <<>>]

Running(op) == call.busy /\ call.op = op

Begins ==
  /\ fs.type \in {"fat", "ext2"} /\ ~call.busy /\ ~wild
  /\ calls < MaxCalls /\ calls' = calls + 1

BeginWalk(op, path, name, mode) ==
  /\ Begins
  /\ call' = NewCall(op, 0, 1, 0)
  /\ walk' = [NoWalk EXCEPT !.phase = "open", !.todo = path, !.name = name, !.mode = mode,
                          !.path = IF op = "fopen" THEN Append(path, name) ELSE path]

\* fopen trims the last name off the path; an empty path asks for the device as
\* a file, which neither file system supports.
Fopen(path, mode) ==
  /\ ~stream.open /\ path # <<>>
  /\ BeginWalk("fopen", SubSeq(path, 1, Len(path) - 1), path[Len(path)], mode)
  /\ UNCHANGED <<stream, pass, disk, fs, file, ffbo, eof, wild, opened>>

Opendir(path) ==
  /\ BeginWalk("opendir", path, <<>>, "r")
  /\ UNCHANGED <<stream, pass, disk, fs, file, ffbo, eof, wild, opened>>

\* Mutant: an empty directory is read again.
DirectoryReadAgain(list) ==
  walk' = [walk EXCEPT !.phase = IF list = <<>> THEN "open" ELSE "done", !.list = list]

\* The directory has been read: a failure leaves an empty list.
DirectoryRead(list) == walk' = [walk EXCEPT !.phase = "done", !.list = list]

Named(name) == {i \in DOMAIN walk.list : walk.list[i].name = name}
FirstNamed(name) == CHOOSE i \in Named(name) : \A j \in Named(name) : i <= j

\* The loop over the list comes to the entry that was freed when no other has the name.
PassesFreed(name) == walk.freed /\ Named(name) = {}

WalkEnds == call' = [call EXCEPT !.busy = FALSE]

\* A name that is not there, or not a directory, ends the walk without a result.
WalkFails ==
  /\ WalkEnds
  /\ walk' = [walk EXCEPT !.phase = "none", !.list = <<>>, !.freed = FALSE]

Descend ==
  LET d == walk.list[FirstNamed(Head(walk.todo))] IN
  walk' = [walk EXCEPT !.phase = "open", !.todo = Tail(@), !.dir = d, !.list = <<>>,
                       !.freed = FALSE]

NextDirectory ==
  LET name == Head(walk.todo) IN
  /\ call.busy /\ walk.phase = "done" /\ walk.todo # <<>>
  /\ \/ PassesFreed(name) /\ wild' = TRUE /\ WalkFails
     \/ /\ ~PassesFreed(name) /\ Named(name) = {}
        /\ WalkFails /\ UNCHANGED wild
     \/ /\ ~PassesFreed(name) /\ Named(name) # {}
        /\ IF walk.list[FirstNamed(name)].is_dir THEN Descend /\ UNCHANGED call
                                                 ELSE WalkFails
        /\ UNCHANGED wild
  /\ UNCHANGED <<stream, pass, disk, fs, file, ffbo, eof, opened, calls>>

\* opendir returns the list as it is.
OpendirReturns ==
  /\ Running("opendir") /\ walk.phase = "done" /\ walk.todo = <<>>
  /\ WalkEnds
  /\ walk' = [walk EXCEPT !.phase = "none"]
  /\ UNCHANGED <<stream, pass, disk, fs, file, ffbo, eof, wild, opened, calls>>

NotFound ==
  /\ Running("fopen") /\ walk.phase = "done" /\ walk.todo = <<>>
  /\ PassesFreed(walk.name) \/ Named(walk.name) = {}
  /\ wild' = PassesFreed(walk.name)
  /\ WalkFails
  /\ UNCHANGED <<stream, pass, disk, fs, file, ffbo, eof, opened, calls>>

\* fopen has found the entry: what fopen of either file system begins with. Only
\* the mode "r" is accepted.
Finds(type) ==
  /\ Running("fopen") /\ walk.phase = "done" /\ walk.todo = <<>> /\ fs.type = type
  /\ ~PassesFreed(walk.name) /\ Named(walk.name) # {}

Entry == walk.list[FirstNamed(walk.name)]

OpenEntry(len) ==
  /\ stream' = Opened(walk.mode, 0, len)
  /\ file' = Entry.opaque /\ eof' = FALSE /\ opened' = walk.path
  /\ WalkFails

(***************************************************************************)
(* Reading an open file.                                                   *)
(***************************************************************************)
Fread(size, nmemb) ==
  /\ Begins /\ BeginFread(size, nmemb)
  /\ ffbo' = [f_block |-> 0, cluster |-> file, lost |-> FALSE]
  /\ UNCHANGED <<stream, disk, fs, walk, file, eof, wild, opened>>

\* One pass of fs_fread over the block at the given sector.
ReadBlockAt(sector) ==
  IF sector = NoBlock THEN NoMoreBlocks /\ UNCHANGED stream
  ELSE \E r \in BlockReads(sector) : FreadPass(r)

FreadReturns ==
  /\ Running("fread") /\ pass.over
  /\ call' = Result
  /\ UNCHANGED <<stream, pass, disk, fs, walk, file, ffbo, eof, wild, opened, calls>>

Fseek(offset, whence) ==
  /\ stream.open /\ Begins
  /\ SeekTo(offset, whence, 0)
  /\ call' = [NewCall("fseek", 0, 1, 0) EXCEPT !.busy = FALSE]
  /\ UNCHANGED <<pass, disk, fs, walk, file, ffbo, eof, wild, opened>>

Fclose ==
  /\ stream.open /\ ~call.busy
  /\ stream' = Closed /\ call' = NoCall /\ pass' = NoPass /\ walk' = NoWalk
  /\ file' = 0 /\ eof' = FALSE /\ opened' = <<>>
  /\ UNCHANGED <<disk, fs, ffbo, wild, calls>>
================================================================================
