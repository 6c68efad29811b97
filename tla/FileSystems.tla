------------------------------ MODULE FileSystems ------------------------------
(***************************************************************************)
(* A partition with a FAT or an ext2 file system, from register_fs of      *)
(* libfs.c to files that are opened, read and closed.                      *)
(*                                                                         *)
(* Every volume says under "truth", in terms of its maker and not of this  *)
(* code, which files it holds: path, directory or not, size, the first     *)
(* sector of each block, "at" its clusters in order or its inode, and the  *)
(* "part" of its directory, which cluster or block of it, that lists it.   *)
(* The root directory is apart.  The properties compare the two.           *)
(***************************************************************************)
EXTENDS Fat, Ext2

FatIds == {1, 4, 6, 11, 12, 14, 17, 20, 27, 28, 30}
Ext2Id == 131

\* fat_init: the volume is FAT when its first sector can be read and is a boot
\* sector.
FatInit ==
  \/ ReadFails(0, 1) /\ fs' = NoFs
  \/ /\ ReadOK(0, 1)
     /\ fs' = IF IsFat THEN FatGeometry(vol.bs) ELSE NoFs

SuperSector == MinBlock \div SectorSize
BgdtSectors == RoundedUp(GroupsByInodes(vol.sb), DescriptorsPerBlock) * BlockSectors

\* ext2_init: whether the descriptors could be read is not looked at.
Ext2Init ==
  \/ ReadFails(SuperSector, SuperSector) /\ fs' = NoFs /\ UNCHANGED wild
  \/ /\ ReadOK(SuperSector, SuperSector)
     /\ IF ~IsExt2 THEN fs' = NoFs /\ UNCHANGED wild
        ELSE /\ fs' = Ext2Geometry(vol.sb)
             /\ \/ ReadOK(get_sector_num(BgdtBlock), BgdtSectors) /\ UNCHANGED wild
                \/ ReadFails(get_sector_num(BgdtBlock), BgdtSectors) /\ wild' = TRUE

\* register_fs, for the type of a partition: read_mbr passes over type 0, which tries
\* one after the other and is only asked for by ramdisk.c.
Mount ==
  /\ fs = Unmounted
  /\ \/ vol.part_id \in FatIds /\ FatInit /\ UNCHANGED wild
     \/ vol.part_id = Ext2Id /\ Ext2Init
     \/ vol.part_id \notin FatIds \cup {Ext2Id} /\ fs' = NoFs /\ UNCHANGED wild
  /\ UNCHANGED <<stream, call, pass, disk, walk, file, ffbo, eof, opened, calls>>

Init ==
  /\ disk \in DOMAIN Volumes /\ fs = Unmounted
  /\ stream = Closed /\ call = NoCall /\ pass = NoPass /\ walk = NoWalk
  /\ file = 0 /\ ffbo = [f_block |-> 0, cluster |-> 0, lost |-> FALSE]
  /\ eof = FALSE /\ wild = FALSE /\ opened = <<>> /\ calls = 0

Calls ==
  \/ \E path \in Paths, mode \in UsedModes : Fopen(path, mode)
  \/ \E path \in Paths : Opendir(path)
  \/ \E size \in Sizes, nmemb \in Counts : Fread(size, nmemb)
  \/ \E offset \in Offsets, whence \in {"SEEK_SET", "SEEK_END", "SEEK_CUR"} : Fseek(offset, whence)
  \/ Fclose

\* What the program does in a call, once it is made.
Steps == Mount \/ NextDirectory \/ OpendirReturns \/ NotFound \/ FreadReturns \/ FatStep \/ Ext2Step

\* All calls of the bound are made; or a read went wild.
Done == ~call.busy /\ fs # Unmounted /\ UNCHANGED vars

Next == Calls \/ Steps \/ Done

Spec == Init /\ [][Next]_vars

\* The loader is one thread: a call that can go on does.
FairSpec == Spec /\ WF_vars(Steps)

(***************************************************************************)
(* Properties.                                                             *)
(***************************************************************************)
True(path) == {t \in vol.truth : t.path = path}

\* Byte i of a file, by the volume's maker.
TrueByte(t, i) == t.blocks[(i \div BlockSize) + 1] * SectorSize + (i % BlockSize)

\* The chain of a FAT file was followed without a failed read of the table.
ChainKnown == fs.type = "fat" /\ ~ffbo.lost

\* fread on a reliable device delivers exactly the asked bytes of the file from
\* the position on, over every boundary of clusters, of indirect blocks and of the
\* file. On one that fails reads, FAT delivers bytes of the file too, except for the
\* segment whose read failed, which is counted whole and holds whatever the memory
\* did (libfs.c:234-253); nothing is claimed once a read of the table has failed,
\* since the code then follows the number that stands for it (fat.c:416). An empty
\* file of FAT answers -1.
DeliversFile ==
  call.op = "fread" /\ ~call.busy /\ ~wild =>
    \A t \in True(opened) :
      LET right(i) == pass.buf[i] = TrueByte(t, call.start + i - 1) IN
      /\ vol.reliable /\ ~(fs.type = "fat" /\ file = 0) =>
           /\ call.total = call.bytes /\ stream.pos = call.start + call.bytes
           /\ Len(pass.buf) = call.bytes
           /\ \A i \in 1 .. call.bytes : right(i)
      /\ ChainKnown =>
           \A i \in DOMAIN pass.buf : right(i) \/ (pass.failed /\ pass.buf[i] = -1)

\* A file that fopen opened is the one the path leads to, whatever the device
\* fails to read on the way; on a reliable device every file is found, with its
\* size.
FindsFile ==
  /\ stream.open => \E t \in True(opened) : stream.len = t.size
  /\ vol.reliable /\ call.op = "fopen" /\ ~call.busy /\ walk.mode = "r" =>
       (stream.open <=> True(walk.path) # {})

\* What is in the directory of a path, by the volume's maker.
TrueIn(path) == {t \in vol.truth : t.path # <<>> /\ SubSeq(t.path, 1, Len(t.path) - 1) = path}

\* opendir of a directory on a reliable device lists every file and directory in
\* it once, each as what it is, and nothing else: no deleted entry, label, dot or
\* entry of another directory.
ListsDirectory ==
  vol.reliable /\ call.op = "opendir" /\ ~call.busy =>
    LET is_dir == walk.path = <<>> \/ \E t \in True(walk.path) : t.dir
        T == IF is_dir THEN TrueIn(walk.path) ELSE {}
    IN /\ Len(walk.list) = Cardinality(T) /\ ~walk.freed
       /\ \A t \in T : \E i \in DOMAIN walk.list :
            walk.list[i].name = t.path[Len(t.path)] /\ walk.list[i].is_dir = t.dir

\* A walk or a read over a reliable device touches no memory that holds nothing:
\* every inode it uses has been read, and no entry of a list has been freed. The
\* code breaks it in a directory whose last entry is a special one (ext2.c:558),
\* which no volume of the run has.
NeverWild == vol.reliable => ~wild

\* What a volume must be like for the theorems: the fields, tables and entries that
\* the code reads are those of the files its maker says it holds.
Directories == {vol.root} \cup {t \in vol.truth : t.dir}

Shown(t) ==
  [name |-> t.path[Len(t.path)], is_dir |-> t.dir,
   opaque |-> IF t.at = <<>> THEN 0 ELSE t.at[1],
   byte_size |-> IF fs.type = "fat" THEN t.size ELSE 0]

ShownOf(T) == {Shown(t) : t \in T}

\* The parts a directory is read in, and what each of them may give.
Parts(d) == 1 .. IF fs.type = "fat" THEN Len(d.at) ELSE Len(d.blocks)

BlocksIn(d, i) == BlocksOf(Inode(d.at[1]), i - 1)
EntriesIn(d, i, block) == EntriesOf(block, DirBytes(d.at[1], i - 1))

PartLists(d, i) ==
  IF fs.type = "fat" THEN {DirentsAt(SectorInDir(d.at[i], d = vol.root))}
                     ELSE {Dirents(EntriesIn(d, i, block)) : block \in BlocksIn(d, i)}

\* Paths name one file, and lead through directories.
PathsLead ==
  /\ vol.root.path = <<>> /\ vol.root.dir
  /\ \A t \in vol.truth :
       /\ t.path # <<>> /\ t.path \in Seq({t.path[i] : i \in DOMAIN t.path})
       /\ Shown(t) # Root /\ t.size \in 0 .. Word - 1
  /\ \A t, u \in vol.truth : t.path = u.path => t = u
  /\ \A t \in vol.truth : \A k \in 0 .. Len(t.path) - 1 :
       \E d \in Directories : d.path = SubSeq(t.path, 1, k)

\* A part of a directory lists its own files, each in one place.
PartsList ==
  \A d \in Directories :
    /\ \A t \in TrueIn(d.path) : t.part \in Parts(d)
    /\ \A i \in Parts(d) : \A list \in PartLists(d, i) :
         LET T == {t \in TrueIn(d.path) : t.part = i} IN
         /\ list \in Seq(ShownOf(T))
         /\ vol.reliable => /\ \A t \in T : \E m \in DOMAIN list : list[m] = Shown(t)
                            /\ \A m, n \in DOMAIN list : list[m] = list[n] => m = n

\* The clusters of a chain follow each other in the table.
Linked(chain) ==
  \A i \in 1 .. Len(chain) - 1 :
    fs.fat_type # "FAT12" /\ NextInTable(chain[i]) = chain[i + 1]

InArea(d) == d = vol.root /\ fs.fat_type # "FAT32"

\* The root directory is an area of its own, or a chain like any directory.
DirectoryInFat(d) ==
  /\ d.at \in Seq(0 .. Bad - 1) /\ d.at # <<>>
  /\ InArea(d) =>
       \A i \in 1 .. Len(d.at) :
         d.at[i] = i + 1 /\ (i < Len(d.at) <=> i < fs.root_dir_sectors \div BlockSectors)
  /\ ~InArea(d) => /\ Linked(d.at)
                   /\ fs.fat_type # "FAT12" /\ ~(NextInTable(d.at[Len(d.at)]) < Bad)
  /\ vol.reliable =>
       \A i \in 1 .. Len(d.at) :
         /\ OnDevice(SectorInDir(d.at[i], d = vol.root), BlockSectors)
         /\ ~InArea(d) => OnDevice(FatSector(d.at[i]), 1)

FileInFat(t) ==
  /\ t.at \in Seq(1 .. Bad - 1) /\ Linked(t.at)
  /\ t.size <= Len(t.at) * BlockSize /\ t.blocks \in Seq(Nat) /\ Len(t.blocks) = Len(t.at)
  /\ \A i \in 1 .. Len(t.at) :
       /\ t.blocks[i] = SectorInDir(t.at[i], FALSE)
       /\ vol.reliable => /\ OnDevice(t.blocks[i], BlockSectors)
                          /\ i < Len(t.at) => OnDevice(FatSector(t.at[i]), 1)

HeldByFat ==
  /\ vol.root.at[1] = fs.root_dir_cluster
  /\ \A d \in Directories : DirectoryInFat(d)
  /\ \A t \in vol.truth : IF t.dir THEN t.size = 0 ELSE FileInFat(t)
  /\ vol.table \in [DOMAIN vol.table -> Nat] /\ fs.first_non_root_sector \in Nat

\* No part of a directory ends in one of the special entries.
DirectoryInExt2(d) ==
  /\ InodeReadable(d.at[1])
  /\ \A i \in Parts(d) : \A block \in BlocksIn(d, i) :
       LET entries == EntriesIn(d, i, block) IN
       /\ BlockReadable(block)
       /\ \A n \in ReadsInodes(entries) : InodeReadable(n)
       /\ entries # <<>> => ~Special(entries[Len(entries)])

FileInExt2(t) ==
  /\ InodeReadable(t.at[1])
  /\ \A k \in 1 .. Len(t.blocks) : \A block \in BlocksOf(Inode(t.at[1]), k - 1) :
       get_sector_num(block) = t.blocks[k] /\ BlockReadable(block)

HeldByExt2 ==
  /\ \A t \in vol.truth \cup {vol.root} : Len(t.at) = 1 /\ t.blocks \in Seq(Nat)
  /\ vol.root.at[1] = 2
  /\ \A t \in vol.truth :
       /\ Inode(t.at[1]).size = t.size /\ t.size <= Len(t.blocks) * BlockSize
       /\ \A k \in 1 .. Len(t.blocks) : BlocksOf(Inode(t.at[1]), k - 1) \subseteq Nat
  /\ \A d \in Directories : DirBlocks(d.at[1]) = Len(d.blocks)
  /\ vol.reliable => /\ OnDevice(get_sector_num(BgdtBlock), BgdtSectors)
                     /\ \A d \in Directories : DirectoryInExt2(d)
                     /\ \A t \in vol.truth : FileInExt2(t)

Consistent ==
  /\ fs.type \in {"fat", "ext2"} => PathsLead /\ PartsList
  /\ fs.type = "fat" => HeldByFat
  /\ fs.type = "ext2" => HeldByExt2

\* The inductive invariant.  Nothing in it but the properties speaks of what the code
\* reads: it is in terms of the files that the volume holds.
Mounted == fs.type \in {"fat", "ext2"}

StreamTypes == [open : BOOLEAN, pos : Int, len : Int, mode : {"r"}]
CallTypes ==
  [op : {"none", "fopen", "opendir", "fread", "fseek"}, busy : BOOLEAN, start : Int,
   size : Nat \ {0}, bytes : Nat, len : Int, total : Int, ret : Int, failed : BOOLEAN]
PassTypes ==
  [cur : Nat, first : Nat, from : 0 .. BlockSize - 1, last : Nat, upto : 0 .. BlockSize - 1,
   buf : Seq(Int), total : Int, over : BOOLEAN, failed : BOOLEAN]

WalkTyped ==
  /\ walk = [x \in DOMAIN NoWalk |-> walk[x]] /\ walk.idx \in Nat /\ walk.freed \in BOOLEAN
  /\ walk.todo \in Seq(Names) /\ walk.path \in Seq(Names)

TypeOK ==
  /\ stream \in StreamTypes /\ call \in CallTypes /\ pass \in PassTypes /\ WalkTyped
  /\ ffbo.f_block \in Nat /\ wild \in BOOLEAN /\ calls \in Nat
  /\ fs.type \in {"unmounted", "none", "fat", "ext2"}
  /\ ~Mounted => ~stream.open /\ call.op = "none" /\ ~call.busy

\* The open file is one that the volume holds.
IsOpen(t) == t.path = opened /\ stream.len = t.size /\ file = Shown(t).opaque

Opens ==
  stream.open => /\ \E t \in vol.truth : IsOpen(t)
                 /\ stream.pos \in -1 .. stream.len /\ (vol.reliable => stream.pos >= 0)

\* A list has entries of the directory d; on a reliable device those of T.
Lists(list, d, T) ==
  /\ list \in Seq(ShownOf(TrueIn(d.path)))
  /\ vol.reliable =>
       /\ \A t \in TrueIn(d.path) : t \in T <=> \E m \in DOMAIN list : list[m] = Shown(t)
       /\ \A m, n \in DOMAIN list : list[m] = list[n] => m = n

Earlier(d, i) == {t \in TrueIn(d.path) : t.part <= i}

ReadsPart(d) ==
  IF fs.type = "fat" THEN walk.idx + 1 \in 1 .. Len(d.at) /\ walk.at = d.at[walk.idx + 1]
                     ELSE walk.idx \in 0 .. Len(d.blocks) /\ walk.at = d.at[1]

\* The names of directories of a path, and how many of them have been gone down.
DirNames == Len(walk.path) - IF call.op = "fopen" THEN 1 ELSE 0
Depth == DirNames - Len(walk.todo)

\* The walk is in the directory that the first names of the path lead to.
WalksIn(d) ==
  /\ d.path = SubSeq(walk.path, 1, Depth)
  /\ walk.dir = IF d = vol.root THEN Root ELSE Shown(d)
  /\ walk.phase = "read" => ReadsPart(d) /\ Lists(walk.list, d, Earlier(d, walk.idx))
  /\ walk.phase = "done" => Lists(walk.list, d, TrueIn(d.path))
  /\ vol.reliable => ~walk.freed

Walking == Running("fopen") \/ Running("opendir")

Walks ==
  /\ ~Walking => walk.phase = "none"
  /\ Walking =>
       /\ walk.phase \in {"open", "read", "done"}
       /\ Depth \in Nat /\ Depth <= DirNames /\ walk.todo = SubSeq(walk.path, Depth + 1, DirNames)
       /\ call.op = "fopen" => /\ ~stream.open /\ DirNames \in Nat
                               /\ walk.name = walk.path[Len(walk.path)]
       /\ \E d \in Directories : WalksIn(d)

\* fat_fread returns at once for an empty file.
NothingToRead == fs.type = "fat" /\ file = 0

\* The passes go over the range of the call; one that a failure has put before the
\* file has none, or one that moves nothing.
Passes ==
  /\ stream.open /\ call.start \in -1 .. stream.len
  /\ call.start + call.bytes <= stream.len /\ (vol.reliable => call.start >= 0)
  /\ ~NothingToRead => stream.pos = call.start + pass.total
  /\ call.start = -1 => pass.buf = <<>> /\ pass.total <= 0
  /\ ~pass.over =>
       /\ pass.cur \in pass.first .. pass.last /\ ~pass.failed
       /\ stream.pos = call.start + pass.total /\ Len(pass.buf) = pass.total
       /\ call.start = -1 => /\ pass.first = pass.last /\ pass.from = BlockSize - 1
                             /\ pass.total = 0
       /\ call.start >= 0 => /\ PassesFrom = call.start /\ PassesUpto = call.start + call.bytes
                             /\ pass.total = Reached - PassesFrom

Reads == Running("fread") => Passes

\* The chain has been followed to a cluster of the file, or a read of the table has
\* failed and it is lost.
Chained ==
  Running("fread") /\ fs.type = "fat" =>
    \A t \in vol.truth : IsOpen(t) /\ ~t.dir =>
      /\ ~pass.over => ffbo.f_block <= pass.cur
      /\ ffbo.f_block < Len(t.at) =>
           \/ ffbo.cluster = t.at[ffbo.f_block + 1]
           \/ ~vol.reliable /\ ffbo.lost /\ ffbo.cluster \in Nat

\* What has been counted is in the buffer.
Delivers ==
  Running("fread") => \A t \in True(opened) :
    LET right(i) == pass.buf[i] = TrueByte(t, call.start + i - 1) IN
    /\ ChainKnown =>
         \A i \in DOMAIN pass.buf : right(i) \/ (pass.failed /\ pass.buf[i] = -1)
    /\ vol.reliable /\ ~NothingToRead =>
         /\ Len(pass.buf) = pass.total /\ \A i \in 1 .. pass.total : right(i)
         /\ pass.over => pass.total = call.bytes

IInv ==
  /\ TypeOK /\ Opens /\ Walks /\ Reads /\ Chained /\ Delivers
  /\ NeverWild /\ FindsFile /\ ListsDirectory /\ DeliversFile

\* Every call returns, with any number of failed reads: no chain, directory or
\* range is followed for ever.
CallReturns == call.busy ~> ~call.busy
================================================================================
