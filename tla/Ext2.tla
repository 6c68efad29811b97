--------------------------------- MODULE Ext2 ---------------------------------
(***************************************************************************)
(* ext2.c: the geometry of an ext2 volume, inodes and the blocks they      *)
(* lead to, directories, and files.                                        *)
(*                                                                         *)
(* A volume gives the fields of its superblock (sb), the first blocks of   *)
(* its inode tables (bgdt), the inodes by block and slot (inodes), the     *)
(* blocks of block numbers (ind), and the directory entries by block and   *)
(* offset (dir).                                                           *)
(***************************************************************************)
EXTENDS Volume

CONSTANTS
  MinBlock,   \* 1024
  Direct,     \* 12 block numbers are in the inode
  NumberSize, \* bytes of a block number: 4
  DescriptorsPerBlock  \* block group descriptors in a block

(***************************************************************************)
(* ext2_init.                                                              *)
(***************************************************************************)
RoundedUp(n, d) == n \div d + IF n % d = 0 THEN 0 ELSE 1

GroupsByInodes(sb) == RoundedUp(sb.total_inodes, sb.inodes_per_group)
GroupsByBlocks(sb) == RoundedUp(sb.total_blocks, sb.blocks_per_group)

IsExt2 == vol.sb.magic = "ef53" /\ GroupsByInodes(vol.sb) = GroupsByBlocks(vol.sb)

Ext2Geometry(sb) ==
  [type |-> "ext2",
   inodes_per_group |-> sb.inodes_per_group,
   inode_size |-> IF sb.major_version >= 1 THEN sb.inode_size ELSE 128,
   type_flags_used |-> sb.major_version >= 1 /\ sb.required_flags_2,
   total_groups |-> GroupsByInodes(sb)]

\* The descriptor table is in the block behind the superblock's.
BgdtBlock == IF BlockSize = MinBlock THEN 2 ELSE 1

(***************************************************************************)
(* Blocks and inodes.                                                      *)
(***************************************************************************)
get_sector_num(block) == ((block * BlockSize) % Word) \div SectorSize

BlockReadable(block) == ReadOK(get_sector_num(block), BlockSectors)
BlockFails(block) == ReadFails(get_sector_num(block), BlockSectors)

P == BlockSize \div NumberSize

\* Mutant: the two levels of a doubly indirect block are exchanged.
ShapeLevelsExchanged(index) ==
  LET i == index - Direct
      j == i - P
      k == j - P * P
  IN CASE index < Direct -> [root |-> "db", path |-> <<index>>]
       [] index >= Direct /\ i < P -> [root |-> "sibp", path |-> <<i>>]
       [] i >= P /\ j < P * P -> [root |-> "dibp", path |-> <<j % P, j \div P>>]
       [] OTHER ->
            [root |-> "tibp", path |-> <<k \div (P * P), (k % (P * P)) \div P, k % P>>]

\* get_block_no_from_inode: the pointer of the inode the index falls under, and
\* the places in the blocks on the way down from it.
Shape(index) ==
  LET i == index - Direct
      j == i - P
      k == j - P * P
  IN CASE index < Direct -> [root |-> "db", path |-> <<index>>]
       [] index >= Direct /\ i < P -> [root |-> "sibp", path |-> <<i>>]
       [] i >= P /\ j < P * P -> [root |-> "dibp", path |-> <<j \div P, j % P>>]
       [] j >= P * P /\ k < P * P * P ->
            [root |-> "tibp", path |-> <<k \div (P * P), (k % (P * P)) \div P, k % P>>]
       [] OTHER -> [root |-> "none", path |-> <<>>]

NumberAt(block, i) ==
  IF block \in DOMAIN vol.ind THEN vol.ind[block][i + 1] ELSE 0

\* Where the numbers lead from a block, and the blocks that are read on the way.
Follow(block, path) ==
  LET number[i \in Nat] == IF i = 0 THEN block ELSE NumberAt(number[i - 1], path[i])
  IN [block |-> number[Len(path)], through |-> {number[i] : i \in 0 .. Len(path) - 1}]

\* What it may answer: 0 when a block on the way cannot be read, or the index is
\* beyond the last. 0 is not an error to the callers, which read block 0.
BlocksOf(inode, index) ==
  LET s == Shape(index)
      f == Follow(inode[s.root], s.path)
  IN CASE s.root = "none" -> {0}
       [] s.root = "db" -> {inode.db[index + 1]}
       [] OTHER ->
            (IF \A b \in f.through : BlockReadable(b) THEN {f.block} ELSE {})
              \cup
            (IF \E b \in f.through : BlockFails(b) THEN {0} ELSE {})

\* Mutant: inodes count from 0.
InodePlaceFromZero(n) ==
  LET group == n \div fs.inodes_per_group
      offset == n % fs.inodes_per_group
      per_block == BlockSize \div fs.inode_size
  IN <<vol.bgdt[group + 1] + offset \div per_block, offset % per_block>>

\* ext2_read_inode: where the inode is. Inodes count from 1.
InodePlace(n) ==
  LET group == (n - 1) \div fs.inodes_per_group
      offset == (n - 1) % fs.inodes_per_group
      per_block == BlockSize \div fs.inode_size
  IN <<vol.bgdt[group + 1] + offset \div per_block, offset % per_block>>

EmptyInode == [directory |-> FALSE, symlink |-> FALSE, size |-> 0,
               db |-> [i \in 1 .. Direct |-> 0], sibp |-> 0, dibp |-> 0, tibp |-> 0]

Inode(n) ==
  IF InodePlace(n) \in DOMAIN vol.inodes THEN vol.inodes[InodePlace(n)] ELSE EmptyInode

InodeReadable(n) == BlockReadable(InodePlace(n)[1])
InodeFails(n) == BlockFails(InodePlace(n)[1])

\* No caller looks whether it was given an inode: a failed read leaves it null.
NullInode ==
  /\ wild' = TRUE
  /\ call' = [call EXCEPT !.busy = FALSE]
  /\ walk' = [walk EXCEPT !.phase = "none"]

(***************************************************************************)
(* ext2_read_dir.                                                          *)
(***************************************************************************)
InodeOfDir == IF walk.dir = Root THEN 2 ELSE walk.dir.opaque

Ext2DirBegin ==
  /\ call.busy /\ walk.phase = "open" /\ fs.type = "ext2"
  /\ \/ InodeFails(InodeOfDir) /\ NullInode
     \/ /\ InodeReadable(InodeOfDir)
        /\ walk' = [walk EXCEPT !.phase = "read", !.list = <<>>, !.freed = FALSE,
                                !.idx = 0, !.at = InodeOfDir]
        /\ UNCHANGED <<call, wild>>
  /\ UNCHANGED <<stream, pass, disk, fs, file, ffbo, eof, opened, calls>>

DirBlocks(n) == RoundedUp(Inode(n).size, BlockSize)
BlockRem(n) == Inode(n).size % BlockSize

\* Only a part of the last block may belong to the directory.
DirBytes(n, idx) ==
  IF idx = DirBlocks(n) - 1 /\ BlockRem(n) > 0 THEN BlockRem(n) ELSE BlockSize

NoEntry == [inode |-> 0, size |-> 0, name |-> <<>>, directory |-> FALSE]

\* The entries of a block, each leading to the next; one without a size ends it.
EntriesOf(block, bytes) ==
  LET e(ptr) == IF block \in DOMAIN vol.dir /\ ptr \in DOMAIN vol.dir[block]
                THEN vol.dir[block][ptr] ELSE NoEntry
      behind[ptr \in Nat] ==
        IF ptr >= bytes \/ e(ptr).size = 0 THEN <<>>
        ELSE (IF e(ptr).inode = 0 THEN <<>> ELSE <<e(ptr)>>) \o behind[ptr + e(ptr).size]
  IN behind[0]

Special(e) ==
  e.name \in {<<".">>, <<".", ".">>, <<"lost+found">>}

\* Whether an entry is a directory, without type flags from its inode: the bit
\* that is tested is not the directory's but one of symbolic links and devices.
IsDir(e) ==
  IF fs.type_flags_used THEN e.directory ELSE Inode(e.inode).symlink

Ext2Dirent(e) ==
  [name |-> e.name, is_dir |-> IsDir(e), opaque |-> e.inode, byte_size |-> 0]

\* What is linked into the list for the entries of a block.
Dirents(entries) ==
  LET ordinary(e) == ~Special(e)
      s == SelectSeq(entries, ordinary)
  IN [i \in DOMAIN s |-> Ext2Dirent(s[i])]

\* Mutant: an entry that was freed stays in the list.
FreedStays(entries) == walk.freed \/ \E i \in DOMAIN entries : Special(entries[i])

\* An entry is linked into the list before its name is looked at, and freed if it
\* is a special one. The next entry is given the same memory by malloc, and with
\* it the place in the list: only one that nothing follows stays, freed.
EndsFreed(entries) ==
  IF entries = <<>> THEN walk.freed ELSE Special(entries[Len(entries)])

\* Without type flags the inodes of the entries are read.
ReadsInodes(entries) ==
  {entries[i].inode : i \in {j \in DOMAIN entries : ~fs.type_flags_used /\ ~Special(entries[j])}}

Ext2DirStep ==
  /\ call.busy /\ walk.phase = "read" /\ fs.type = "ext2" /\ walk.idx < DirBlocks(walk.at)
  /\ \E block \in BlocksOf(Inode(walk.at), walk.idx) :
       LET entries == EntriesOf(block, DirBytes(walk.at, walk.idx)) IN
       \/ /\ \/ BlockFails(block)
             \/ \E n \in ReadsInodes(entries) : InodeFails(n)
          /\ NullInode
       \/ /\ BlockReadable(block)
          /\ \A n \in ReadsInodes(entries) : InodeReadable(n)
          /\ walk' = [walk EXCEPT !.list = @ \o Dirents(entries),
                                  !.freed = EndsFreed(entries), !.idx = @ + 1]
          /\ UNCHANGED <<call, wild>>
  /\ UNCHANGED <<stream, pass, disk, fs, file, ffbo, eof, opened, calls>>

Ext2DirEnds ==
  /\ call.busy /\ walk.phase = "read" /\ fs.type = "ext2" /\ walk.idx >= DirBlocks(walk.at)
  /\ DirectoryRead(walk.list)
  /\ UNCHANGED <<stream, call, pass, disk, fs, file, ffbo, eof, wild, opened, calls>>

(***************************************************************************)
(* ext2_fopen and ext2_fread.                                              *)
(***************************************************************************)
\* fopen frees the whole list, and what ext2_read_dir has freed a second time.
FreesAgain == walk.freed

Ext2Fopen ==
  /\ Finds("ext2")
  /\ \/ /\ walk.mode # "r"
        /\ WalkFails /\ UNCHANGED <<stream, file, eof, opened>> /\ wild' = FreesAgain
     \/ /\ walk.mode = "r" /\ InodeFails(Entry.opaque)
        /\ NullInode /\ UNCHANGED <<stream, file, eof, opened>>
     \/ /\ walk.mode = "r" /\ InodeReadable(Entry.opaque)
        /\ OpenEntry(Inode(Entry.opaque).size) /\ wild' = FreesAgain
  /\ UNCHANGED <<pass, disk, fs, ffbo, calls>>

Ext2Reads == Running("fread") /\ ~pass.over /\ fs.type = "ext2"

\* Every fread reads the inode again.
Ext2FreadNull ==
  /\ Ext2Reads /\ pass.cur = pass.first /\ InodeFails(file)
  /\ NullInode
  /\ UNCHANGED <<stream, pass, disk, fs, file, ffbo, eof, opened, calls>>

Ext2FreadStep ==
  /\ Ext2Reads /\ InodeReadable(file)
  /\ \E block \in BlocksOf(Inode(file), pass.cur) : ReadBlockAt(get_sector_num(block))
  /\ UNCHANGED <<call, disk, fs, walk, file, ffbo, eof, wild, opened, calls>>

Ext2Step == Ext2DirBegin \/ Ext2DirStep \/ Ext2DirEnds \/ Ext2Fopen \/ Ext2FreadNull \/ Ext2FreadStep
================================================================================
