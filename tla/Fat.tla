---------------------------------- MODULE Fat ----------------------------------
(***************************************************************************)
(* fat.c: the geometry of a FAT volume, its cluster chains, its            *)
(* directories, and its files.                                             *)
(*                                                                         *)
(* A volume gives the fields of its boot sector (bs), the entries of its   *)
(* allocation table by their place in it (table), and the entries of the   *)
(* sectors that belong to directories (dir).                               *)
(***************************************************************************)
EXTENDS Volume
Seqs == INSTANCE SequencesExt

CONSTANTS
  EntrySize,  \* bytes of a directory entry: 32
  BaseLen,    \* characters of a name in front of its extension: 8
  Lower       \* the characters that are letters, each with its lower case

Bad == 268435447   \* 0x0ffffff7, also what a failed read of the table answers
Eoc == 268435448   \* 0x0ffffff8, and everything above ends a chain

(***************************************************************************)
(* fat_init.                                                               *)
(***************************************************************************)
TableSize(bs) == IF bs.table_size_16 = 0 THEN bs.table_size_32 ELSE bs.table_size_16
TotalSectors(bs) == IF bs.total_sectors_16 = 0 THEN bs.total_sectors_32 ELSE bs.total_sectors_16

RootDirSectors(bs) ==
  (bs.root_entry_count * EntrySize + SectorSize - 1) \div SectorSize

TotalClusters(bs) ==
  (TotalSectors(bs) - (bs.reserved_sector_count + bs.table_count * TableSize(bs)
                         + RootDirSectors(bs))) \div BlockSectors

FatType(bs) ==
  LET n == TotalClusters(bs) IN
  IF n < 4085 THEN "FAT12" ELSE IF n < 65525 THEN "FAT16" ELSE "FAT32"

FatGeometry(bs) ==
  LET size == IF FatType(bs) = "FAT32" THEN bs.table_size_32 ELSE bs.table_size_16
      first == bs.reserved_sector_count + bs.table_count * size IN
  [type |-> "fat", fat_type |-> FatType(bs),
   first_fat_sector |-> bs.reserved_sector_count,
   root_dir_sectors |-> RootDirSectors(bs),
   first_data_sector |-> first,
   first_non_root_sector |->
     IF FatType(bs) = "FAT32" THEN first ELSE first + RootDirSectors(bs),
   root_dir_cluster |-> IF FatType(bs) = "FAT32" THEN bs.root_cluster ELSE 2]

IsFat == vol.bs.bootjmp = "eb"

(***************************************************************************)
(* Clusters.                                                               *)
(***************************************************************************)
get_sector(cluster, first) == (first + (cluster - 2) * BlockSectors) % Word

Width == IF fs.fat_type = "FAT16" THEN 2 ELSE 4
FatSector(cluster) == fs.first_fat_sector + (cluster * Width) \div SectorSize
FatIndex(cluster) == (cluster * Width) % SectorSize

\* What stands at a place of the table, or behind it: the number that was put there.
Stored(sector, index) ==
  LET n == ((sector - vol.bs.reserved_sector_count) * SectorSize + index) \div Width IN
  IF n \in DOMAIN vol.table THEN vol.table[n] ELSE 0

Widened(next) ==
  IF fs.fat_type = "FAT32" THEN next % 268435456
  ELSE IF next >= 65527 THEN next + 268369920
  ELSE next

NextInTable(cluster) == Widened(Stored(FatSector(cluster), FatIndex(cluster)))

\* get_next_fat_entry: what it may answer. FAT12 is not supported.
NextClusters(cluster) ==
  IF fs.fat_type = "FAT12" THEN {0}
  ELSE {NextInTable(cluster) : x \in IF ReadOK(FatSector(cluster), 1) THEN {1} ELSE {}}
         \cup {Bad : x \in IF ReadFails(FatSector(cluster), 1) THEN {1} ELSE {}}

(***************************************************************************)
(* fat_read_dir.                                                           *)
(***************************************************************************)
\* A name is lower-cased, and gets its dot only with an extension.
FatName(raw) ==
  LET printed(c) == c # " "
      lower(s) == [i \in DOMAIN s |-> IF s[i] \in DOMAIN Lower THEN Lower[s[i]] ELSE s[i]]
      base == SelectSeq(SubSeq(raw, 1, BaseLen), printed)
      ext == SelectSeq(SubSeq(raw, BaseLen + 1, Len(raw)), printed)
  IN lower(base \o (IF ext = <<>> THEN <<>> ELSE <<".">> \o ext))

\* Mutant: a deleted entry is listed.
ListedIfNotFree(e) ==
  /\ e.raw[1] # "0"
  /\ ~(e.raw[1] = "." /\ e.raw[2] \in {" ", "."})
  /\ ~e.label

\* Free and deleted entries, the two dots, labels and long names are skipped; a
\* free entry does not end the directory.
Listed(e) ==
  /\ e.raw[1] \notin {"0", "deleted"}
  /\ ~(e.raw[1] = "." /\ (e.raw[2] = " " \/ (e.raw[2] = "." /\ e.raw[3] = " ")))
  /\ ~e.label

FatDirent(e) ==
  [name |-> FatName(e.raw), is_dir |-> e.is_dir, opaque |-> e.cluster, byte_size |-> e.size]

EntriesAt(sector) == IF sector \in DOMAIN vol.dir THEN vol.dir[sector] ELSE <<>>

DirentsAt(sector) ==
  LET entries == Seqs!FlattenSeq([i \in 1 .. BlockSectors |-> EntriesAt(sector + i - 1)])
      s == SelectSeq(entries, Listed)
  IN [i \in DOMAIN s |-> FatDirent(s[i])]

InRoot == walk.dir = Root

FatDirBegin ==
  /\ call.busy /\ walk.phase = "open" /\ fs.type = "fat"
  /\ walk' = [walk EXCEPT !.phase = "read", !.list = <<>>, !.idx = 0,
                          !.at = IF InRoot THEN fs.root_dir_cluster ELSE walk.dir.opaque]
  /\ UNCHANGED <<stream, call, pass, disk, fs, file, ffbo, eof, wild, opened, calls>>

\* The root directory of FAT12 and FAT16 is not a chain: a count of clusters.
NextDirClusters ==
  IF InRoot /\ fs.fat_type # "FAT32"
  THEN {IF walk.idx + 1 < fs.root_dir_sectors \div BlockSectors THEN walk.at + 1 ELSE Eoc}
  ELSE NextClusters(walk.at)

SectorInDir(cluster, in_root) ==
  get_sector(cluster, IF in_root THEN fs.first_data_sector ELSE fs.first_non_root_sector)

DirSector == SectorInDir(walk.at, InRoot)

\* One pass of the loop: a cluster, and the next one. The test of a bad cluster
\* at the end also ends the directory where the table could not be read.
FatDirStep ==
  /\ call.busy /\ walk.phase = "read" /\ fs.type = "fat"
  /\ \/ ReadFails(DirSector, BlockSectors) /\ DirectoryRead(<<>>)
     \/ /\ ReadOK(DirSector, BlockSectors)
        /\ \E next \in NextDirClusters :
             LET list == walk.list \o DirentsAt(DirSector) IN
             IF next < Bad
             THEN walk' = [walk EXCEPT !.list = list, !.at = next, !.idx = @ + 1]
             ELSE DirectoryRead(list)
  /\ UNCHANGED <<stream, call, pass, disk, fs, file, ffbo, eof, wild, opened, calls>>

(***************************************************************************)
(* fat_fopen and fat_fread.                                                *)
(***************************************************************************)
FatFopen ==
  /\ Finds("fat")
  /\ IF walk.mode = "r" THEN OpenEntry(Entry.byte_size)
                        ELSE WalkFails /\ UNCHANGED <<stream, file, eof, opened>>
  /\ UNCHANGED <<pass, disk, fs, ffbo, wild, calls>>

\* An empty file has no first cluster, and its reads answer -1.
FatFreadNothing ==
  /\ Running("fread") /\ ~pass.over /\ fs.type = "fat" /\ file = 0
  /\ pass' = [pass EXCEPT !.over = TRUE, !.total = -1]
  /\ UNCHANGED <<stream, call, disk, fs, walk, file, ffbo, eof, wild, opened, calls>>

FatReads == Running("fread") /\ ~pass.over /\ fs.type = "fat" /\ file # 0
Behind == ffbo.f_block # pass.cur /\ ffbo.cluster < Eoc

\* fat_get_next_bdev_block_num: one cluster further along the chain. The number that
\* stands for a failed read of the table is no end of it: it is looked up in turn, far
\* behind the table, where a large card has something else.
FatChainStep ==
  /\ FatReads /\ Behind
  /\ \E next \in NextClusters(ffbo.cluster) :
       ffbo' = [f_block |-> ffbo.f_block + 1, cluster |-> next,
                lost |-> ffbo.lost \/ next = Bad]
  /\ UNCHANGED <<stream, call, pass, disk, fs, walk, file, eof, wild, opened, calls>>

InChain == ffbo.cluster < Eoc

\* The chain is where it should be, or at its end, which is the end of the file.
FatFreadStep ==
  /\ FatReads /\ ~Behind
  /\ ReadBlockAt(IF InChain THEN get_sector(ffbo.cluster, fs.first_non_root_sector)
                            ELSE NoBlock)
  /\ eof' = (eof \/ ~InChain)
  /\ UNCHANGED <<call, disk, fs, walk, file, ffbo, wild, opened, calls>>

FatStep == FatDirBegin \/ FatDirStep \/ FatFopen \/ FatFreadNothing \/ FatChainStep \/ FatFreadStep
================================================================================
