----------------------------- MODULE MCFileSystems -----------------------------
(***************************************************************************)
(* Small volumes made the way the tools that format cards make them: FAT16 *)
(* with a root directory of two clusters, a directory of two scattered     *)
(* clusters, files of four scattered clusters, of two whole ones and of    *)
(* none; FAT32 with a root directory in a chain; FAT12 with one file of    *)
(* one cluster; ext2 of two groups with a file that reaches a triply       *)
(* indirect block; ext2 without type flags.  A sector has 4 bytes, a block *)
(* two sectors and two block numbers.                                      *)
(***************************************************************************)
EXTENDS FileSystems, TLC

MCLower == [c \in {"A", "B", "D", "E", "X"} |->
              CASE c = "A" -> "a" [] c = "B" -> "b" [] c = "D" -> "d" [] c = "E" -> "e"
                [] c = "X" -> "x"]

NoBs == [bootjmp |-> "none"]
NoSb == [magic |-> "none"]
NoMap == [x \in {} |-> 0]

Blank == [part_id |-> 0, reliable |-> TRUE, sectors |-> 0, truth |-> {}, root |-> {}, bs |-> NoBs,
          sb |-> NoSb, table |-> NoMap, dir |-> NoMap, bgdt |-> <<>>, inodes |-> NoMap, ind |-> NoMap]

\* A file or directory of a volume.
\* The part is that of its directory which lists it.
Holds(path, dir, size, blocks, at, part) ==
  [path |-> path, dir |-> dir, size |-> size, blocks |-> blocks, at |-> at, part |-> part]
RootAt(at, blocks) == Holds(<<>>, TRUE, 0, blocks, at, 0)

(***************************************************************************)
(* FAT.                                                                    *)
(***************************************************************************)
File(raw, cluster, size) ==
  [raw |-> raw, label |-> FALSE, is_dir |-> FALSE, cluster |-> cluster, size |-> size]
Dir(raw, cluster) == [File(raw, cluster, 0) EXCEPT !.is_dir = TRUE]
Label(raw) == [File(raw, 0, 0) EXCEPT !.label = TRUE]
Unused == File(<<"0", "0", "0">>, 0, 0)
Deleted == File(<<"deleted", "D", "B">>, 6, 5)
AB == <<"A", " ", "B">>
D == <<"D", " ", " ">>
E == <<"E", " ", " ">>
X == <<"X", "X", " ">>

\* The links of the chains, with the last cluster of each marked by last.
Links(chains, last, tag) ==
  [c \in UNION {{s[i] : i \in DOMAIN s} : s \in chains} |->
     LET s == CHOOSE s \in chains : \E i \in DOMAIN s : s[i] = c
         i == CHOOSE i \in DOMAIN s : s[i] = c
     IN tag + IF i = Len(s) THEN last ELSE s[i + 1]]

\* The sectors of a chain, the data area beginning at first.
At(first, s) == [i \in DOMAIN s |-> first + 2 * (s[i] - 2)]

\* 5000 clusters: 2501 sectors of table, twice; the data behind a root directory
\* of 8 entries.
Fat16 ==
  LET data == 5007 IN
  [Blank EXCEPT
    !.part_id = 6, !.sectors = data + 10000,
    !.bs = [bootjmp |-> "eb", reserved_sector_count |-> 1, table_count |-> 2,
            table_size_16 |-> 2501, table_size_32 |-> 0, total_sectors_16 |-> data + 10000,
            total_sectors_32 |-> 0, root_entry_count |-> 8, root_cluster |-> 0],
    !.table = Links({<<4, 3, 7, 13>>, <<5, 8>>, <<9>>, <<10>>, <<11, 12>>}, 65535, 0),
    !.dir =
      (5003 :> <<Label(<<"D", "A", "B">>), File(AB, 4, 29)>> @@ 5004 :> <<Deleted, Dir(D, 5)>> @@
       5005 :> <<Label(E), File(E, 0, 0)>> @@ 5006 :> <<Unused, File(X, 11, 16)>> @@
       (data + 6) :> <<Dir(<<".", " ", " ">>, 5), Dir(<<".", ".", " ">>, 0)>> @@
       (data + 7) :> <<File(AB, 9, 5), Deleted>> @@
       (data + 12) :> <<Unused, File(E, 10, 8)>>),
    !.root = RootAt(<<2, 3>>, <<>>),
    !.truth =
      {Holds(<<<<"a", ".", "b">>>>, FALSE, 29, At(data, <<4, 3, 7, 13>>), <<4, 3, 7, 13>>, 1),
       Holds(<<<<"d">>>>, TRUE, 0, <<>>, <<5, 8>>, 1),
       Holds(<<<<"e">>>>, FALSE, 0, <<>>, <<>>, 2),
       Holds(<<<<"x", "x">>>>, FALSE, 16, At(data, <<11, 12>>), <<11, 12>>, 2),
       Holds(<<<<"d">>, <<"a", ".", "b">>>>, FALSE, 5, At(data, <<9>>), <<9>>, 1),
       Holds(<<<<"d">>, <<"e">>>>, FALSE, 8, At(data, <<10>>), <<10>>, 2)}]

\* 70000 clusters; the upper four bits of the table's entries are in use.
Fat32 ==
  LET data == 140006 IN
  [Blank EXCEPT
    !.part_id = 12, !.sectors = data + 140000,
    !.bs = [bootjmp |-> "eb", reserved_sector_count |-> 2, table_count |-> 2,
            table_size_16 |-> 0, table_size_32 |-> 70002, total_sectors_16 |-> 0,
            total_sectors_32 |-> data + 140000, root_entry_count |-> 0, root_cluster |-> 3],
    !.table = Links({<<3, 2>>, <<8, 6>>, <<4>>, <<5>>}, 268435455, 268435456),
    !.dir =
      ((data + 2) :> <<Label(D), File(AB, 8, 13)>> @@ data :> <<Dir(D, 4), Unused>> @@
       (data + 4) :> <<Dir(<<".", " ", " ">>, 4), Dir(<<".", ".", " ">>, 0)>> @@
       (data + 5) :> <<File(AB, 5, 8)>>),
    !.root = RootAt(<<3, 2>>, <<>>),
    !.truth =
      {Holds(<<<<"a", ".", "b">>>>, FALSE, 13, At(data, <<8, 6>>), <<8, 6>>, 1),
       Holds(<<<<"d">>>>, TRUE, 0, <<>>, <<4>>, 2),
       Holds(<<<<"d">>, <<"a", ".", "b">>>>, FALSE, 8, At(data, <<5>>), <<5>>, 1)}]

Fat12 ==
  [Blank EXCEPT
    !.part_id = 1, !.sectors = 1007,
    !.bs = [bootjmp |-> "eb", reserved_sector_count |-> 1, table_count |-> 2,
            table_size_16 |-> 188, table_size_32 |-> 0, total_sectors_16 |-> 1007,
            total_sectors_32 |-> 0, root_entry_count |-> 4, root_cluster |-> 0],
    !.dir = (377 :> <<File(AB, 3, 8)>>),
    !.root = RootAt(<<2>>, <<>>),
    !.truth = {Holds(<<<<"a", ".", "b">>>>, FALSE, 8, At(379, <<3>>), <<3>>, 1)}]

(***************************************************************************)
(* ext2.                                                                   *)
(***************************************************************************)
Entry2(inode, size, name, directory) ==
  [inode |-> inode, size |-> size, name |-> name, directory |-> directory]
Dots(i, up) == (0 :> Entry2(i, 2, <<".">>, TRUE)) @@ (2 :> Entry2(up, 2, <<".", ".">>, TRUE))

MCInode(directory, size, db, sibp, dibp, tibp) ==
  [directory |-> directory, symlink |-> FALSE, size |-> size,
   db |-> [i \in 1 .. Direct |-> IF i <= Len(db) THEN db[i] ELSE 0],
   sibp |-> sibp, dibp |-> dibp, tibp |-> tibp]
Small(size, db) == MCInode(FALSE, size, db, 0, 0, 0)
Sector2(s) == [i \in DOMAIN s |-> 2 * s[i]]

\* 26 blocks, out of order: with three direct, two and four behind a singly and a
\* doubly indirect one, and eight behind a triply indirect one.
BigDb == <<40, 38, 39, 20, 21, 22, 23, 24, 25, 26, 27, 28>>
BigInd ==
  29 :> <<31, 30>> @@ 41 :> <<42, 43>> @@ 42 :> <<45, 44>> @@ 43 :> <<46, 47>> @@
  48 :> <<49, 50>> @@ 49 :> <<51, 52>> @@ 50 :> <<53, 54>> @@
  51 :> <<13, 14>> @@ 52 :> <<15, 16>> @@ 53 :> <<17, 18>> @@ 54 :> <<19, 32>>
BigBlocks == BigDb \o <<31, 30, 45, 44, 46, 47, 13, 14, 15, 16, 17, 18, 19, 32>>

Super == [magic |-> "ef53", total_inodes |-> 8, inodes_per_group |-> 4, total_blocks |-> 60,
          blocks_per_group |-> 32, major_version |-> 1, inode_size |-> 4,
          required_flags_2 |-> TRUE]

\* With a large file of the given size.
Ext2Of(large) ==
  [Blank EXCEPT
    !.part_id = 131, !.sectors = 120, !.sb = Super, !.bgdt = <<3, 35>>,
    !.inodes =
      (<<3, 1>> :> MCInode(TRUE, 16, <<11, 10>>, 0, 0, 0) @@
       <<35, 0>> :> MCInode(FALSE, large, BigDb, 29, 41, 48) @@
       <<35, 1>> :> MCInode(TRUE, 8, <<12>>, 0, 0, 0) @@
       <<36, 0>> :> Small(0, <<>>) @@ <<36, 1>> :> Small(8, <<37>>)),
    !.ind = BigInd,
    !.dir =
      (11 :> (Dots(2, 2) @@ 4 :> Entry2(3, 2, <<"lost+found">>, TRUE)
                         @@ 6 :> Entry2(5, 2, <<"a", ".", "b">>, FALSE)) @@
       10 :> (0 :> Entry2(0, 2, <<"x", "x">>, FALSE) @@ 2 :> Entry2(6, 2, <<"d">>, TRUE)
                         @@ 4 :> Entry2(7, 4, <<"e">>, FALSE)) @@
       12 :> (Dots(6, 2) @@ 4 :> Entry2(8, 4, <<"a", ".", "b">>, FALSE))),
    !.root = RootAt(<<2>>, <<22, 20>>),
    !.truth =
      {Holds(<<<<"a", ".", "b">>>>, FALSE, large, Sector2(BigBlocks), <<5>>, 1),
       Holds(<<<<"d">>>>, TRUE, 8, <<24>>, <<6>>, 2),
       Holds(<<<<"e">>>>, FALSE, 0, <<>>, <<7>>, 2),
       Holds(<<<<"d">>, <<"a", ".", "b">>>>, FALSE, 8, <<74>>, <<8>>, 1)}]

Ext2Volume == Ext2Of(205)

\* A root directory with two files, and nothing that says what is a directory.
Plain ==
  [Ext2Volume EXCEPT
    !.sb.required_flags_2 = FALSE,
    !.dir = (11 :> (Dots(2, 2) @@ 4 :> Entry2(8, 4, <<"a", ".", "b">>, FALSE)) @@
             10 :> (0 :> Entry2(7, 8, <<"e">>, FALSE))),
    !.truth = {Holds(<<<<"a", ".", "b">>>>, FALSE, 8, <<74>>, <<8>>, 1),
               Holds(<<<<"e">>>>, FALSE, 0, <<>>, <<7>>, 2)}]

Wrong == [Fat12 EXCEPT !.part_id = 131]
Unknown == [Fat12 EXCEPT !.part_id = 130]
NotFat == [Plain EXCEPT !.part_id = 6]

Kinds == "fat16" :> Fat16 @@ "fat32" :> Fat32 @@ "fat12" :> Fat12 @@ "ext2" :> Ext2Volume @@
         "plain" :> Plain @@ "wrong" :> Wrong @@ "unknown" :> Unknown @@
         "not_fat" :> NotFat

\* Each on a reliable device, and on one that fails reads.
Both(kinds) ==
  [n \in (DOMAIN kinds) \X BOOLEAN |-> [kinds[n[1]] EXCEPT !.reliable = n[2]]]

\* Every failed read of a block of numbers is one more way to go on with a read,
\* so the large file ends behind the doubly indirect block where reads may fail.
Failing ==
  [Both(Kinds) EXCEPT ![<<"ext2", FALSE>>] = [Ext2Of(141) EXCEPT !.reliable = FALSE]]

\* A card so large that it has a sector where the table's entry of the number for a
\* failed read would be, with the number of another file's cluster in it.
LargeCard(v, stray) ==
  [v EXCEPT !.sectors = 300000000, !.table = @ @@ Bad :> stray]

MCVolumes ==
  [Failing EXCEPT ![<<"fat16", FALSE>>] = LargeCard(@, 11),
                  ![<<"fat32", FALSE>>] = LargeCard(@, 5)]

MCPaths == {<<>>, <<<<"d">>>>, <<<<"a", ".", "b">>>>, <<<<"e">>>>, <<<<"x", "x">>>>,
            <<<<"d">>, <<"a", ".", "b">>>>, <<<<"d">>, <<"e">>>>, <<<<"e">>, <<"e">>>>}
================================================================================
