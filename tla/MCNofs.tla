-------------------------------- MODULE MCNofs --------------------------------
(***************************************************************************)
(* Blocks of four bytes, the first holding a byte order mark of one byte   *)
(* and an end mark of two. The partition has the four blocks a file may    *)
(* have, and a block of another partition follows it.                      *)
(***************************************************************************)
EXTENDS Nofs

CONSTANTS byteA, byteB, old

Block(s) == [i \in 0 .. 3 |-> s[i + 1]]
Blank == [n \in 0 .. 4 |-> Block(<<old, old, old, old>>)]

\* Nothing yet, and a file of two bytes whose mark lies in two blocks.
MCDisks ==
  {Blank, [Blank EXCEPT ![0] = Block(<<Bom, byteB, byteB, Eof>>),
                        ![1] = Block(<<Tilde, old, old, old>>)]}

MCData == {byteA, byteB, old}
MCUsedModes == {"w", "a", "a+"}
MCPayloads == {<<byteA>>, <<byteB, byteA, byteB, byteA, byteB, byteB, byteA>>}
MCSizes == {1, 2}
MCCounts == {2, 5}
MCOffsets == {-1, 2}
MCWildPositions == {0, 9}
MCNoBlock == -1
MCMayFail == {"read", "write"}
================================================================================
