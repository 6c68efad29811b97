------------------------------- MODULE MCMemory -------------------------------
(***************************************************************************)
(* Instances of Memory for TLC: 14 addresses, pages of 2, the first "MiB"  *)
(* ends at 6.                                                              *)
(***************************************************************************)
EXTENDS Memory

\* From 0, from within the first MiB, below it altogether, and up to the last
\* address, next to the first.
MCRegions ==
  {[start |-> 0, length |-> 11], [start |-> 3, length |-> 8],
   [start |-> 0, length |-> 5], [start |-> 11, length |-> 3]}

===============================================================================
