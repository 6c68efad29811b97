--------------------------------- MODULE MCLog ---------------------------------
(***************************************************************************)
(* Two log files, buffers of three characters, of two and of none.         *)
(***************************************************************************)
EXTENDS Log

MCSizes == {0, 2}
================================================================================
