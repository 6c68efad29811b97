----------------------------- MODULE MCRaspbootin -----------------------------
(***************************************************************************)
(* A directory that fits the client's buffer of two words, and one that   *)
(* does not.                                                               *)
(***************************************************************************)
EXTENDS Raspbootin
================================================================================
