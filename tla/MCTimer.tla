-------------------------------- MODULE MCTimer --------------------------------
(***************************************************************************)
(* A clock of 12 values, waits of up to 5 ticks, of none and of less: they  *)
(* begin at every value of the clock, 0 too, and their sums wrap.          *)
(***************************************************************************)
EXTENDS Timer

MCSleeps == {-1, 0, 1, 2, 5}
================================================================================
