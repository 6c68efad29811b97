------------------------------ MODULE MCSdDriver ------------------------------
(***************************************************************************)
(* Instances of SdDriver for TLC.                                          *)
(***************************************************************************)
EXTENDS SdDriver

V1   == [v2 |-> FALSE, sdhc |-> FALSE, s18 |-> FALSE]
SDHC == [v2 |-> TRUE,  sdhc |-> TRUE,  s18 |-> FALSE]
UHS  == [v2 |-> TRUE,  sdhc |-> TRUE,  s18 |-> TRUE]

MCKinds == {V1, SDHC, UHS}

MCFaults == Faults

===============================================================================
