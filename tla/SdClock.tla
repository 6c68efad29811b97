------------------------------- MODULE SdClock --------------------------------
(***************************************************************************)
(* The clock of the SD controller (emmc.c): the divider that               *)
(* sd_get_clock_divider finds for a rate.  Rates are in units of 100 kHz.  *)
(***************************************************************************)
EXTENDS Naturals

SD_CLOCK_ID     == 4
SD_CLOCK_NORMAL == 250

\* What sd_card_init assumes when the mailbox does not tell the base clock.
AssumedClock == 1000

Pow2 == {2^b : b \in 0 .. 30}

\* A quotient with a remainder is decreased by one before it is rounded up to a
\* power of two.
TargettedDivisor(base, target) ==
  IF target > base THEN 1
  ELSE base \div target - IF base % target = 0 THEN 0 ELSE 1

\* Mutant: down to the power of two below.
RoundedDown(n) == IF n = 0 THEN 2^30 ELSE CHOOSE p \in Pow2 : p <= n /\ n < 2 * p

\* A divisor of 0 counts as 2^31; 2^30 will do, since both are cut off.
RoundedUp(n) == IF n = 0 THEN 2^30
                ELSE CHOOSE p \in Pow2 : n <= p /\ p < 2 * n

\* The ten bits of the register: half of the denominator, at most 0x3ff, and 0
\* for an undivided clock.  Their places in the register lose none of them.
Divisor(base, target) ==
  LET half == RoundedUp(TargettedDivisor(base, target)) \div 2
  IN IF half >= 1024 THEN 1023 ELSE half

\* What the controller makes of it.
Denominator(divisor) == IF divisor = 0 THEN 1 ELSE 2 * divisor
===============================================================================
