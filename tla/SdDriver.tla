------------------------------- MODULE SdDriver -------------------------------
(***************************************************************************)
(* The SD card driver (emmc.c): sd_card_init and its re-initialisations,   *)
(* sd_ensure_data_mode, sd_do_data_command with its retries, and the card  *)
(* and slot they talk to.  One action per command issued: between two      *)
(* commands the card may be taken out, put in or finish powering up, and   *)
(* any command may fail.                                                   *)
(*                                                                         *)
(* The card answers by the state diagram of the SD physical layer          *)
(* specification; a command its state does not admit gets no answer.       *)
(***************************************************************************)
EXTENDS Naturals, SdClock

CONSTANTS
  Kinds,    \* the kinds of card: records [v2, sdhc, s18]
  MayFail,  \* the commands whose transmission may fail (see Faults)
  BaseClock \* the rate of the clock that the controller divides

MaxRetries == 3  \* sd_do_data_command's max_retries

\* Application commands; ACMD41 is used in two ways.
ACommands == {"INQUIRY", "OP_COND", "SEND_SCR", "SET_BUS_WIDTH"}

Commands ==
  {"GO_IDLE_STATE", "SEND_IF_COND", "IO_SET_OP_COND", "VOLTAGE_SWITCH",
   "ALL_SEND_CID", "SEND_RELATIVE_ADDR", "SELECT_CARD", "SET_BLOCKLEN",
   "SEND_STATUS", "STOP_TRANSMISSION", "READ_SINGLE_BLOCK",
   "READ_MULTIPLE_BLOCK", "WRITE_BLOCK"} \cup ACommands

\* What may go wrong: any command, the reset of the controller, and the messages
\* to the firmware about the power of the card and the base clock.
Faults == Commands \cup {"RESET", "POWER", "BASE_CLOCK"}

DataCommands == {"READ_SINGLE_BLOCK", "READ_MULTIPLE_BLOCK", "WRITE_BLOCK"}

ASSUME ConstantsAssumption ==
  /\ Kinds # {}
  /\ Kinds \subseteq [v2 : BOOLEAN, sdhc : BOOLEAN, s18 : BOOLEAN]
  /\ \A k \in Kinds : k.sdhc \/ k.s18 => k.v2
  /\ MayFail \subseteq Faults
  /\ BaseClock \in Nat \ {0}

VARIABLES
  card,      \* [present, kind, state, width, poweringUp]
  irpt,      \* the card removal bit of EMMC_INTERRUPT
  host,      \* the controller: bus width, SD clock on or off, the base clock it
             \* was told and the divisor it has chosen
  edev,      \* [rca, removal, err, failedSwitch, s18, sdhc, freed]
  registered,\* the first sd_card_init returned the device
  pc,        \* the command the driver issues next, or where it stands
  caller,    \* who called sd_card_init: "boot", "top" or "again"
  v2_later,  \* sd_card_init's local of that name
  op,        \* the data command of the current or last call
  tries,     \* retry_count
  result,    \* "none", "busy", "ok" or "error": of the last call
  faulty,    \* commands may still fail in transmission
  swapped,   \* history: the card was taken out since it last gave its status
  noticed,   \* history: the controller noticed that since the last reset
  gaveUp18   \* sd_card_init runs for a local pointer, after a failed voltage switch

slot == <<card, irpt, host>>
locals == <<caller, v2_later, op, tries>>
vars == <<card, irpt, host, edev, registered, pc, caller, v2_later, op, tries,
          result, faulty, swapped, noticed, gaveUp18>>

NewDevice == [rca |-> FALSE, removal |-> FALSE, err |-> "none",
              failedSwitch |-> FALSE, s18 |-> FALSE, sdhc |-> FALSE,
              freed |-> FALSE]

NewHost == [width |-> 1, on |-> FALSE, base |-> BaseClock, divisor |-> 0]

Init ==
  /\ \E k \in Kinds, in \in BOOLEAN :
       card = [present |-> in, kind |-> k, state |-> "idle", width |-> 1,
               poweringUp |-> TRUE]
  /\ irpt = FALSE
  /\ host = NewHost
  /\ edev = NewDevice
  /\ registered = FALSE
  /\ pc = "RESET" /\ caller = "boot"
  /\ v2_later = FALSE
  /\ op = "READ_SINGLE_BLOCK" /\ tries = 0
  /\ result = "none"
  /\ faulty = TRUE
  /\ swapped = FALSE /\ noticed = FALSE /\ gaveUp18 = FALSE

(***************************************************************************)
(* The card and its slot.                                                  *)
(***************************************************************************)

\* The controller may or may not notice that the card is gone.
Remove ==
  /\ card.present
  /\ card' = [card EXCEPT !.present = FALSE]
  /\ irpt' \in {irpt, TRUE}
  /\ swapped' = TRUE
  /\ noticed' = (noticed \/ irpt')
  /\ UNCHANGED <<host, edev, registered, pc, locals, result, faulty, gaveUp18>>

\* A card that is put into a slot without power stays without.
Insert ==
  /\ ~card.present
  /\ \E k \in Kinds :
       card' = [present |-> TRUE, kind |-> k, width |-> 1, poweringUp |-> TRUE,
                state |-> IF card.state = "off" THEN "off" ELSE "idle"]
  /\ UNCHANGED <<irpt, host, edev, registered, pc, locals, result, faulty,
                 swapped, noticed, gaveUp18>>

PowerUp ==
  /\ card.present /\ card.poweringUp
  /\ card' = [card EXCEPT !.poweringUp = FALSE]
  /\ UNCHANGED <<irpt, host, edev, registered, pc, locals, result, faulty,
                 swapped, noticed, gaveUp18>>

Programmed ==
  /\ card.present /\ card.state = "prg"
  /\ card' = [card EXCEPT !.state = "tran"]
  /\ UNCHANGED <<irpt, host, edev, registered, pc, locals, result, faulty,
                 swapped, noticed, gaveUp18>>

\* From some moment on the connection may be good.
FaultsEnd ==
  /\ faulty
  /\ faulty' = FALSE
  /\ UNCHANGED <<slot, edev, registered, pc, locals, result, swapped, noticed,
                 gaveUp18>>

Fails(c) == faulty /\ c \in MayFail

\* The states in which the card obeys a command.
Admits(c) ==
  CASE c = "GO_IDLE_STATE"      -> {"idle", "ready", "ident", "stby", "tran",
                                    "data", "rcv", "prg"}
    [] c = "SEND_IF_COND"       -> IF card.kind.v2 THEN {"idle"} ELSE {}
    [] c = "IO_SET_OP_COND"     -> {}
    [] c \in {"INQUIRY", "OP_COND"} -> {"idle"}
    [] c \in {"VOLTAGE_SWITCH", "ALL_SEND_CID"} -> {"ready"}
    [] c = "SEND_RELATIVE_ADDR" -> {"ident", "stby"}
    [] c = "SELECT_CARD"        -> {"stby"}
    [] c = "SEND_STATUS"        -> {"stby", "tran", "data", "rcv", "prg"}
    [] c = "STOP_TRANSMISSION"  -> {"data", "rcv"}
    [] OTHER                    -> {"tran"}

Obeys(c) == card.present /\ card.state \in Admits(c)

\* A high-capacity card stays idle unless the host says it knows such cards.
Initialised == ~card.poweringUp /\ (card.kind.sdhc => v2_later)

\* The card after it has carried a command out.
After(c) ==
  CASE c = "GO_IDLE_STATE" -> [card EXCEPT !.state = "idle", !.width = 1,
                                           !.poweringUp = TRUE]
    [] c = "OP_COND" /\ Initialised -> [card EXCEPT !.state = "ready"]
    [] c = "ALL_SEND_CID"       -> [card EXCEPT !.state = "ident"]
    [] c = "SEND_RELATIVE_ADDR" -> [card EXCEPT !.state = "stby"]
    [] c \in {"SELECT_CARD", "STOP_TRANSMISSION"} -> [card EXCEPT !.state = "tran"]
    [] c = "SET_BUS_WIDTH"      -> [card EXCEPT !.width = 4]
    [] c = "READ_MULTIPLE_BLOCK" -> [card EXCEPT !.state = "data"]
    [] OTHER                    -> card

\* A card that has taken a block may still be programming it when the controller
\* reports the transfer complete (HCSS 2.2.17, which the driver goes by).
Outcomes(c) ==
  {After(c)} \cup
  (IF c = "WRITE_BLOCK" THEN {[card EXCEPT !.state = "prg"]} ELSE {})

\* Where a command that went wrong may have left the card: it missed the
\* command, it carried it out, or it still waits for the block to write.
Astray(c) ==
  {card} \cup
  (IF ~Obeys(c) THEN {}
   ELSE Outcomes(c) \cup
        (IF c = "WRITE_BLOCK" THEN {[card EXCEPT !.state = "rcv"]} ELSE {}))

Errors == {"none", "cmd_timeout", "other"}

\* Data goes across only if both ends use the same width.
Transfers(c) == c \in DataCommands \cup {"SEND_SCR"} => host.width = card.width

(***************************************************************************)
(* sd_issue_command_int: whether the command succeeded, last_error, and    *)
(* the card afterwards.  last_error is 0 ("none") when the wait timed out, *)
(* as it does when the SD clock is off.                                    *)
(***************************************************************************)
Answers(c) ==
  (IF ~host.on
     THEN {[ok |-> FALSE, err |-> "none", card |-> card]}
   ELSE IF c = "GO_IDLE_STATE" \/ (Obeys(c) /\ Transfers(c))
     THEN {[ok |-> TRUE, err |-> edev.err, card |-> k] :
             k \in IF Obeys(c) THEN Outcomes(c) ELSE {card}}
   ELSE IF Obeys(c)
     THEN {[ok |-> FALSE, err |-> "other", card |-> k] : k \in Astray(c)}
   ELSE {[ok |-> FALSE, err |-> "cmd_timeout", card |-> card]})
  \cup
  (IF Fails(c)
     THEN {[ok |-> FALSE, err |-> e, card |-> k] : e \in Errors, k \in Astray(c)}
     ELSE {})

\* Mutant: a removal that was seen counts for one command only.
GoneNow == irpt

\* sd_issue_command: sd_handle_interrupts first; once a removal has been seen
\* no command is issued and last_error keeps its value.
Gone == irpt \/ edev.removal

Replies(c) ==
  IF Gone THEN {[ok |-> FALSE, err |-> edev.err, card |-> card]}
          ELSE Answers(c)

\* The part of the step that is the same for every command.
Issued(r) ==
  /\ card' = r.card
  /\ irpt' = FALSE

Noted(r) == [edev EXCEPT !.err = r.err, !.removal = Gone]

(***************************************************************************)
(* sd_card_init.                                                           *)
(***************************************************************************)
Here(p) == pc = p

\* Where a failed initialisation returns to: libfs_init goes on without the
\* card, sd_ensure_data_mode returns the error to its caller.
InitFailed(dev) ==
  /\ edev' = dev
  /\ pc' = IF caller = "boot" THEN "no_device" ELSE "ready"
  /\ result' = IF caller = "boot" THEN result ELSE "error"
  /\ gaveUp18' = FALSE

\* The structure is freed whether or not it is the registered device.
InitFreed(dev) == InitFailed([dev EXCEPT !.freed = registered])

Goto(p, dev) ==
  /\ edev' = dev
  /\ pc' = p
  /\ UNCHANGED <<result, gaveUp18>>

Unmoved == UNCHANGED <<registered, caller, op, tries, faulty>>

\* Mutant: the structure is only given a new state, not cleared.
PreparedAsIs == [edev EXCEPT !.rca = FALSE, !.s18 = FALSE, !.sdhc = FALSE]

PreparedDevice == NewDevice

PowerCycled == [card EXCEPT !.state = "idle", !.width = 1, !.poweringUp = TRUE]

\* bcm_2708_power_cycle: what it returns is only printed.  The firmware may
\* refuse both messages, or obey the first and not the second.
PowerCycle ==
  {PowerCycled} \cup
  (IF Fails("POWER") THEN {card, [card EXCEPT !.state = "off"]} ELSE {})

\* sd_get_base_clock_hz.
BaseClocks == {BaseClock} \cup (IF Fails("BASE_CLOCK") THEN {AssumedClock} ELSE {})

\* The controller was reset, so that no bit of an earlier divisor is left.
IdentificationClock(base) ==
  [NewHost EXCEPT !.on = TRUE, !.base = base, !.divisor = Divisor(base, SD_CLOCK_ID)]

\* sd_switch_clock_rate.
DataClock == [host EXCEPT !.divisor = Divisor(host.base, SD_CLOCK_NORMAL)]

\* Power cycle, controller reset with the SD clock off, a card in the slot, the
\* clock; only then is the structure prepared anew.
Reset ==
  /\ Here("RESET")
  /\ card' \in PowerCycle
  /\ \/ /\ card.present
        /\ irpt' = FALSE /\ noticed' = FALSE
        /\ \E base \in BaseClocks : host' = IdentificationClock(base)
        /\ Goto("GO_IDLE_STATE", PreparedDevice)
     \/ /\ ~card.present \/ Fails("RESET")
        /\ InitFailed(edev)
        /\ host' = NewHost
        /\ UNCHANGED <<irpt, noticed>>
  /\ v2_later' = FALSE
  /\ Unmoved /\ UNCHANGED swapped

\* An initialisation command whose failure makes sd_card_init return -1.
Step(c, next, frees) ==
  /\ Here(c)
  /\ \E r \in Replies(c) :
       /\ Issued(r)
       /\ \/ r.ok /\ Goto(next, Noted(r))
          \/ ~r.ok /\ ~frees /\ InitFailed(Noted(r))
          \/ ~r.ok /\ frees /\ InitFreed(Noted(r))
  /\ UNCHANGED <<host, v2_later, swapped, noticed>> /\ Unmoved

GoIdleState == Step("GO_IDLE_STATE", "SEND_IF_COND", FALSE)

\* No answer is no failure here, but the command line must be reset after it.
Silent(r) == ~r.ok /\ r.err \in {"none", "cmd_timeout"}

\* sd_reset_cmd: the bit may not clear in time.
ResetCmdFails == Fails("RESET")

OnSilence(r, next) ==
  \/ Goto(next, Noted(r))
  \/ r.err = "cmd_timeout" /\ ResetCmdFails /\ InitFailed(Noted(r))

\* A card that does not answer CMD8 is taken for a version 1 card.
SendIfCond ==
  /\ Here("SEND_IF_COND")
  /\ \E r \in Replies("SEND_IF_COND") :
       /\ Issued(r)
       /\ v2_later' = r.ok
       /\ IF r.ok THEN Goto("IO_SET_OP_COND", Noted(r))
          ELSE IF Silent(r) THEN OnSilence(r, "IO_SET_OP_COND")
          ELSE InitFailed(Noted(r))
  /\ UNCHANGED <<host, swapped, noticed>> /\ Unmoved

\* Only a card that is not an SDIO card is silent here.
IoSetOpCond ==
  /\ Here("IO_SET_OP_COND")
  /\ \E r \in Replies("IO_SET_OP_COND") :
       /\ Issued(r)
       /\ IF Silent(r) THEN OnSilence(r, "INQUIRY") ELSE InitFailed(Noted(r))
  /\ UNCHANGED <<host, v2_later, swapped, noticed>> /\ Unmoved

Inquiry == Step("INQUIRY", "OP_COND", FALSE)

\* The loop on the initialising ACMD41: as long as the card says it is busy.
\* Then the clock is raised, before the card is asked for its address.
SendOpCond ==
  /\ Here("OP_COND")
  /\ \E r \in Replies("OP_COND") :
       /\ Issued(r)
       /\ host' = IF r.ok /\ r.card.state = "ready" THEN DataClock ELSE host
       /\ IF ~r.ok THEN InitFailed(Noted(r))
          ELSE IF r.card.state # "ready" THEN Goto("OP_COND", Noted(r))
          ELSE LET s18 == /\ v2_later /\ ~edev.failedSwitch
                          /\ card.kind.s18
               IN Goto(IF s18 THEN "VOLTAGE_SWITCH" ELSE "ALL_SEND_CID",
                       [Noted(r) EXCEPT !.s18 = s18, !.sdhc = card.kind.sdhc])
  /\ UNCHANGED <<v2_later, swapped, noticed>> /\ Unmoved

\* A failed switch, whether of the command, of the DAT lines or of the 1.8 V
\* signal, powers the card off and starts again.
VoltageSwitch ==
  /\ Here("VOLTAGE_SWITCH")
  /\ \E r \in Replies("VOLTAGE_SWITCH") :
       /\ Issued(r)
       /\ IF r.ok
            THEN Goto("ALL_SEND_CID", Noted(r))
            ELSE /\ edev' = [Noted(r) EXCEPT !.failedSwitch = TRUE]
                 /\ pc' = "RESET"
                 /\ gaveUp18' = TRUE
                 /\ UNCHANGED result
  /\ UNCHANGED <<host, v2_later, swapped, noticed>> /\ Unmoved

AllSendCid == Step("ALL_SEND_CID", "SEND_RELATIVE_ADDR", FALSE)

SendRelativeAddr ==
  /\ Here("SEND_RELATIVE_ADDR")
  /\ \E r \in Replies("SEND_RELATIVE_ADDR") :
       /\ Issued(r)
       /\ IF r.ok THEN Goto("SELECT_INIT", [Noted(r) EXCEPT !.rca = TRUE])
                  ELSE InitFreed(Noted(r))
  /\ UNCHANGED <<host, v2_later, swapped, noticed>> /\ Unmoved

SelectInit ==
  /\ Here("SELECT_INIT")
  /\ \E r \in Replies("SELECT_CARD") :
       /\ Issued(r)
       /\ IF ~r.ok THEN InitFreed(Noted(r))
          ELSE Goto(IF edev.sdhc THEN "SEND_SCR" ELSE "SET_BLOCKLEN", Noted(r))
  /\ UNCHANGED <<host, v2_later, swapped, noticed>> /\ Unmoved

SetBlocklen == Step("SET_BLOCKLEN", "SEND_SCR", TRUE)

SendScr == Step("SEND_SCR", "SET_BUS_WIDTH", TRUE)

\* The last command of an initialisation may fail without consequence for it.
SetBusWidth ==
  /\ Here("SET_BUS_WIDTH")
  /\ \E r \in Replies("SET_BUS_WIDTH") :
       /\ Issued(r)
       /\ host' = IF r.ok THEN [host EXCEPT !.width = 4] ELSE host
       /\ Goto("RESET_INTERRUPT", Noted(r))
  /\ UNCHANGED <<v2_later, swapped, noticed>> /\ Unmoved

\* The end of sd_card_init clears every interrupt, a removal signalled since ACMD6
\* with the rest: that one leaves no mark.  An initialisation started again by
\* VoltageSwitch hands the device to the failed one's local variable: at boot the
\* caller's pointer stays NULL.
ResetInterrupt ==
  /\ Here("RESET_INTERRUPT")
  /\ irpt' = FALSE
  /\ gaveUp18' = FALSE
  /\ registered' = (registered \/ ~gaveUp18)
  /\ pc' = CASE caller = "boot"  -> IF gaveUp18 THEN "no_device" ELSE "ready"
             [] caller = "top"   -> "SEND_STATUS"
             [] caller = "again" -> "RECHECK"
  /\ UNCHANGED <<card, host, edev, v2_later, swapped, noticed, result, caller, op,
                 tries, faulty>>

(***************************************************************************)
(* sd_ensure_data_mode.                                                    *)
(***************************************************************************)

\* sd_read or sd_write.  Without an address for the card it is initialised.
Call(c) ==
  /\ pc = "ready" /\ ~edev.freed
  /\ op' = c
  /\ tries' = 0
  /\ result' = "busy"
  /\ IF edev.rca THEN pc' = "SEND_STATUS" /\ UNCHANGED caller
                 ELSE pc' = "RESET" /\ caller' = "top"
  /\ UNCHANGED <<slot, edev, registered, v2_later, faulty, swapped, noticed,
                 gaveUp18>>

Proceed(p, dev) ==
  /\ edev' = dev
  /\ pc' = p
  /\ UNCHANGED result

\* The card's address is forgotten, so that the next call initialises it.
GiveUp(dev) ==
  /\ edev' = [dev EXCEPT !.rca = FALSE]
  /\ pc' = "ready"
  /\ result' = "error"

Frame == UNCHANGED <<host, registered, v2_later, op, faulty, noticed, gaveUp18>>

\* Mutant: a card that waits for data or programs a block is used as it is.
NextIfWaiting(state) ==
  CASE state = "stby" -> "SELECT_CARD"
    [] state = "data" -> "STOP_TRANSMISSION"
    [] OTHER          -> "DATA"

\* What the card's state calls for.
NextFor(state) ==
  CASE state = "tran" -> "DATA"
    [] state = "stby" -> "SELECT_CARD"
    [] state = "data" -> "STOP_TRANSMISSION"
    [] OTHER          -> "RESET"

SendStatus ==
  /\ Here("SEND_STATUS")
  /\ \E r \in Replies("SEND_STATUS") :
       /\ Issued(r)
       /\ swapped' = (swapped /\ ~r.ok)
       /\ IF ~r.ok THEN GiveUp(Noted(r)) /\ UNCHANGED caller
          ELSE /\ Proceed(NextFor(r.card.state), Noted(r))
               /\ caller' = IF pc' = "RESET" THEN "again" ELSE caller
  /\ Frame /\ UNCHANGED tries

\* Selecting a card that stands by, and stopping one that still sends.
Prepare(c) ==
  /\ Here(c)
  /\ \E r \in Replies(c) :
       /\ Issued(r)
       /\ IF r.ok THEN Proceed("RECHECK", Noted(r)) ELSE GiveUp(Noted(r))
  /\ Frame /\ UNCHANGED <<caller, tries, swapped>>

SelectCard == Prepare("SELECT_CARD")

StopTransmission == Prepare("STOP_TRANSMISSION")

Recheck ==
  /\ Here("RECHECK")
  /\ \E r \in Replies("SEND_STATUS") :
       /\ Issued(r)
       /\ swapped' = (swapped /\ ~r.ok)
       /\ IF r.ok /\ r.card.state = "tran" THEN Proceed("DATA", Noted(r))
                                           ELSE GiveUp(Noted(r))
  /\ Frame /\ UNCHANGED <<caller, tries>>

Again(n) == n < MaxRetries

(***************************************************************************)
(* sd_do_data_command: up to max_retries attempts, with nothing done       *)
(* between them.                                                           *)
(***************************************************************************)
DataCommand ==
  /\ Here("DATA")
  /\ \E r \in Replies(op) :
       /\ Issued(r)
       /\ \/ /\ r.ok
             /\ edev' = Noted(r) /\ pc' = "ready" /\ result' = "ok"
             /\ UNCHANGED tries
          \/ /\ ~r.ok
             /\ tries' = tries + 1
             /\ IF Again(tries') THEN Proceed("DATA", Noted(r)) ELSE GiveUp(Noted(r))
  /\ Frame /\ UNCHANGED <<caller, swapped>>

Initialise ==
  \/ Reset \/ GoIdleState \/ SendIfCond \/ IoSetOpCond \/ Inquiry \/ SendOpCond
  \/ VoltageSwitch \/ AllSendCid \/ SendRelativeAddr \/ SelectInit
  \/ SetBlocklen \/ SendScr \/ SetBusWidth \/ ResetInterrupt

Driver ==
  \/ Initialise
  \/ SendStatus \/ SelectCard \/ StopTransmission \/ Recheck \/ DataCommand

Calls == \E c \in DataCommands : Call(c)

Slot == Remove \/ Insert \/ PowerUp \/ Programmed \/ FaultsEnd

Next == Driver \/ Calls \/ Slot

Spec == Init /\ [][Next]_vars

\* The driver runs whenever it can; a card in the slot ends its power-up; the
\* file systems and the boot menu go on reading.
FairSpec == Spec /\ WF_vars(Driver) /\ WF_vars(Calls) /\ WF_vars(PowerUp)

-------------------------------------------------------------------------------
(***************************************************************************)
(* Properties.                                                             *)
(***************************************************************************)

\* sd_ensure_data_mode does what its name says: whatever the card was left doing
\* by earlier calls (sending on after a multi-block read, programming a block,
\* standing by), the first data command of a call finds it in the transfer state,
\* unless the card has been taken out since its status was read.
DataCommandInTran ==
  pc = "DATA" /\ tries = 0 /\ ~swapped => card.present /\ card.state = "tran"

Identification == {"GO_IDLE_STATE", "SEND_IF_COND", "IO_SET_OP_COND", "INQUIRY",
                   "OP_COND"}

\* No card is clocked faster than it bears: whatever exchanges, failed voltage
\* switches and initialisations broken off came before, commands of the
\* identification go out at no more than SD_CLOCK_ID and later ones at no more
\* than SD_CLOCK_NORMAL, with the divisor that sd_get_clock_divider found; and no
\* data command is sent with the clock off.  The rate is unknown to the driver
\* when it had to assume the base clock.
ClockFits ==
  /\ host.on /\ host.base = BaseClock =>
       BaseClock <= Denominator(host.divisor) *
                    IF pc \in Identification THEN SD_CLOCK_ID ELSE SD_CLOCK_NORMAL
  /\ pc = "DATA" => host.on

\* Once the controller has noticed that the card was taken out, no call succeeds
\* before the card has been initialised again, whatever commands, retries, calls
\* and failed initialisations come in between.  card_removal outlives the interrupt
\* that sets it, until the memset of sd_card_init; and when the end of sd_card_init
\* wipes the interrupt (emmc.c:1911), the card that comes next does not answer for
\* its status before any data command is sent.
RemovalStopsData == [][noticed /\ pc # "RESET" => result' # "ok" \/ result = "ok"]_vars

\* The inductive invariant.
Cards == [present : BOOLEAN, kind : Kinds, width : {1, 4}, poweringUp : BOOLEAN,
          state : {"off", "idle", "ready", "ident", "stby", "tran", "data", "rcv", "prg"}]

Devices == [rca : BOOLEAN, removal : BOOLEAN, err : Errors, failedSwitch : BOOLEAN,
            s18 : BOOLEAN, sdhc : BOOLEAN, freed : BOOLEAN]

\* The divisors there may be for a base clock.
Divisors(base) == {Divisor(base, SD_CLOCK_ID), Divisor(base, SD_CLOCK_NORMAL)}

Hosts == [width : {1, 4}, on : BOOLEAN, base : {BaseClock, AssumedClock},
          divisor : {0} \cup Divisors(BaseClock) \cup Divisors(AssumedClock)]

Places == (Commands \ DataCommands) \cup
          {"RESET", "SELECT_INIT", "RESET_INTERRUPT", "RECHECK", "DATA", "ready",
           "no_device"}

TypeOK ==
  /\ card \in Cards /\ edev \in Devices /\ host \in Hosts /\ pc \in Places
  /\ caller \in {"boot", "top", "again"} /\ op \in DataCommands /\ tries \in Nat
  /\ result \in {"none", "busy", "ok", "error"}
  /\ irpt \in BOOLEAN /\ registered \in BOOLEAN /\ v2_later \in BOOLEAN
  /\ faulty \in BOOLEAN /\ swapped \in BOOLEAN /\ noticed \in BOOLEAN
  /\ gaveUp18 \in BOOLEAN

\* No card of the slot has been addressed since it was put in.
Unaddressed == card.present => card.state \in {"off", "idle"}

\* Where no command but a request for the status can come next.
Unsent == {"SEND_STATUS", "RECHECK", "RESET", "ready", "no_device"}

\* A pending interrupt tells of a card that was not addressed yet.  Between it and
\* the memset of sd_card_init there is one of the two marks of the removal, or the
\* interrupt was wiped at the end of sd_card_init and the driver has yet to ask
\* for the status of that card.
RemovalKnown ==
  /\ irpt => Unaddressed
  /\ noticed => Gone \/ (Unaddressed /\ pc \in Unsent)

Clocked ==
  /\ host.on => /\ host.divisor \in Divisors(host.base)
                /\ pc \in Identification => host.divisor = Divisor(host.base, SD_CLOCK_ID)
  /\ pc = "DATA" => host.on

IInv == TypeOK /\ RemovalKnown /\ DataCommandInTran /\ Clocked

\* The initialising ACMD41 is repeated for ever for a high-capacity card whose
\* answer to CMD8 was lost: it was not told that the host knows such cards.
Unanswerable == pc = "OP_COND" /\ card.kind.sdhc /\ ~v2_later

\* The driver recovers: once the card stays in the slot and the connection is
\* good, calls succeed again and again, except after the failures that the
\* driver cannot leave: no card at the start, a freed device, and Unanswerable.
Recovers ==
  <>[](card.present /\ ~faulty) =>
    []<>(result = "ok" \/ pc = "no_device" \/ edev.freed \/ Unanswerable)
===============================================================================
