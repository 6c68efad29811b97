---------------------------- MODULE SdDriverProofs ----------------------------
(***************************************************************************)
(* The safety theorems of SdDriver, for any kinds of card and any faults,  *)
(* and at the end that of Timer, whose TIMEOUT_WAIT is how the driver      *)
(* waits for its hardware.                                                 *)
(***************************************************************************)
EXTENDS SdDriver, Timer, TLAPS

(***************************************************************************)
(* The card, and what a command answers.                                   *)
(***************************************************************************)

\* A card has a state and a width of its bus, whatever command it carries out.
LEMMA CardAfter ==
  ASSUME TypeOK, NEW c \in Commands
  PROVE  Outcomes(c) \subseteq Cards /\ Astray(c) \subseteq Cards
<1>1. card \in Cards
  BY DEF TypeOK
<1>2. \A st \in {"ready", "ident", "stby", "tran", "data", "rcv", "prg"} :
        [card EXCEPT !.state = st] \in Cards
  BY <1>1 DEF Cards
<1>3. [card EXCEPT !.width = 4] \in Cards
  BY <1>1 DEF Cards
<1>4. [card EXCEPT !.state = "idle", !.width = 1, !.poweringUp = TRUE] \in Cards
  BY <1>1 DEF Cards
<1>5. After(c) \in Cards
  BY <1>1, <1>2, <1>3, <1>4 DEF After
<1>6. QED
  BY <1>1, <1>2, <1>5 DEF Outcomes, Astray

\* A command succeeds only if no removal is known of and the SD clock runs, and
\* any but the reset of the card only if a card obeyed it.
LEMMA ReplyFacts ==
  ASSUME TypeOK, NEW c \in Commands, NEW r \in Replies(c)
  PROVE  /\ r.card \in Cards /\ r.err \in Errors /\ r.ok \in BOOLEAN
         /\ r.ok => ~Gone /\ host.on
         /\ r.ok /\ c # "GO_IDLE_STATE" => card.present /\ r.card \in Outcomes(c)
<1>1. /\ card \in Cards /\ edev.err \in Errors
      /\ Outcomes(c) \subseteq Cards /\ Astray(c) \subseteq Cards
  BY CardAfter DEF TypeOK, Devices
<1>2. CASE r = [ok |-> FALSE, err |-> edev.err, card |-> card]
  BY <1>1, <1>2
<1>3. CASE ~Gone /\ r = [ok |-> FALSE, err |-> "none", card |-> card]
  BY <1>1, <1>3 DEF Errors
<1>4. CASE ~Gone /\ r = [ok |-> FALSE, err |-> "cmd_timeout", card |-> card]
  BY <1>1, <1>4 DEF Errors
<1>5. ASSUME ~Gone, NEW e \in Errors, NEW k \in Astray(c),
             r = [ok |-> FALSE, err |-> e, card |-> k]
      PROVE  r.card \in Cards /\ r.err \in Errors /\ r.ok = FALSE
  BY <1>1, <1>5
<1>6. ASSUME ~Gone, host.on, c = "GO_IDLE_STATE" \/ (Obeys(c) /\ Transfers(c)),
             NEW k \in IF Obeys(c) THEN Outcomes(c) ELSE {card},
             r = [ok |-> TRUE, err |-> edev.err, card |-> k]
      PROVE  /\ r.card \in Cards /\ r.err \in Errors /\ r.ok = TRUE
             /\ c # "GO_IDLE_STATE" => card.present /\ r.card \in Outcomes(c)
  BY <1>1, <1>6 DEF Obeys
<1>7. \/ r = [ok |-> FALSE, err |-> edev.err, card |-> card]
      \/ ~Gone /\ r = [ok |-> FALSE, err |-> "none", card |-> card]
      \/ ~Gone /\ r = [ok |-> FALSE, err |-> "cmd_timeout", card |-> card]
      \/ ~Gone /\ \E e \in Errors, k \in Astray(c) :
           r = [ok |-> FALSE, err |-> e, card |-> k]
      \/ /\ ~Gone /\ host.on /\ (c = "GO_IDLE_STATE" \/ (Obeys(c) /\ Transfers(c)))
         /\ \E k \in IF Obeys(c) THEN Outcomes(c) ELSE {card} :
              r = [ok |-> TRUE, err |-> edev.err, card |-> k]
  BY DEF Replies, Answers, Errors
<1>8. QED
  BY <1>2, <1>3, <1>4, <1>5, <1>6, <1>7

\* The device remembers the removal that sd_handle_interrupts has seen, and an
\* interrupt is acknowledged only then.
LEMMA NotedDevice ==
  ASSUME TypeOK, NEW c \in Commands, NEW r \in Replies(c)
  PROVE  /\ Noted(r) \in Devices
         /\ Gone => Noted(r).removal
<1>1. r.err \in Errors /\ edev \in Devices
  BY ReplyFacts DEF TypeOK
<1>2. Gone \in BOOLEAN
  BY <1>1 DEF TypeOK, Gone, Devices
<1>3. Noted(r) \in Devices /\ Noted(r).removal = Gone
  BY <1>1, <1>2 DEF Noted, Devices
<1>4. QED
  BY <1>3

\* What a command of an initialisation may do to the driver's state.
InitStep ==
  /\ card' \in Cards /\ edev' \in Devices /\ irpt' = FALSE
  /\ Gone => edev'.removal
  /\ pc' \in Places \ {"DATA"}
  /\ result' \in {result, "error"}
  /\ UNCHANGED <<caller, op, tries, faulty, swapped, noticed>>
  /\ registered' \in BOOLEAN /\ v2_later' \in BOOLEAN /\ gaveUp18' \in BOOLEAN
  /\ \/ UNCHANGED host /\ (pc' \in Identification => pc \in Identification)
     \/ host' = DataClock /\ pc' \notin Identification
     \/ host' = [host EXCEPT !.width = 4] /\ pc' \notin Identification

LEMMA InitStepIInv == ASSUME IInv, InitStep, pc \notin Unsent PROVE IInv'
<1> USE DEF IInv
<1>1. host' \in Hosts
  <2>1. host \in Hosts
    BY DEF TypeOK
  <2>2. DataClock \in Hosts
    BY <2>1 DEF Hosts, DataClock, Divisors
  <2>3. [host EXCEPT !.width = 4] \in Hosts
    BY <2>1 DEF Hosts
  <2>4. QED
    BY <2>1, <2>2, <2>3 DEF InitStep
<1>2. TypeOK'
  <2>1. irpt' \in BOOLEAN
    BY DEF InitStep
  <2>2. registered' \in BOOLEAN /\ v2_later' \in BOOLEAN /\ gaveUp18' \in BOOLEAN
    BY DEF InitStep
  <2>3. faulty' \in BOOLEAN /\ swapped' \in BOOLEAN /\ noticed' \in BOOLEAN
    BY DEF InitStep, TypeOK
  <2>4. card' \in Cards /\ edev' \in Devices /\ pc' \in Places
    BY DEF InitStep
  <2>5. /\ caller' \in {"boot", "top", "again"} /\ op' \in DataCommands /\ tries' \in Nat
        /\ result' \in {"none", "busy", "ok", "error"}
    BY DEF InitStep, TypeOK
  <2>6. QED
    BY <1>1, <2>1, <2>2, <2>3, <2>4, <2>5 DEF TypeOK
<1>3. RemovalKnown'
  <2>1. noticed => Gone
    BY DEF RemovalKnown
  <2>2. QED
    BY <2>1 DEF RemovalKnown, InitStep, Gone
<1>4. DataCommandInTran'
  BY DEF DataCommandInTran, InitStep
<1>5. Clocked'
  <2>1. pc' # "DATA"
    BY DEF InitStep
  <2>2. host \in Hosts
    BY DEF TypeOK
  <2>3. CASE UNCHANGED host /\ (pc' \in Identification => pc \in Identification)
    BY <2>1, <2>3 DEF Clocked
  <2>4. CASE host' = DataClock /\ pc' \notin Identification
    <3>1. host'.base = host.base /\ host'.divisor = Divisor(host.base, SD_CLOCK_NORMAL)
      BY <2>2, <2>4 DEF Hosts, DataClock
    <3>2. QED
      BY <2>1, <2>4, <3>1 DEF Clocked, Divisors
  <2>5. CASE host' = [host EXCEPT !.width = 4] /\ pc' \notin Identification
    <3>1. host'.base = host.base /\ host'.divisor = host.divisor /\ host'.on = host.on
      BY <2>2, <2>5 DEF Hosts
    <3>2. QED
      BY <2>1, <2>5, <3>1 DEF Clocked
  <2>6. QED
    BY <2>3, <2>4, <2>5 DEF InitStep
<1>6. QED
  BY <1>2, <1>3, <1>4, <1>5

\* The three ways a command of an initialisation ends, for a device that has
\* noted its reply.
LEMMA InitEnds ==
  ASSUME TypeOK, NEW d \in Devices, Gone => d.removal
  PROVE  /\ InitFailed(d) \/ InitFreed(d) =>
              /\ edev' \in Devices /\ (Gone => edev'.removal)
              /\ pc' \in {"no_device", "ready"}
              /\ result' \in {result, "error"} /\ gaveUp18' \in BOOLEAN
         /\ \A p : Goto(p, d) =>
              /\ edev' \in Devices /\ (Gone => edev'.removal) /\ pc' = p
              /\ result' \in {result, "error"} /\ gaveUp18' \in BOOLEAN
<1>1. /\ [d EXCEPT !.freed = registered] \in Devices
      /\ [d EXCEPT !.freed = registered].removal = d.removal
  BY DEF TypeOK, Devices
<1>2. ASSUME NEW e \in Devices, Gone => e.removal, InitFailed(e)
      PROVE  /\ edev' \in Devices /\ (Gone => edev'.removal)
             /\ pc' \in {"no_device", "ready"}
             /\ result' \in {result, "error"} /\ gaveUp18' \in BOOLEAN
  BY <1>2 DEF InitFailed
<1>3. ASSUME NEW p, Goto(p, d)
      PROVE  /\ edev' \in Devices /\ (Gone => edev'.removal) /\ pc' = p
             /\ result' \in {result, "error"} /\ gaveUp18' \in BOOLEAN
  <2>1. gaveUp18' \in BOOLEAN
    BY <1>3 DEF Goto, TypeOK
  <2>2. QED
    BY <1>3, <2>1 DEF Goto
<1>4. QED
  BY <1>1, <1>2, <1>3 DEF InitFreed

(***************************************************************************)
(* The commands of sd_card_init.                                           *)
(***************************************************************************)

\* A command that ends the initialisation, or leaves it where identification
\* does not begin anew, with its reply noted.
LEMMA InitCommand ==
  ASSUME IInv, NEW c \in Commands, NEW r \in Replies(c), Issued(r),
         NEW d \in Devices, Gone => d.removal,
         NEW next \in Places \ {"DATA"}, next \in Identification => pc \in Identification,
         Goto(next, d) \/ InitFailed(d) \/ InitFreed(d),
         UNCHANGED <<host, swapped, noticed>>, v2_later' \in BOOLEAN, Unmoved
  PROVE  InitStep
<1>1. card' \in Cards /\ irpt' = FALSE
  BY ReplyFacts DEF IInv, Issued
<1>2. /\ edev' \in Devices /\ (Gone => edev'.removal)
      /\ pc' \in {next, "no_device", "ready"}
      /\ result' \in {result, "error"} /\ gaveUp18' \in BOOLEAN
  <2>1. TypeOK
    BY DEF IInv
  <2>2. QED
    BY <2>1, InitEnds
<1>3. registered' \in BOOLEAN
  BY DEF Unmoved, IInv, TypeOK
<1>4. pc' \in Places \ {"DATA"} /\ (pc' \in Identification => pc \in Identification)
  BY <1>2 DEF Places, Identification
<1>5. QED
  BY <1>1, <1>2, <1>3, <1>4 DEF InitStep, Unmoved

\* The commands that only succeed or fail.
LEMMA StepIInv ==
  ASSUME IInv, NEW c \in Commands, NEW next \in Places \ {"DATA"}, NEW frees \in BOOLEAN,
         next \in Identification => c \in Identification, c \notin Unsent,
         Step(c, next, frees)
  PROVE  IInv'
<1>1. PICK r \in Replies(c) :
        /\ Issued(r)
        /\ Goto(next, Noted(r)) \/ InitFailed(Noted(r)) \/ InitFreed(Noted(r))
  BY DEF Step
<1>2. Noted(r) \in Devices /\ (Gone => Noted(r).removal)
  BY NotedDevice DEF IInv
<1>3. /\ pc = c /\ UNCHANGED <<host, swapped, noticed>> /\ Unmoved
      /\ v2_later' \in BOOLEAN
  BY DEF Step, Here, IInv, TypeOK
<1>4. InitStep
  BY <1>1, <1>2, <1>3, InitCommand
<1>5. QED
  BY <1>3, <1>4, InitStepIInv

LEMMA StepsIInv ==
  ASSUME IInv,
         \/ GoIdleState \/ Inquiry \/ AllSendCid \/ SetBlocklen \/ SendScr
  PROVE  IInv'
<1>1. /\ {"SEND_IF_COND", "OP_COND", "SEND_RELATIVE_ADDR", "SEND_SCR", "SET_BUS_WIDTH"}
           \subseteq Places \ {"DATA"}
      /\ {"GO_IDLE_STATE", "INQUIRY", "ALL_SEND_CID", "SET_BLOCKLEN", "SEND_SCR"}
           \subseteq Commands \ Unsent
  BY DEF Places, Commands, ACommands, DataCommands, Unsent
<1>2. /\ "GO_IDLE_STATE" \in Identification /\ "INQUIRY" \in Identification
      /\ "SEND_RELATIVE_ADDR" \notin Identification
      /\ "SEND_SCR" \notin Identification /\ "SET_BUS_WIDTH" \notin Identification
  BY DEF Identification
<1>3. CASE GoIdleState
  BY <1>1, <1>2, <1>3, StepIInv DEF GoIdleState
<1>4. CASE Inquiry
  BY <1>1, <1>2, <1>4, StepIInv DEF Inquiry
<1>5. CASE AllSendCid
  BY <1>1, <1>2, <1>5, StepIInv DEF AllSendCid
<1>6. CASE SetBlocklen
  BY <1>1, <1>2, <1>6, StepIInv DEF SetBlocklen
<1>7. CASE SendScr
  BY <1>1, <1>2, <1>7, StepIInv DEF SendScr
<1>8. QED
  BY <1>3, <1>4, <1>5, <1>6, <1>7

\* CMD8 and CMD5, where silence is an answer too.
LEMMA SilentIInv == ASSUME IInv, SendIfCond \/ IoSetOpCond PROVE IInv'
<1>1. /\ "IO_SET_OP_COND" \in Places \ {"DATA"} /\ "INQUIRY" \in Places \ {"DATA"}
      /\ "SEND_IF_COND" \in Commands /\ "IO_SET_OP_COND" \in Commands
      /\ "SEND_IF_COND" \in Identification /\ "IO_SET_OP_COND" \in Identification
      /\ "SEND_IF_COND" \notin Unsent /\ "IO_SET_OP_COND" \notin Unsent
  BY DEF Places, Commands, ACommands, DataCommands, Identification, Unsent
<1>2. CASE SendIfCond
  <2>1. PICK r \in Replies("SEND_IF_COND") :
          /\ Issued(r) /\ v2_later' = r.ok
          /\ Goto("IO_SET_OP_COND", Noted(r)) \/ InitFailed(Noted(r))
    BY <1>2 DEF SendIfCond, OnSilence
  <2>2. Noted(r) \in Devices /\ (Gone => Noted(r).removal)
    BY <1>1, NotedDevice DEF IInv
  <2>3. r.ok \in BOOLEAN
    BY <1>1, ReplyFacts DEF IInv
  <2>4. /\ pc = "SEND_IF_COND" /\ UNCHANGED <<host, swapped, noticed>> /\ Unmoved
        /\ v2_later' \in BOOLEAN
    BY <1>2, <2>1, <2>3 DEF SendIfCond, Here
  <2>5. InitStep
    BY <1>1, <2>1, <2>2, <2>4, InitCommand
  <2>6. QED
    BY <1>1, <2>4, <2>5, InitStepIInv
<1>3. CASE IoSetOpCond
  <2>1. PICK r \in Replies("IO_SET_OP_COND") :
          /\ Issued(r)
          /\ Goto("INQUIRY", Noted(r)) \/ InitFailed(Noted(r))
    BY <1>3 DEF IoSetOpCond, OnSilence
  <2>2. Noted(r) \in Devices /\ (Gone => Noted(r).removal)
    BY <1>1, NotedDevice DEF IInv
  <2>3. /\ pc = "IO_SET_OP_COND" /\ UNCHANGED <<host, swapped, noticed>> /\ Unmoved
        /\ v2_later' \in BOOLEAN
    BY <1>3 DEF IoSetOpCond, Here, IInv, TypeOK
  <2>4. InitStep
    BY <1>1, <2>1, <2>2, <2>3, InitCommand
  <2>5. QED
    BY <1>1, <2>3, <2>4, InitStepIInv
<1>4. QED
  BY <1>2, <1>3

\* ACMD41: the clock is raised when identification is over.
LEMMA OpCondIInv == ASSUME IInv, SendOpCond PROVE IInv'
<1> DEFINE s18 == v2_later /\ ~edev.failedSwitch /\ card.kind.s18
<1>1. PICK r \in Replies("OP_COND") :
        /\ Issued(r)
        /\ host' = IF r.ok /\ r.card.state = "ready" THEN DataClock ELSE host
        /\ IF ~r.ok THEN InitFailed(Noted(r))
           ELSE IF r.card.state # "ready" THEN Goto("OP_COND", Noted(r))
           ELSE Goto(IF s18 THEN "VOLTAGE_SWITCH" ELSE "ALL_SEND_CID",
                     [Noted(r) EXCEPT !.s18 = s18, !.sdhc = card.kind.sdhc])
  BY DEF SendOpCond
<1>2. /\ "OP_COND" \in Commands /\ "OP_COND" \in Places \ {"DATA"}
      /\ "OP_COND" \in Identification
      /\ {"VOLTAGE_SWITCH", "ALL_SEND_CID"} \subseteq Places \ {"DATA"}
      /\ "VOLTAGE_SWITCH" \notin Identification /\ "ALL_SEND_CID" \notin Identification
  BY DEF Places, Commands, ACommands, DataCommands, Identification
<1>3. Noted(r) \in Devices /\ (Gone => Noted(r).removal)
  BY <1>2, NotedDevice DEF IInv
<1>4. /\ pc = "OP_COND" /\ UNCHANGED <<v2_later, swapped, noticed>> /\ Unmoved
      /\ v2_later' \in BOOLEAN
  BY DEF SendOpCond, Here, IInv, TypeOK
<1>0. pc \notin Unsent
  BY <1>4 DEF Unsent
<1>5. CASE ~(r.ok /\ r.card.state = "ready")
  <2>1. InitStep
    BY <1>1, <1>2, <1>3, <1>4, <1>5, InitCommand
  <2>2. QED
    BY <1>0, <2>1, InitStepIInv
<1>6. CASE r.ok /\ r.card.state = "ready"
  <2> DEFINE d == [Noted(r) EXCEPT !.s18 = s18, !.sdhc = card.kind.sdhc]
             p == IF s18 THEN "VOLTAGE_SWITCH" ELSE "ALL_SEND_CID"
  <2>1. s18 \in BOOLEAN /\ card.kind.sdhc \in BOOLEAN
    BY ConstantsAssumption DEF IInv, TypeOK, Cards, Devices
  <2> HIDE DEF s18
  <2>2. d \in Devices /\ d.removal = Noted(r).removal
    BY <1>3, <2>1 DEF Devices
  <2>3. Goto(p, d) /\ host' = DataClock
    BY <1>1, <1>6
  <2>4. p \in Places \ {"DATA"} /\ p \notin Identification
    BY <1>2
  <2> HIDE DEF d, p
  <2>5. /\ edev' \in Devices /\ (Gone => edev'.removal) /\ pc' = p
        /\ result' \in {result, "error"} /\ gaveUp18' \in BOOLEAN
    BY <1>3, <2>2, <2>3, InitEnds DEF IInv
  <2>6. card' \in Cards /\ irpt' = FALSE
    BY <1>1, <1>2, ReplyFacts DEF IInv, Issued
  <2>7. registered' \in BOOLEAN
    BY <1>4 DEF Unmoved, IInv, TypeOK
  <2>8. InitStep
    BY <1>4, <2>3, <2>4, <2>5, <2>6, <2>7 DEF InitStep, Unmoved
  <2>9. QED
    BY <1>0, <2>8, InitStepIInv
<1>7. QED
  BY <1>5, <1>6

\* CMD11, whose failure starts the initialisation again.
LEMMA VoltageSwitchIInv == ASSUME IInv, VoltageSwitch PROVE IInv'
<1>1. PICK r \in Replies("VOLTAGE_SWITCH") :
        /\ Issued(r)
        /\ IF r.ok THEN Goto("ALL_SEND_CID", Noted(r))
           ELSE /\ edev' = [Noted(r) EXCEPT !.failedSwitch = TRUE]
                /\ pc' = "RESET" /\ gaveUp18' = TRUE /\ UNCHANGED result
  BY DEF VoltageSwitch
<1>2. /\ "VOLTAGE_SWITCH" \in Commands
      /\ "ALL_SEND_CID" \in Places \ {"DATA"} /\ "RESET" \in Places \ {"DATA"}
      /\ "ALL_SEND_CID" \notin Identification /\ "RESET" \notin Identification
  BY DEF Places, Commands, ACommands, DataCommands, Identification
<1>3. Noted(r) \in Devices /\ (Gone => Noted(r).removal)
  BY <1>2, NotedDevice DEF IInv
<1>4. /\ UNCHANGED <<host, swapped, noticed>> /\ Unmoved /\ v2_later' \in BOOLEAN
  BY DEF VoltageSwitch, IInv, TypeOK
<1>0. pc \notin Unsent
  BY DEF VoltageSwitch, Here, Unsent
<1>5. CASE r.ok
  <2>1. InitStep
    BY <1>1, <1>2, <1>3, <1>4, <1>5, InitCommand
  <2>2. QED
    BY <1>0, <2>1, InitStepIInv
<1>6. CASE ~r.ok
  <2>1. edev' \in Devices /\ (Gone => edev'.removal)
    BY <1>1, <1>3, <1>6 DEF Devices
  <2>2. card' \in Cards /\ irpt' = FALSE
    BY <1>1, <1>2, ReplyFacts DEF IInv, Issued
  <2>3. registered' \in BOOLEAN
    BY <1>4 DEF Unmoved, IInv, TypeOK
  <2>4. gaveUp18' \in BOOLEAN
    BY <1>1, <1>6
  <2>5. InitStep
    BY <1>1, <1>2, <1>4, <1>6, <2>1, <2>2, <2>3, <2>4 DEF InitStep, Unmoved
  <2>6. QED
    BY <1>0, <2>5, InitStepIInv
<1>7. QED
  BY <1>5, <1>6

\* CMD3 and CMD7: the card's address, and its selection.
LEMMA AddressIInv == ASSUME IInv, SendRelativeAddr \/ SelectInit PROVE IInv'
<1>1. /\ "SEND_RELATIVE_ADDR" \in Commands /\ "SELECT_CARD" \in Commands
      /\ {"SELECT_INIT", "SEND_SCR", "SET_BLOCKLEN"} \subseteq Places \ {"DATA"}
      /\ "SELECT_INIT" \notin Identification
      /\ "SEND_SCR" \notin Identification /\ "SET_BLOCKLEN" \notin Identification
  BY DEF Places, Commands, ACommands, DataCommands, Identification
<1>0. pc \notin Unsent
  BY DEF SendRelativeAddr, SelectInit, Here, Unsent
<1>2. CASE SendRelativeAddr
  <2>1. PICK r \in Replies("SEND_RELATIVE_ADDR") :
          /\ Issued(r)
          /\ \/ Goto("SELECT_INIT", [Noted(r) EXCEPT !.rca = TRUE])
             \/ InitFreed(Noted(r))
    BY <1>2 DEF SendRelativeAddr
  <2>2. Noted(r) \in Devices /\ (Gone => Noted(r).removal)
    BY <1>1, NotedDevice DEF IInv
  <2>3. /\ [Noted(r) EXCEPT !.rca = TRUE] \in Devices
        /\ Gone => [Noted(r) EXCEPT !.rca = TRUE].removal
    BY <2>2 DEF Devices
  <2>4. /\ UNCHANGED <<host, swapped, noticed>> /\ Unmoved /\ v2_later' \in BOOLEAN
    BY <1>2 DEF SendRelativeAddr, IInv, TypeOK
  <2>5. ASSUME Goto("SELECT_INIT", [Noted(r) EXCEPT !.rca = TRUE]) PROVE InitStep
    BY <1>1, <2>1, <2>3, <2>4, <2>5, InitCommand
  <2>6. ASSUME InitFreed(Noted(r)) PROVE InitStep
    BY <1>1, <2>1, <2>2, <2>4, <2>6, InitCommand
  <2>7. QED
    BY <1>0, <2>1, <2>5, <2>6, InitStepIInv
<1>3. CASE SelectInit
  <2>1. PICK r \in Replies("SELECT_CARD") :
          /\ Issued(r)
          /\ \/ InitFreed(Noted(r))
             \/ Goto("SEND_SCR", Noted(r)) \/ Goto("SET_BLOCKLEN", Noted(r))
    BY <1>3 DEF SelectInit
  <2>2. Noted(r) \in Devices /\ (Gone => Noted(r).removal)
    BY <1>1, NotedDevice DEF IInv
  <2>3. /\ UNCHANGED <<host, swapped, noticed>> /\ Unmoved /\ v2_later' \in BOOLEAN
    BY <1>3 DEF SelectInit, IInv, TypeOK
  <2>4. InitStep
    BY <1>1, <2>1, <2>2, <2>3, InitCommand
  <2>5. QED
    BY <1>0, <2>4, InitStepIInv
<1>4. QED
  BY <1>2, <1>3

\* ACMD6, the last command.
LEMMA SetBusWidthIInv == ASSUME IInv, SetBusWidth PROVE IInv'
<1>1. PICK r \in Replies("SET_BUS_WIDTH") :
        /\ Issued(r)
        /\ host' = IF r.ok THEN [host EXCEPT !.width = 4] ELSE host
        /\ Goto("RESET_INTERRUPT", Noted(r))
  BY DEF SetBusWidth
<1>2. "SET_BUS_WIDTH" \in Commands
  BY DEF Commands, ACommands
<1>3. Noted(r) \in Devices /\ (Gone => Noted(r).removal)
  BY <1>2, NotedDevice DEF IInv
<1>4. card' \in Cards /\ irpt' = FALSE
  BY <1>1, <1>2, ReplyFacts DEF IInv, Issued
<1>5. /\ edev' \in Devices /\ (Gone => edev'.removal) /\ pc' = "RESET_INTERRUPT"
      /\ result' = result /\ gaveUp18' \in BOOLEAN
  BY <1>1, <1>3 DEF Goto, IInv, TypeOK
<1>6. registered' \in BOOLEAN /\ v2_later' \in BOOLEAN
  BY DEF SetBusWidth, Unmoved, IInv, TypeOK
<1>7. pc' \in Places \ {"DATA"} /\ pc' \notin Identification
  BY <1>5 DEF Places, Identification
<1>8. UNCHANGED <<caller, op, tries, faulty, swapped, noticed>>
  BY DEF SetBusWidth, Unmoved
<1>9. UNCHANGED host \/ host' = [host EXCEPT !.width = 4]
  BY <1>1
<1>10. InitStep
  BY <1>4, <1>5, <1>6, <1>7, <1>8, <1>9 DEF InitStep
<1>11. pc \notin Unsent
  BY DEF SetBusWidth, Here, Unsent
<1>12. QED
  BY <1>10, <1>11, InitStepIInv

\* The end of the initialisation, where a removal may lose its mark.
LEMMA ResetInterruptIInv == ASSUME IInv, ResetInterrupt PROVE IInv'
<1> USE DEF IInv
<1>1. /\ UNCHANGED <<card, host, edev, v2_later, swapped, noticed, result, caller, op, tries, faulty>>
      /\ irpt' = FALSE /\ gaveUp18' = FALSE /\ pc = "RESET_INTERRUPT"
      /\ registered' = (registered \/ ~gaveUp18)
  BY DEF ResetInterrupt, Here
<1>2. pc' \in {"no_device", "ready", "SEND_STATUS", "RECHECK"}
  BY DEF ResetInterrupt, TypeOK
<1>3. pc' \in Places /\ pc' # "DATA" /\ pc' \notin Identification /\ pc' \in Unsent
  BY <1>2 DEF Places, Commands, ACommands, DataCommands, Identification, Unsent
<1>4. TypeOK'
  <2>1. irpt' \in BOOLEAN /\ registered' \in BOOLEAN /\ v2_later' \in BOOLEAN /\ gaveUp18' \in BOOLEAN
    BY <1>1 DEF TypeOK
  <2>2. faulty' \in BOOLEAN /\ swapped' \in BOOLEAN /\ noticed' \in BOOLEAN
    BY <1>1 DEF TypeOK
  <2>3. QED
    BY <1>1, <1>3, <2>1, <2>2 DEF TypeOK
<1>5. RemovalKnown'
  <2>1. pc \notin Unsent
    BY <1>1 DEF Unsent
  <2>2. noticed => edev.removal \/ Unaddressed
    BY <2>1 DEF RemovalKnown, Gone
  <2>3. Unaddressed' <=> Unaddressed
    BY <1>1 DEF Unaddressed
  <2>4. QED
    BY <1>1, <1>3, <2>2, <2>3 DEF RemovalKnown, Gone
<1>6. DataCommandInTran' /\ Clocked'
  BY <1>1, <1>3 DEF DataCommandInTran, Clocked
<1>7. QED
  BY <1>4, <1>5, <1>6

\* The reset of the controller and of the device: only here does the driver
\* forget a removal, and the clock is that of the identification.
LEMMA ResetIInv == ASSUME IInv, Reset PROVE IInv'
<1> USE DEF IInv
<1>1. card' \in Cards
  <2>1. card \in Cards
    BY DEF TypeOK
  <2>2. PowerCycled \in Cards /\ [card EXCEPT !.state = "off"] \in Cards
    BY <2>1 DEF Cards, PowerCycled
  <2>3. QED
    BY <2>1, <2>2 DEF Reset, PowerCycle
<1>2. /\ v2_later' = FALSE /\ UNCHANGED <<registered, caller, op, tries, faulty, swapped>>
      /\ registered' \in BOOLEAN /\ faulty' \in BOOLEAN /\ swapped' \in BOOLEAN
  BY DEF Reset, Unmoved, TypeOK
<1>3. CASE /\ irpt' = FALSE /\ noticed' = FALSE
           /\ \E base \in BaseClocks : host' = IdentificationClock(base)
           /\ Goto("GO_IDLE_STATE", PreparedDevice)
  <2>1. PICK base \in {BaseClock, AssumedClock} : host' = IdentificationClock(base)
    BY <1>3 DEF BaseClocks
  <2>2. host' = [width |-> 1, on |-> TRUE, base |-> base, divisor |-> Divisor(base, SD_CLOCK_ID)]
    BY <2>1 DEF IdentificationClock, NewHost
  <2>3. host' \in Hosts
    BY <2>1, <2>2 DEF Hosts, Divisors
  <2>4. edev' \in Devices /\ pc' = "GO_IDLE_STATE" /\ UNCHANGED <<result, gaveUp18>>
    BY <1>3 DEF Goto, PreparedDevice, NewDevice, Devices, Errors
  <2>5. gaveUp18' \in BOOLEAN
    BY <2>4 DEF TypeOK
  <2>6. "GO_IDLE_STATE" \in Places
    BY DEF Places, Commands, DataCommands
  <2>7. TypeOK'
    BY <1>1, <1>2, <1>3, <2>3, <2>4, <2>5, <2>6 DEF TypeOK
  <2>8. RemovalKnown' /\ DataCommandInTran'
    BY <1>3, <2>4 DEF RemovalKnown, DataCommandInTran
  <2>9. Clocked'
    BY <2>2, <2>4 DEF Clocked, Divisors
  <2>10. QED
    BY <2>7, <2>8, <2>9
<1>4. CASE InitFailed(edev) /\ host' = NewHost /\ UNCHANGED <<irpt, noticed>>
  <2>1. /\ edev' = edev /\ pc' \in {"no_device", "ready"}
        /\ result' \in {result, "error"} /\ gaveUp18' = FALSE
    BY <1>4 DEF InitFailed
  <2>2. host' \in Hosts /\ host'.on = FALSE
    BY <1>4 DEF NewHost, Hosts
  <2>3. irpt' \in BOOLEAN /\ noticed' \in BOOLEAN
    BY <1>4 DEF TypeOK
  <2>4. edev' \in Devices /\ pc' \in Places
    BY <2>1 DEF TypeOK, Places
  <2>5. TypeOK'
    BY <1>1, <1>2, <2>1, <2>2, <2>3, <2>4 DEF TypeOK
  <2>6. RemovalKnown' /\ DataCommandInTran'
    <3>1. Unaddressed => Unaddressed'
      <4>1. card \in Cards
        BY DEF TypeOK
      <4>2. card' \in {card, [card EXCEPT !.state = "off"], PowerCycled}
        BY DEF Reset, PowerCycle
      <4>3. card' = card \/ card'.state \in {"off", "idle"}
        BY <4>1, <4>2 DEF Cards, PowerCycled
      <4>4. QED
        BY <4>3 DEF Unaddressed
    <3>2. pc' \in Unsent /\ pc' # "DATA"
      BY <2>1 DEF Unsent
    <3>3. QED
      BY <1>4, <2>1, <3>1, <3>2 DEF RemovalKnown, Gone, DataCommandInTran
  <2>7. Clocked'
    BY <2>1, <2>2 DEF Clocked
  <2>8. QED
    BY <2>5, <2>6, <2>7
<1>5. QED
  BY <1>3, <1>4 DEF Reset

\* All of sd_card_init.
LEMMA InitialiseIInv == ASSUME IInv, Initialise PROVE IInv'
  BY ResetIInv, StepsIInv, SilentIInv, OpCondIInv, VoltageSwitchIInv, AddressIInv,
     SetBusWidthIInv, ResetInterruptIInv DEF Initialise

(***************************************************************************)
(* sd_ensure_data_mode and sd_do_data_command.                             *)
(***************************************************************************)

\* A reply to CMD13: it tells of the card as it is, and is given only by a card that
\* was addressed.
LEMMA StatusReply ==
  ASSUME TypeOK, NEW r \in Replies("SEND_STATUS")
  PROVE  /\ r.card = card
         /\ r.ok => card.present /\ host.on /\ ~Unaddressed
<1>1. Outcomes("SEND_STATUS") = {card} /\ Astray("SEND_STATUS") = {card}
  BY DEF Outcomes, After, Astray
<1>2. Obeys("SEND_STATUS") => card.present /\ ~Unaddressed
  BY DEF Obeys, Admits, Unaddressed
<1>3. r.card = card
  BY <1>1 DEF Replies, Answers
<1>4. r.ok => Obeys("SEND_STATUS") /\ host.on
  BY DEF Replies, Answers
<1>5. QED
  BY <1>2, <1>3, <1>4

\* What a command of a call does to the driver's state, however it ends.
CallStep ==
  /\ card' \in Cards /\ edev' \in Devices /\ irpt' = FALSE
  /\ Gone => edev'.removal
  /\ noticed => Gone \/ (Unaddressed' /\ pc' \in Unsent)
  /\ pc' \in Places \ Identification
  /\ pc' = "DATA" => host.on /\ (tries' = 0 /\ ~swapped' => card'.present /\ card'.state = "tran")
  /\ result' \in {"busy", "ok", "error", result}
  /\ Frame
  /\ caller' \in {caller, "again"} /\ tries' \in Nat /\ swapped' \in BOOLEAN

LEMMA CallStepIInv == ASSUME IInv, CallStep PROVE IInv'
<1> USE DEF IInv
<1>1. TypeOK'
  <2>1. irpt' \in BOOLEAN /\ swapped' \in BOOLEAN
    BY DEF CallStep
  <2>2. registered' \in BOOLEAN /\ v2_later' \in BOOLEAN /\ gaveUp18' \in BOOLEAN
    BY DEF CallStep, Frame, TypeOK
  <2>3. faulty' \in BOOLEAN /\ noticed' \in BOOLEAN
    BY DEF CallStep, Frame, TypeOK
  <2>4. /\ caller' \in {"boot", "top", "again"} /\ op' \in DataCommands /\ tries' \in Nat
        /\ result' \in {"none", "busy", "ok", "error"} /\ host' \in Hosts
    BY DEF CallStep, Frame, TypeOK
  <2>5. card' \in Cards /\ edev' \in Devices /\ pc' \in Places
    BY DEF CallStep
  <2>6. QED
    BY <2>1, <2>2, <2>3, <2>4, <2>5 DEF TypeOK
<1>2. RemovalKnown'
  BY DEF RemovalKnown, CallStep, Frame, Gone
<1>3. DataCommandInTran'
  BY DEF DataCommandInTran, CallStep
<1>4. Clocked'
  BY DEF Clocked, CallStep, Frame
<1>5. QED
  BY <1>1, <1>2, <1>3, <1>4

\* What ends a command of a call.
LEMMA CallEnds ==
  ASSUME TypeOK, NEW d \in Devices, Gone => d.removal
  PROVE  /\ GiveUp(d) => /\ edev' \in Devices /\ (Gone => edev'.removal)
                         /\ pc' = "ready" /\ result' = "error"
         /\ \A p : Proceed(p, d) => /\ edev' \in Devices /\ (Gone => edev'.removal)
                                    /\ pc' = p /\ result' = result
<1>1. [d EXCEPT !.rca = FALSE] \in Devices /\ [d EXCEPT !.rca = FALSE].removal = d.removal
  BY DEF Devices
<1>2. QED
  BY <1>1 DEF GiveUp, Proceed

\* CMD13 at the start of a call and after the card has been prepared.
LEMMA StatusIInv == ASSUME IInv, SendStatus \/ Recheck PROVE IInv'
<1>1. PICK r \in Replies("SEND_STATUS") :
        /\ Issued(r) /\ swapped' = (swapped /\ ~r.ok)
        /\ \/ GiveUp(Noted(r))
           \/ /\ r.ok
              /\ \E p \in {"DATA", "SELECT_CARD", "STOP_TRANSMISSION", "RESET"} :
                   Proceed(p, Noted(r)) /\ (p = "DATA" => r.card.state = "tran")
  <2>1. CASE SendStatus
    <3>1. PICK r \in Replies("SEND_STATUS") :
            /\ Issued(r) /\ swapped' = (swapped /\ ~r.ok)
            /\ IF ~r.ok THEN GiveUp(Noted(r)) ELSE Proceed(NextFor(r.card.state), Noted(r))
      BY <2>1 DEF SendStatus
    <3>2. /\ NextFor(r.card.state) \in {"DATA", "SELECT_CARD", "STOP_TRANSMISSION", "RESET"}
          /\ NextFor(r.card.state) = "DATA" => r.card.state = "tran"
      BY DEF NextFor
    <3>3. QED
      BY <3>1, <3>2
  <2>2. CASE Recheck
    BY <2>2 DEF Recheck
  <2>3. QED
    BY <2>1, <2>2
<1>2. "SEND_STATUS" \in Commands /\ TypeOK
  BY DEF Commands, IInv
<1>3. /\ card' \in Cards /\ irpt' = FALSE /\ card' = r.card
      /\ Noted(r) \in Devices /\ (Gone => Noted(r).removal)
  BY <1>1, <1>2, ReplyFacts, NotedDevice DEF Issued
<1>4. swapped' \in BOOLEAN
  BY <1>1, <1>2, ReplyFacts DEF TypeOK
<1>5. Frame /\ tries' = tries /\ caller' \in {caller, "again"} /\ tries' \in Nat
  BY DEF SendStatus, Recheck, IInv, TypeOK
<1>6. /\ edev' \in Devices /\ (Gone => edev'.removal)
      /\ pc' \in {"ready", "DATA", "SELECT_CARD", "STOP_TRANSMISSION", "RESET"}
      /\ result' \in {"error", result}
      /\ pc' = "DATA" => r.ok /\ r.card.state = "tran"
  BY <1>1, <1>2, <1>3, CallEnds
<1>7. pc' \in Places \ Identification
  BY <1>6 DEF Places, Commands, ACommands, DataCommands, Identification
<1>8. pc' = "DATA" => host.on /\ card'.present /\ card'.state = "tran"
  BY <1>2, <1>3, <1>6, StatusReply
<1>9. noticed => Gone \/ (Unaddressed' /\ pc' \in Unsent)
  <2>1. card' = card /\ (r.ok => ~Unaddressed)
    BY <1>2, <1>3, StatusReply
  <2>2. Unaddressed => pc' = "ready"
    BY <1>1, <2>1 DEF GiveUp
  <2>3. Unaddressed' <=> Unaddressed
    BY <2>1 DEF Unaddressed
  <2>4. QED
    BY <2>2, <2>3 DEF IInv, RemovalKnown, Unsent
<1>10. CallStep
  BY <1>3, <1>4, <1>5, <1>6, <1>7, <1>8, <1>9 DEF CallStep
<1>11. QED
  BY <1>10, CallStepIInv

\* Selecting the card or stopping its transmission.
LEMMA PrepareIInv == ASSUME IInv, SelectCard \/ StopTransmission PROVE IInv'
<1>1. PICK c \in {"SELECT_CARD", "STOP_TRANSMISSION"} : Prepare(c)
  BY DEF SelectCard, StopTransmission
<1>2. PICK r \in Replies(c) :
        Issued(r) /\ (Proceed("RECHECK", Noted(r)) \/ GiveUp(Noted(r)))
  BY <1>1 DEF Prepare
<1>3. c \in Commands /\ TypeOK
  BY DEF Commands, ACommands, IInv
<1>4. /\ card' \in Cards /\ irpt' = FALSE
      /\ Noted(r) \in Devices /\ (Gone => Noted(r).removal)
  BY <1>2, <1>3, ReplyFacts, NotedDevice DEF Issued
<1>5. /\ edev' \in Devices /\ (Gone => edev'.removal) /\ pc' \in {"ready", "RECHECK"}
      /\ result' \in {"error", result}
  BY <1>2, <1>3, <1>4, CallEnds
<1>6. pc' \in Places \ Identification /\ pc' # "DATA"
  BY <1>5 DEF Places, Identification
<1>7. /\ Frame /\ caller' \in {caller, "again"} /\ tries' \in Nat
      /\ swapped' \in BOOLEAN
  BY <1>1 DEF Prepare, IInv, TypeOK
<1>8. noticed => Gone
  BY <1>1 DEF Prepare, Here, IInv, RemovalKnown, Unsent
<1>9. CallStep
  BY <1>4, <1>5, <1>6, <1>7, <1>8 DEF CallStep
<1>10. QED
  BY <1>9, CallStepIInv

\* The data command, and its repetition.
LEMMA DataCommandIInv == ASSUME IInv, DataCommand PROVE IInv'
<1>1. PICK r \in Replies(op) :
        /\ Issued(r)
        /\ \/ edev' = Noted(r) /\ pc' = "ready" /\ result' = "ok" /\ UNCHANGED tries
           \/ /\ tries' = tries + 1
              /\ Proceed("DATA", Noted(r)) \/ GiveUp(Noted(r))
  BY DEF DataCommand
<1>2. op \in Commands /\ TypeOK /\ tries \in Nat
  BY DEF Commands, DataCommands, IInv, TypeOK
<1>3. /\ card' \in Cards /\ irpt' = FALSE
      /\ Noted(r) \in Devices /\ (Gone => Noted(r).removal)
  BY <1>1, <1>2, ReplyFacts, NotedDevice DEF Issued
<1>4. /\ edev' \in Devices /\ (Gone => edev'.removal) /\ pc' \in {"ready", "DATA"}
      /\ result' \in {"ok", "error", result} /\ tries' \in Nat
      /\ pc' = "DATA" => tries' # 0
  BY <1>1, <1>2, <1>3, CallEnds
<1>5. pc' \in Places \ Identification
  BY <1>4 DEF Places, Identification
<1>6. Frame /\ caller' \in {caller, "again"} /\ swapped' \in BOOLEAN
  BY DEF DataCommand, IInv, TypeOK
<1>7. host.on
  BY DEF DataCommand, Here, IInv, Clocked
<1>8. noticed => Gone
  BY DEF DataCommand, Here, IInv, RemovalKnown, Unsent
<1>9. CallStep
  BY <1>3, <1>4, <1>5, <1>6, <1>7, <1>8 DEF CallStep
<1>10. QED
  BY <1>9, CallStepIInv

\* sd_read and sd_write.
LEMMA CallIInv == ASSUME IInv, NEW c \in DataCommands, Call(c) PROVE IInv'
<1> USE DEF IInv
<1>1. /\ op' = c /\ tries' = 0 /\ result' = "busy" /\ pc' \in {"SEND_STATUS", "RESET"}
      /\ caller' \in {caller, "top"}
      /\ UNCHANGED <<card, irpt, host, edev, registered, v2_later, faulty, swapped,
                     noticed, gaveUp18>>
  BY DEF Call, slot
<1>2. pc' \in Places
  BY <1>1 DEF Places, Commands, DataCommands
<1>3. TypeOK'
  <2>1. /\ irpt' \in BOOLEAN /\ registered' \in BOOLEAN /\ v2_later' \in BOOLEAN
        /\ faulty' \in BOOLEAN
    BY <1>1 DEF TypeOK
  <2>2. swapped' \in BOOLEAN /\ noticed' \in BOOLEAN /\ gaveUp18' \in BOOLEAN
    BY <1>1 DEF TypeOK
  <2>3. QED
    BY <1>1, <1>2, <2>1, <2>2 DEF TypeOK
<1>4. RemovalKnown' /\ DataCommandInTran'
  <2>1. pc' \in Unsent /\ (Unaddressed' <=> Unaddressed)
    BY <1>1 DEF Unsent, Unaddressed
  <2>2. QED
    BY <1>1, <2>1 DEF RemovalKnown, Gone, DataCommandInTran
<1>5. Clocked'
  BY <1>1 DEF Clocked, Identification
<1>6. QED
  BY <1>3, <1>4, <1>5

(***************************************************************************)
(* The slot, and the whole.                                                *)
(***************************************************************************)

\* The card is taken out, put in, powers up or programs on its own.
LEMMA SlotIInv == ASSUME IInv, Slot PROVE IInv'
<1> USE DEF IInv
<1>1. card \in Cards
  BY DEF TypeOK
<1>2. /\ UNCHANGED <<host, edev, registered, pc, caller, v2_later, op, tries, result, gaveUp18>>
      /\ registered' \in BOOLEAN /\ v2_later' \in BOOLEAN /\ gaveUp18' \in BOOLEAN
  <2>1. UNCHANGED <<host, edev, registered, pc, locals, result, gaveUp18>>
    BY DEF Slot, Remove, Insert, PowerUp, Programmed, FaultsEnd, slot
  <2>2. UNCHANGED <<caller, v2_later, op, tries>>
    BY <2>1 DEF locals
  <2>3. registered' \in BOOLEAN /\ v2_later' \in BOOLEAN /\ gaveUp18' \in BOOLEAN
    BY <2>1, <2>2 DEF TypeOK
  <2>4. QED
    BY <2>1, <2>2, <2>3
\* What the cases leave to show.
<1>3. ASSUME card' \in Cards, irpt' \in BOOLEAN, faulty' \in BOOLEAN,
             swapped' \in BOOLEAN, noticed' \in BOOLEAN, RemovalKnown', DataCommandInTran'
      PROVE  IInv'
  <2>1. Clocked'
    BY <1>2 DEF Clocked
  <2>2. TypeOK'
    <3>1. irpt' \in BOOLEAN /\ faulty' \in BOOLEAN /\ swapped' \in BOOLEAN /\ noticed' \in BOOLEAN
      BY <1>3
    <3>2. QED
      BY <1>2, <1>3, <3>1 DEF TypeOK
  <2>3. QED
    BY <1>3, <2>1, <2>2
<1>4. CASE Remove
  <2>1. /\ card' = [card EXCEPT !.present = FALSE] /\ irpt' \in {irpt, TRUE}
        /\ swapped' = TRUE /\ noticed' = (noticed \/ irpt') /\ faulty' = faulty
    BY <1>4 DEF Remove
  <2>2. card' \in Cards
    BY <1>1, <2>1 DEF Cards
  <2>3. irpt' \in BOOLEAN /\ faulty' \in BOOLEAN /\ swapped' \in BOOLEAN
    BY <2>1 DEF TypeOK
  <2>4. noticed' \in BOOLEAN
    BY <2>1, <2>3 DEF TypeOK
  <2>5. RemovalKnown'
    <3>1. Unaddressed'
      BY <1>1, <2>1 DEF Unaddressed, Cards
    <3>2. QED
      BY <1>2, <2>1, <2>3, <3>1 DEF RemovalKnown, Gone
  <2>6. DataCommandInTran'
    BY <2>1 DEF DataCommandInTran
  <2>7. QED
    BY <1>3, <2>2, <2>3, <2>4, <2>5, <2>6
<1>5. CASE Insert
  <2>1. PICK k \in Kinds :
          card' = [present |-> TRUE, kind |-> k, width |-> 1, poweringUp |-> TRUE,
                   state |-> IF card.state = "off" THEN "off" ELSE "idle"]
    BY <1>5 DEF Insert
  <2>2. card' \in Cards
    BY <2>1 DEF Cards
  <2>3. ~card.present /\ UNCHANGED <<irpt, faulty, swapped, noticed>>
    BY <1>5 DEF Insert
  <2>4. irpt' \in BOOLEAN /\ faulty' \in BOOLEAN /\ swapped' \in BOOLEAN /\ noticed' \in BOOLEAN
    BY <2>3 DEF TypeOK
  <2>5. RemovalKnown' /\ DataCommandInTran'
    <3>1. Unaddressed'
      BY <2>1 DEF Unaddressed
    <3>2. QED
      BY <1>2, <2>3, <3>1 DEF RemovalKnown, Gone, DataCommandInTran
  <2>6. QED
    BY <1>3, <2>2, <2>4, <2>5
<1>6. CASE PowerUp \/ Programmed \/ FaultsEnd
  <2>1. UNCHANGED <<irpt, swapped, noticed>> /\ faulty' \in {faulty, FALSE}
    BY <1>6 DEF PowerUp, Programmed, FaultsEnd, slot
  <2>2. /\ card' \in Cards /\ card'.present = card.present
        /\ card'.state = card.state \/ (card.present /\ card.state = "prg" /\ card'.state = "tran")
    BY <1>1, <1>6 DEF PowerUp, Programmed, FaultsEnd, slot, Cards
  <2>3. irpt' \in BOOLEAN /\ swapped' \in BOOLEAN /\ noticed' \in BOOLEAN
    BY <2>1 DEF TypeOK
  <2>4. faulty' \in BOOLEAN
    BY <2>1 DEF TypeOK
  <2>5. RemovalKnown' /\ DataCommandInTran'
    <3>1. Unaddressed => Unaddressed'
      BY <2>2 DEF Unaddressed
    <3>2. QED
      BY <1>2, <2>1, <2>2, <3>1 DEF RemovalKnown, Gone, DataCommandInTran
  <2>6. QED
    BY <1>3, <2>2, <2>3, <2>4, <2>5
<1>7. QED
  BY <1>4, <1>5, <1>6 DEF Slot

\* The initial states satisfy the inductive invariant.
LEMMA InitIInv == Init => IInv
<1> SUFFICES ASSUME Init PROVE IInv
  OBVIOUS
<1>1. card \in Cards
  BY DEF Init, Cards
<1>2. edev \in Devices
  BY DEF Init, NewDevice, Devices, Errors
<1>3. host \in Hosts /\ host.on = FALSE
  BY DEF Init, NewHost, Hosts
<1>4. irpt \in BOOLEAN /\ registered \in BOOLEAN /\ v2_later \in BOOLEAN /\ faulty \in BOOLEAN
  BY DEF Init
<1>5. swapped \in BOOLEAN /\ noticed \in BOOLEAN /\ gaveUp18 \in BOOLEAN
  BY DEF Init
<1>6. pc \in Places /\ caller \in {"boot", "top", "again"} /\ op \in DataCommands
  BY DEF Init, Places, DataCommands
<1>7. tries \in Nat /\ result \in {"none", "busy", "ok", "error"}
  BY DEF Init
<1>8. TypeOK
  BY <1>1, <1>2, <1>3, <1>4, <1>5, <1>6, <1>7 DEF TypeOK
<1>9. RemovalKnown /\ DataCommandInTran /\ Clocked
  BY <1>3 DEF Init, RemovalKnown, DataCommandInTran, Clocked
<1>10. QED
  BY <1>8, <1>9 DEF IInv

\* A step that changes nothing.
LEMMA StutterIInv == ASSUME IInv, UNCHANGED vars PROVE IInv'
<1> USE DEF IInv, vars
<1>1. irpt' \in BOOLEAN /\ registered' \in BOOLEAN /\ v2_later' \in BOOLEAN /\ faulty' \in BOOLEAN
  BY DEF TypeOK
<1>2. swapped' \in BOOLEAN /\ noticed' \in BOOLEAN /\ gaveUp18' \in BOOLEAN
  BY DEF TypeOK
<1>3. TypeOK'
  BY <1>1, <1>2 DEF TypeOK
<1>4. RemovalKnown' /\ DataCommandInTran' /\ Clocked'
  BY DEF RemovalKnown, Gone, Unaddressed, DataCommandInTran, Clocked
<1>5. QED
  BY <1>3, <1>4

\* Every step of the driver, its callers and the slot preserves the invariant.
LEMMA NextIInv == IInv /\ [Next]_vars => IInv'
<1> SUFFICES ASSUME IInv, [Next]_vars PROVE IInv'
  OBVIOUS
<1>1. CASE Driver
  BY <1>1, InitialiseIInv, StatusIInv, PrepareIInv, DataCommandIInv DEF Driver
<1>2. CASE Calls
  BY <1>2, CallIInv DEF Calls
<1>3. CASE Slot
  BY <1>3, SlotIInv
<1>4. CASE UNCHANGED vars
  BY <1>4, StutterIInv
<1>5. QED
  BY <1>1, <1>2, <1>3, <1>4 DEF Next

LEMMA InvariantIInv == Spec => []IInv
<1>1. Init => IInv
  BY InitIInv
<1>2. IInv /\ [Next]_vars => IInv'
  BY NextIInv
<1>3. QED
  BY <1>1, <1>2, PTL DEF Spec

-------------------------------------------------------------------------------

\* sd_ensure_data_mode: the first data command of a call finds the card in the
\* transfer state, whatever earlier calls and commands that failed have left it in.
THEOREM DataModeEnsured == Spec => []DataCommandInTran
<1>1. IInv => DataCommandInTran
  BY DEF IInv
<1>2. QED
  BY <1>1, InvariantIInv, PTL

\* Only a data command makes a call succeed, and it is not issued when a removal
\* is known of.
LEMMA SucceedsUnremoved ==
  ASSUME IInv, Next, result # "ok", result' = "ok"
  PROVE  ~Gone /\ pc = "DATA"
<1>1. CASE DataCommand
  <2>1. PICK r \in Replies(op) : r.ok \/ Proceed("DATA", Noted(r)) \/ GiveUp(Noted(r))
    BY <1>1 DEF DataCommand
  <2>2. r.ok
    BY <2>1 DEF Proceed, GiveUp
  <2>3. op \in Commands /\ TypeOK
    BY DEF Commands, IInv, TypeOK, DataCommands
  <2>4. QED
    BY <1>1, <2>2, <2>3, ReplyFacts DEF DataCommand, Here
<1>2. CASE Initialise
  <2>1. \A d : InitFailed(d) \/ InitFreed(d) => result' \in {result, "error"}
    BY DEF InitFailed, InitFreed
  <2>2. \A p, d : Goto(p, d) => result' = result
    BY DEF Goto
  <2>3. result' \in {result, "error"}
    <3>1. CASE Reset
      BY <2>1, <2>2, <3>1 DEF Reset
    <3>2. CASE GoIdleState \/ Inquiry \/ AllSendCid \/ SetBlocklen \/ SendScr
      BY <2>1, <2>2, <3>2 DEF GoIdleState, Inquiry, AllSendCid, SetBlocklen, SendScr, Step
    <3>3. CASE SendIfCond \/ IoSetOpCond
      BY <2>1, <2>2, <3>3 DEF SendIfCond, IoSetOpCond, OnSilence
    <3>4. CASE SendOpCond
      BY <2>1, <2>2, <3>4 DEF SendOpCond
    <3>5. CASE VoltageSwitch
      BY <2>1, <2>2, <3>5 DEF VoltageSwitch
    <3>6. CASE SendRelativeAddr \/ SelectInit
      BY <2>1, <2>2, <3>6 DEF SendRelativeAddr, SelectInit
    <3>7. CASE SetBusWidth \/ ResetInterrupt
      BY <2>2, <3>7 DEF SetBusWidth, ResetInterrupt
    <3>8. QED
      BY <1>2, <3>1, <3>2, <3>3, <3>4, <3>5, <3>6, <3>7 DEF Initialise
  <2>4. QED
    BY <2>3
<1>3. CASE SendStatus \/ SelectCard \/ StopTransmission \/ Recheck
  <2>1. result' \in {result, "error"}
    BY <1>3 DEF SendStatus, SelectCard, StopTransmission, Recheck, Prepare, GiveUp, Proceed
  <2>2. QED
    BY <2>1
<1>4. CASE Calls
  BY <1>4 DEF Calls, Call
<1>5. CASE Slot
  BY <1>5 DEF Slot, Remove, Insert, PowerUp, Programmed, FaultsEnd
<1>6. QED
  BY <1>1, <1>2, <1>3, <1>4, <1>5 DEF Next, Driver

\* Once the controller has noticed a removal, no call succeeds before the card has
\* been initialised again.
THEOREM RemovalIsFinal == Spec => RemovalStopsData
<1>1. IInv /\ [Next]_vars =>
        [noticed /\ pc # "RESET" => result' # "ok" \/ result = "ok"]_vars
  BY SucceedsUnremoved DEF IInv, RemovalKnown, Unsent
<1>2. QED
  BY <1>1, InvariantIInv, PTL DEF Spec, RemovalStopsData

(***************************************************************************)
(* The rate of the SD clock.                                               *)
(***************************************************************************)

\* The powers of two up to twice the largest value of the register's ten bits.
Small == {1, 2, 4, 8, 16, 32, 64, 128, 256, 512, 1024, 2048}

\* They are the smallest powers of two there are.
LEMMA PowersOfTwo ==
  Small \subseteq Pow2 /\ \A p \in Pow2 : p \in Small \/ (p \in Nat /\ p >= 4096)
<1> DEFINE F(b) == 2^b
<1>1. /\ F(0) = 1 /\ F(1) = 2 /\ F(2) = 4 /\ F(3) = 8 /\ F(4) = 16 /\ F(5) = 32 /\ F(6) = 64
      /\ F(7) = 128 /\ F(8) = 256 /\ F(9) = 512 /\ F(10) = 1024 /\ F(11) = 2048
  OBVIOUS
<1>2. /\ F(12) = 4096 /\ F(13) = 8192 /\ F(14) = 16384 /\ F(15) = 32768 /\ F(16) = 65536
      /\ F(17) = 131072 /\ F(18) = 262144 /\ F(19) = 524288 /\ F(20) = 1048576
      /\ F(21) = 2097152 /\ F(22) = 4194304 /\ F(23) = 8388608 /\ F(24) = 16777216
      /\ F(25) = 33554432 /\ F(26) = 67108864 /\ F(27) = 134217728
      /\ F(28) = 268435456 /\ F(29) = 536870912 /\ F(30) = 1073741824
  OBVIOUS
<1>3. Pow2 = {F(b) : b \in 0 .. 30}
  BY DEF Pow2
<1> HIDE DEF F
<1>4. Small \subseteq Pow2
  BY <1>1, <1>3 DEF Small
<1>5. \A b \in 0 .. 11 : F(b) \in Small
  BY <1>1 DEF Small
<1>6. \A b \in 12 .. 30 : F(b) \in Nat /\ F(b) >= 4096
  BY <1>2
<1>7. QED
  BY <1>3, <1>4, <1>5, <1>6

\* A divisor within the register's range is rounded up to a power of two there.
LEMMA Rounding ==
  ASSUME NEW n \in Nat, 1 <= n, n <= 2046
  PROVE  /\ RoundedUp(n) \in Pow2 /\ RoundedUp(n) \in Small
         /\ n <= RoundedUp(n)
<1> DEFINE Fits(p) == n <= p /\ p < 2 * n
<1>1. \E p \in Small : Fits(p)
  <2>1. n = 1 => Fits(1)
    OBVIOUS
  <2>2. /\ 2 <= n /\ n <= 2 => Fits(2)
        /\ 3 <= n /\ n <= 4 => Fits(4)
        /\ 5 <= n /\ n <= 8 => Fits(8)
        /\ 9 <= n /\ n <= 16 => Fits(16)
        /\ 17 <= n /\ n <= 32 => Fits(32)
        /\ 33 <= n /\ n <= 64 => Fits(64)
        /\ 65 <= n /\ n <= 128 => Fits(128)
        /\ 129 <= n /\ n <= 256 => Fits(256)
        /\ 257 <= n /\ n <= 512 => Fits(512)
        /\ 513 <= n /\ n <= 1024 => Fits(1024)
        /\ 1025 <= n /\ n <= 2046 => Fits(2048)
    OBVIOUS
  <2>3. QED
    BY <2>1, <2>2 DEF Small
<1>2. \E p \in Pow2 : Fits(p)
  BY <1>1, PowersOfTwo
<1>3. RoundedUp(n) \in Pow2 /\ Fits(RoundedUp(n))
  BY <1>2 DEF RoundedUp
<1>4. RoundedUp(n) \in Small
  BY <1>3, PowersOfTwo
<1>5. QED
  BY <1>3, <1>4

\* The base clocks for which sd_get_clock_divider does not make the SD clock faster
\* than the rate: the quotient has no remainder, or its decrement is made up for
\* by the rounding to a power of two, or ends at 0 (the slowest divider).
Divides(base, rate) ==
  \/ rate > base
  \/ base % rate = 0
  \/ base \div rate = 1
  \/ {base \div rate, base \div rate - 1} \cap Pow2 = {}

\* For those sd_get_clock_divider finds a divisor that is large enough.
LEMMA DivisorFits ==
  ASSUME NEW base \in Nat, NEW rate \in {SD_CLOCK_ID, SD_CLOCK_NORMAL},
         base > 0, base <= 2046 * SD_CLOCK_ID, Divides(base, rate)
  PROVE  /\ Denominator(Divisor(base, rate)) \in Nat
         /\ base <= Denominator(Divisor(base, rate)) * rate
<1> DEFINE q == base \div rate
           n == TargettedDivisor(base, rate)
           p == RoundedUp(n)
<1>1. rate \in {4, 250} /\ base <= 8184
  BY DEF SD_CLOCK_ID, SD_CLOCK_NORMAL
<1>2. rate <= base => /\ q \in Nat /\ 1 <= q /\ q <= 2046 /\ base < (q + 1) * rate
                      /\ base % rate = 0 => base = q * rate
  BY <1>1
<1>3. CASE rate <= base /\ base % rate # 0 /\ q = 1
  <2>1. n = 0
    BY <1>1, <1>3 DEF TargettedDivisor
  <2>2. p = 2^30 /\ 2^30 \div 2 >= 1024
    BY <2>1 DEF RoundedUp
  <2>3. Divisor(base, rate) = 1023
    BY <2>2 DEF Divisor
  <2>4. QED
    BY <1>1, <1>2, <1>3, <2>3 DEF Denominator
<1>4. CASE ~(rate <= base /\ base % rate # 0 /\ q = 1)
  <2>1. n \in Nat /\ 1 <= n /\ n <= 2046
    <3>1. CASE rate > base \/ base % rate = 0
      <4>1. n = IF rate > base THEN 1 ELSE q
        BY <1>1, <3>1 DEF TargettedDivisor
      <4>2. QED
        BY <1>1, <1>2, <4>1
    <3>2. CASE rate <= base /\ base % rate # 0 /\ {q, q - 1} \cap Pow2 = {}
      <4>1. n = q - 1
        BY <1>1, <3>2 DEF TargettedDivisor
      <4>2. q # 1
        BY <3>2, PowersOfTwo DEF Small
      <4>3. QED
        BY <1>2, <3>2, <4>1, <4>2
    <3>3. QED
      BY <1>1, <1>4, <3>1, <3>2 DEF Divides
  <2>2. p \in Pow2 /\ p \in Small /\ n <= p
    <3> HIDE DEF n
    <3>1. QED
      BY <2>1, Rounding
  <2>3. base <= p * rate
    <3>1. p \in Nat
      BY <2>2 DEF Small
    <3>2. CASE rate > base
      <4>1. n = 1
        BY <3>2 DEF TargettedDivisor
      <4>2. QED
        BY <1>1, <2>2, <3>1, <3>2, <4>1
    <3>3. CASE rate <= base /\ base % rate = 0
      <4>1. n = q
        BY <1>1, <1>2, <3>3 DEF TargettedDivisor
      <4>2. QED
        BY <1>1, <1>2, <2>2, <3>1, <3>3, <4>1
    <3>4. CASE rate <= base /\ base % rate # 0 /\ {q, q - 1} \cap Pow2 = {}
      <4>1. n = q - 1
        BY <1>1, <3>4 DEF TargettedDivisor
      <4>2. p # q /\ p # q - 1
        BY <2>2, <3>4
      <4>3. p >= q + 1
        <5>1. q \in Nat
          BY SMTT(30), <1>2, <3>4
        <5> HIDE DEF p, q, n
        <5>2. QED
          BY <2>2, <3>1, <4>1, <4>2, <5>1
      <4>4. QED
        BY <1>1, <1>2, <3>1, <3>4, <4>3
    <3>5. QED
      BY <1>1, <1>4, <3>2, <3>3, <3>4 DEF Divides
  <2>4. Denominator(Divisor(base, rate)) = IF p = 2048 THEN 2046 ELSE p
    <3>1. Divisor(base, rate) = IF p \div 2 >= 1024 THEN 1023 ELSE p \div 2
      BY DEF Divisor
    <3> HIDE DEF p
    <3>2. QED
      BY <2>2, <3>1 DEF Denominator, Small
  <2>5. QED
    BY <1>1, <2>2, <2>3, <2>4 DEF Small
<1>5. QED
  BY <1>3, <1>4

\* No card is clocked faster than it bears, for any base clock that the divider
\* of ten bits can bring down to SD_CLOCK_ID and whose quotients the driver
\* rounds as it should.
THEOREM ClockNeverTooFast ==
  ASSUME BaseClock <= 2046 * SD_CLOCK_ID,
         Divides(BaseClock, SD_CLOCK_ID), Divides(BaseClock, SD_CLOCK_NORMAL)
  PROVE  Spec => []ClockFits
<1>1. ASSUME IInv PROVE ClockFits
  <2> DEFINE low  == Denominator(Divisor(BaseClock, SD_CLOCK_ID))
             high == Denominator(Divisor(BaseClock, SD_CLOCK_NORMAL))
  <2>1. low \in Nat /\ BaseClock <= low * SD_CLOCK_ID
    BY DivisorFits, ConstantsAssumption
  <2>2. high \in Nat /\ BaseClock <= high * SD_CLOCK_NORMAL
    BY DivisorFits, ConstantsAssumption
  <2>3. BaseClock <= low * SD_CLOCK_NORMAL
    <3> HIDE DEF low
    <3>1. QED
      BY <2>1, ConstantsAssumption DEF SD_CLOCK_ID, SD_CLOCK_NORMAL
  <2>4. ASSUME host.on, host.base = BaseClock
        PROVE  BaseClock <= Denominator(host.divisor) *
                 IF pc \in Identification THEN SD_CLOCK_ID ELSE SD_CLOCK_NORMAL
    BY <1>1, <2>1, <2>2, <2>3, <2>4 DEF IInv, Clocked, Divisors
  <2>5. pc = "DATA" => host.on
    BY <1>1 DEF IInv, Clocked
  <2>6. QED
    BY <2>4, <2>5 DEF ClockFits
<1>2. QED
  BY <1>1, InvariantIInv, PTL

(***************************************************************************)
(* The waits of the driver: a clock of any size.                           *)
(***************************************************************************)
\* Below the wrap, the arithmetic of the clock is that of the integers.
LEMMA BelowWrap == ASSUME NEW n \in Nat, n < Clock PROVE n % Clock = n
  BY ClockAssumption

\* The initial states satisfy the inductive invariant.
LEMMA TimerInitIInv == TimerInit => TimerIInv
<1> SUFFICES ASSUME TimerInit PROVE TimerIInv
  OBVIOUS
<1>1. 0 \in 0 .. Delay /\ 0 \in 0 .. 2 * Clock
  BY ClockAssumption
<1>2. TimerTypeOK
  <2>1. condition \in BOOLEAN
    BY DEF TimerInit
  <2>2. tw \in [trigger_value : Int, rollover : BOOLEAN]
    BY DEF TimerInit, None
  <2>3. /\ stage \in {"idle", "check", "compare"} /\ again \in {"check", "compare"}
        /\ ended \in {"none", "condition", "timeout"}
    BY DEF TimerInit
  <2>4. clock \in 0 .. Clock - 1 /\ usec \in Int /\ started \in 0 .. Clock - 1
    BY ClockAssumption DEF TimerInit
  <2>5. unpolled \in 0 .. Delay /\ elapsed \in 0 .. 2 * Clock
    BY <1>1 DEF TimerInit
  <2>6. QED
    BY <2>1, <2>2, <2>3, <2>4, <2>5 DEF TimerTypeOK
<1>3. Waiting /\ TimedOutInTime
  BY DEF TimerInit, Waiting, TimedOutInTime
<1>4. QED
  BY <1>2, <1>3 DEF TimerIInv

\* What register_timer makes of a wait: 0, the sum, or a wait for the wrap.
LEMMA RegisteredTimer ==
  ASSUME NEW u \in Sleeps, clock \in 0 .. Clock - 1
  PROVE  /\ register_timer(u) \in [trigger_value : Int, rollover : BOOLEAN]
         /\ u < 0 \/ clock = 0 \/ clock + u = Clock => register_timer(u).trigger_value = 0
         /\ clock > 0 /\ u > 0 /\ clock + u < Clock =>
              register_timer(u).trigger_value = clock + u /\ ~register_timer(u).rollover
         /\ clock > 0 /\ (u = 0 \/ clock + u > Clock) =>
              register_timer(u).trigger_value # 0 /\ register_timer(u).rollover
<1>1. u \in Int /\ u < Clock /\ Clock \in Nat /\ clock \in Nat /\ clock < Clock
  BY ClockAssumption
<1>2. CASE u < 0
  <2>1. register_timer(u) = None
    BY <1>2 DEF register_timer
  <2>2. QED
    BY <1>1, <1>2, <2>1 DEF None
<1>3. CASE u >= 0 /\ clock = 0
  <2>1. register_timer(u) = [trigger_value |-> 0, rollover |-> 0 <= clock]
    BY <1>1, <1>3 DEF register_timer
  <2>2. (0 <= clock) = TRUE
    BY <1>3
  <2>3. register_timer(u) = [trigger_value |-> 0, rollover |-> TRUE]
    BY <2>1, <2>2
  <2>4. QED
    BY <1>3, <2>3
<1>4. CASE u >= 0 /\ clock > 0 /\ clock + u < Clock
  <2>1. (clock + u) % Clock = clock + u
    BY <1>1, <1>4, BelowWrap
  <2>2. register_timer(u) = [trigger_value |-> clock + u, rollover |-> clock + u <= clock]
    BY <1>1, <1>4, <2>1 DEF register_timer
  <2>3. clock + u \in Int /\ clock + u # 0 /\ clock + u # Clock /\ ~(clock + u > Clock)
    BY <1>1, <1>4
  <2>4. CASE u = 0
    <3>1. (clock + u <= clock) = TRUE
      BY <1>1, <2>4
    <3>2. register_timer(u) = [trigger_value |-> clock + u, rollover |-> TRUE]
      BY <2>2, <3>1
    <3>3. /\ register_timer(u) \in [trigger_value : Int, rollover : BOOLEAN]
          /\ register_timer(u).trigger_value = clock + u
          /\ register_timer(u).rollover
      BY <2>3, <3>2
    <3>4. QED
      BY <1>1, <1>4, <2>3, <2>4, <3>3
  <2>5. CASE u > 0
    <3>1. (clock + u <= clock) = FALSE
      BY <1>1, <2>5
    <3>2. register_timer(u) = [trigger_value |-> clock + u, rollover |-> FALSE]
      BY <2>2, <3>1
    <3>3. /\ register_timer(u) \in [trigger_value : Int, rollover : BOOLEAN]
          /\ register_timer(u).trigger_value = clock + u
          /\ ~register_timer(u).rollover
      BY <2>3, <3>2
    <3>4. QED
      BY <1>1, <1>4, <2>3, <2>5, <3>3
  <2>6. QED
    BY <1>1, <1>4, <2>4, <2>5
<1>5. CASE u >= 0 /\ clock > 0 /\ clock + u >= Clock
  <2>1. (clock + u) % Clock = clock + u - Clock
    BY ONLY <1>1, <1>5
  <2>2. /\ clock + u - Clock \in Int /\ (clock + u - Clock <= clock) = TRUE
        /\ clock + u = Clock => clock + u - Clock = 0
        /\ clock + u > Clock => clock + u - Clock # 0
        /\ u # 0 /\ ~(clock + u < Clock)
    BY <1>1, <1>5
  <2>3. register_timer(u) = [trigger_value |-> clock + u - Clock, rollover |-> clock + u - Clock <= clock]
    BY <1>1, <1>5, <2>1 DEF register_timer
  <2>4. register_timer(u) = [trigger_value |-> clock + u - Clock, rollover |-> TRUE]
    BY <2>2, <2>3
  <2>5. /\ register_timer(u) \in [trigger_value : Int, rollover : BOOLEAN]
        /\ register_timer(u).trigger_value = clock + u - Clock
        /\ register_timer(u).rollover
    BY <2>2, <2>4
  <2>6. QED
    BY <1>1, <1>5, <2>2, <2>5
<1>6. QED
  BY <1>1, <1>2, <1>3, <1>4, <1>5

\* A wait begins.
LEMMA WaitStep ==
  ASSUME TimerIInv, NEW u \in Sleeps, NEW first \in {"check", "compare"}, Wait(u, first)
  PROVE  TimerIInv'
<1>1. /\ clock \in 0 .. Clock - 1 /\ Clock \in Nat /\ u \in Int /\ u < Clock /\ Delay \in Nat \ {0}
      /\ usec' = u /\ started' = clock /\ clock' = clock /\ tw' = register_timer(u)
      /\ elapsed' = 0 /\ unpolled' = 0 /\ ended' = "none" /\ condition' = condition
      /\ stage' = first /\ again' = first
  BY ClockAssumption DEF TimerIInv, TimerTypeOK, Wait
<1>2. TimerTypeOK'
  <2>1. 0 \in 0 .. Delay /\ 0 \in 0 .. 2 * Clock
    BY ClockAssumption
  <2>2. tw' \in [trigger_value : Int, rollover : BOOLEAN]
    BY <1>1, RegisteredTimer
  <2>3. condition' \in BOOLEAN
    BY <1>1 DEF TimerIInv, TimerTypeOK
  <2>4. QED
    BY <1>1, <2>1, <2>2, <2>3 DEF TimerTypeOK
<1>3. Registered'
  <2>1. \/ u < 0 \/ clock = 0 \/ clock + u = Clock
        \/ clock > 0 /\ u > 0 /\ clock + u < Clock
        \/ clock > 0 /\ (u = 0 \/ clock + u > Clock)
    BY <1>1
  <2>2. AtOnce' <=> u < 0 \/ clock = 0 \/ clock + u = Clock
    BY <1>1 DEF AtOnce
  <2>3. Ahead' <=> clock > 0 /\ u > 0 /\ clock + u < Clock
    BY <1>1 DEF Ahead
  <2>4. CASE u < 0 \/ clock = 0 \/ clock + u = Clock
    <3>1. AtOnce' /\ ~Ahead' /\ tw'.trigger_value = 0
      BY <1>1, <2>2, <2>3, <2>4, RegisteredTimer
    <3>2. QED
      BY <3>1 DEF Registered
  <2>5. CASE clock > 0 /\ u > 0 /\ clock + u < Clock
    <3>1. ~AtOnce' /\ tw'.trigger_value = clock + u /\ ~tw'.rollover /\ clock + u # 0
      BY <1>1, <2>2, <2>5, RegisteredTimer
    <3>2. Ahead' /\ started' + usec' = clock + u
      BY <1>1, <2>3, <2>5
    <3>3. QED
      BY <3>1, <3>2 DEF Registered
  <2>6. CASE clock > 0 /\ (u = 0 \/ clock + u > Clock)
    <3>1. ~AtOnce' /\ ~Ahead' /\ tw'.trigger_value # 0 /\ tw'.rollover
      BY <1>1, <2>2, <2>3, <2>6, RegisteredTimer
    <3>2. QED
      BY <3>1 DEF Registered
  <2>7. QED
    BY <2>1, <2>4, <2>5, <2>6
<1>4. Waiting'
  <2>1. (Ahead /\ elapsed < usec => clock = started + elapsed)'
    BY <1>1 DEF Ahead
  <2>2. (Seen => clock = started + elapsed /\ elapsed < usec + unpolled)'
    BY <1>1 DEF Seen, Ahead
  <2>3. QED
    BY <1>1, <1>3, <2>1, <2>2 DEF Waiting
<1>5. TimedOutInTime'
  BY <1>1 DEF TimedOutInTime
<1>6. QED
  BY <1>2, <1>4, <1>5 DEF TimerIInv

\* What a wait is stays as it began.
LEMMA WaitIsTheSame ==
  ASSUME UNCHANGED <<usec, started, tw>>
  PROVE  AtOnce' = AtOnce /\ Ahead' = Ahead /\ Seen' = Seen /\ Registered' = Registered
<1>1. AtOnce' = AtOnce /\ Ahead' = Ahead
  BY DEF AtOnce, Ahead
<1>2. QED
  BY <1>1 DEF Seen, Registered

\* The condition is looked at.
LEMMA CheckStep == ASSUME TimerIInv, Check PROVE TimerIInv'
<1>1. /\ UNCHANGED <<clock, condition, again, usec, tw, started, unpolled, elapsed>>
      /\ stage # "idle" /\ ended' \in {"none", "condition"}
      /\ stage' \in {"idle", "compare"} /\ (stage' # "idle" => ended' = ended)
  BY DEF TimerIInv, Waiting, Check
<1>2. AtOnce' = AtOnce /\ Ahead' = Ahead /\ Seen' = Seen /\ Registered' = Registered
  BY <1>1, WaitIsTheSame
<1>3. TimerTypeOK'
  BY <1>1 DEF TimerIInv, TimerTypeOK
<1>4. Waiting'
  BY <1>1, <1>2 DEF TimerIInv, Waiting
<1>5. TimedOutInTime'
  BY <1>1 DEF TimedOutInTime
<1>6. QED
  BY <1>3, <1>4, <1>5 DEF TimerIInv

\* The clock is compared: a wait ends when the clock has reached the trigger
\* value, at most Delay ticks after a poll that found it short of it.
LEMMA CompareStep == ASSUME TimerIInv, Compare PROVE TimerIInv'
<1> USE DEF TimerIInv
<1>1. /\ UNCHANGED <<clock, condition, again, usec, tw, started, elapsed>>
      /\ stage # "idle" /\ ended = "none" /\ unpolled' = 0
      /\ \/ compare_timer(tw) /\ stage' = "idle" /\ ended' = "timeout"
         \/ ~compare_timer(tw) /\ stage' = again /\ ended' = ended
  BY DEF Waiting, Compare
<1>2. AtOnce' = AtOnce /\ Ahead' = Ahead /\ Seen' = Seen /\ Registered' = Registered
  BY <1>1, WaitIsTheSame
<1>3. /\ Registered /\ (AtOnce => elapsed <= unpolled)
      /\ Ahead /\ elapsed < usec => clock = started + elapsed
      /\ Seen => clock = started + elapsed /\ elapsed < usec + unpolled
  BY <1>1 DEF Waiting
<1>4. /\ Clock \in Nat /\ clock \in 0 .. Clock - 1 /\ started \in 0 .. Clock - 1 /\ usec \in Int
      /\ unpolled \in 0 .. Delay /\ elapsed \in 0 .. 2 * Clock /\ Delay \in Nat
      /\ tw.trigger_value \in Int
  BY ClockAssumption DEF TimerTypeOK
<1>5. AtOnce => compare_timer(tw)
  BY <1>3 DEF Registered, compare_timer
<1>6. ASSUME Ahead PROVE compare_timer(tw) <=> clock >= started + usec
  <2>1. tw.trigger_value = started + usec /\ ~tw.rollover /\ started + usec # 0
    BY <1>3, <1>4, <1>6 DEF Registered, Ahead
  <2>2. QED
    BY <2>1 DEF compare_timer
<1>7. ASSUME ~AtOnce, ~Ahead PROVE ~compare_timer(tw)
  BY <1>3, <1>7 DEF Registered, compare_timer
<1>8. Seen => Ahead
  BY DEF Seen
<1>9. TimerTypeOK'
  <2>1. 0 \in 0 .. Delay
    BY ClockAssumption
  <2>2. ended' \in {"none", "condition", "timeout"} /\ stage' \in {"idle", "check", "compare"}
    BY <1>1 DEF TimerTypeOK
  <2>3. QED
    BY <1>1, <2>1, <2>2 DEF TimerTypeOK
<1>10. Waiting'
  <2> SUFFICES ASSUME stage' # "idle" PROVE Waiting'
    BY DEF Waiting
  <2>1. ~compare_timer(tw) /\ ended' = "none" /\ ~AtOnce
    BY <1>1, <1>5
  <2>2. (Ahead /\ elapsed < usec => clock = started + elapsed)'
    BY <1>1, <1>2, <1>3
  <2>3. (Seen => clock = started + elapsed /\ elapsed < usec + unpolled)'
    <3> SUFFICES ASSUME Seen PROVE clock = started + elapsed /\ elapsed < usec + 0
      BY <1>1, <1>2
    <3>1. clock = started + elapsed /\ ~(clock >= started + usec)
      BY <1>3, <1>6, <1>8, <2>1
    <3>2. QED
      BY <1>4, <3>1
  <2>4. QED
    BY <1>2, <1>3, <2>1, <2>2, <2>3 DEF Waiting
<1>11. TimedOutInTime'
  <2> SUFFICES ASSUME ended' = "timeout"
               PROVE \/ AtOnce /\ elapsed <= Delay
                     \/ Ahead /\ elapsed >= usec /\ (Seen => elapsed < usec + Delay)
    BY <1>1, <1>2 DEF TimedOutInTime
  <2>1. compare_timer(tw)
    BY <1>1
  <2>2. CASE AtOnce
    BY <1>3, <1>4, <2>2
  <2>3. CASE Ahead
    <3>1. clock >= started + usec
      BY <1>6, <2>1, <2>3
    <3>2. elapsed >= usec
      BY <1>3, <1>4, <2>3, <3>1
    <3>3. Seen => elapsed < usec + Delay
      BY <1>3, <1>4
    <3>4. QED
      BY <2>3, <3>2, <3>3
  <2>4. QED
    BY <1>7, <2>1, <2>2, <2>3
<1>12. QED
  BY <1>9, <1>10, <1>11

\* The clock runs.  It does not wrap before a wait that is ahead has lasted its
\* time, nor before the next poll of one that can be seen.
LEMMA TickStep == ASSUME TimerIInv, Tick PROVE TimerIInv'
<1> USE DEF TimerIInv
<1>1. /\ UNCHANGED <<condition, stage, again, usec, tw, started, ended>>
      /\ clock' = (clock + 1) % Clock
  BY DEF Tick
<1>2. AtOnce' = AtOnce /\ Ahead' = Ahead /\ Seen' = Seen /\ Registered' = Registered
  BY <1>1, WaitIsTheSame
<1>3. /\ Clock \in Nat \ {0} /\ Delay \in Nat \ {0}
      /\ clock \in 0 .. Clock - 1 /\ started \in 0 .. Clock - 1 /\ usec \in Int
      /\ unpolled \in 0 .. Delay /\ elapsed \in 0 .. 2 * Clock
  BY ClockAssumption DEF TimerTypeOK
<1>4. clock' \in 0 .. Clock - 1 /\ (clock + 1 < Clock => clock' = clock + 1)
  BY ONLY <1>1, <1>3
<1>5. CASE stage = "idle"
  <2>1. unpolled' = 0 /\ elapsed' = elapsed
    BY <1>5 DEF Tick
  <2>2. TimerTypeOK'
    BY <1>1, <1>3, <1>4, <2>1 DEF TimerTypeOK
  <2>3. Waiting'
    BY <1>1, <1>5 DEF Waiting
  <2>4. TimedOutInTime'
    BY <1>1, <1>2, <2>1 DEF TimedOutInTime
  <2>5. QED
    BY <2>2, <2>3, <2>4
<1>6. CASE stage # "idle"
  <2>1. /\ ended = "none" /\ Registered /\ (AtOnce => elapsed <= unpolled)
        /\ Ahead /\ elapsed < usec => clock = started + elapsed
        /\ Seen => clock = started + elapsed /\ elapsed < usec + unpolled
    BY <1>6 DEF Waiting
  <2>2. unpolled < Delay /\ unpolled' = unpolled + 1
    BY <1>6 DEF Tick
  <2>3. elapsed' = IF elapsed < 2 * Clock THEN elapsed + 1 ELSE elapsed
    BY <1>6 DEF Tick
  <2>4. elapsed' \in 0 .. 2 * Clock /\ unpolled' \in 0 .. Delay
    BY ONLY <1>3, <2>2, <2>3
  <2>5. TimerTypeOK'
    BY <1>1, <1>4, <2>4 DEF TimerTypeOK
  <2>6. AtOnce => elapsed' <= unpolled'
    BY <1>3, <2>1, <2>2, <2>3
  <2>7. ASSUME Ahead, elapsed' < usec PROVE clock' = started + elapsed'
    <3>1. started + usec < Clock /\ usec < Clock
      BY <1>3, <2>7 DEF Ahead
    <3>2. elapsed' = elapsed + 1 /\ elapsed < usec
      BY <1>3, <2>3, <2>7, <3>1
    <3>3. clock = started + elapsed /\ clock + 1 < Clock
      BY <1>3, <2>1, <2>7, <3>1, <3>2
    <3>4. QED
      BY <1>3, <1>4, <3>2, <3>3
  <2>8. ASSUME Seen PROVE clock' = started + elapsed' /\ elapsed' < usec + unpolled'
    <3>1. started + usec + Delay <= Clock /\ clock = started + elapsed /\ elapsed < usec + unpolled
      BY <2>1, <2>8 DEF Seen
    <3>2. elapsed' = elapsed + 1 /\ clock + 1 < Clock
      BY <1>3, <2>2, <2>3, <3>1
    <3>3. QED
      BY <1>3, <1>4, <2>2, <3>1, <3>2
  <2>9. Waiting'
    BY <1>1, <1>2, <2>1, <2>6, <2>7, <2>8 DEF Waiting
  <2>10. TimedOutInTime'
    BY <1>1, <2>1 DEF TimedOutInTime
  <2>11. QED
    BY <2>5, <2>9, <2>10
<1>7. QED
  BY <1>5, <1>6

\* The hardware's condition comes or goes.
LEMMA HardwareStep == ASSUME TimerIInv, HardwareChanges PROVE TimerIInv'
<1>1. /\ UNCHANGED <<clock, stage, again, usec, tw, started, unpolled, elapsed, ended>>
      /\ condition' = ~condition
  BY DEF HardwareChanges
<1>2. AtOnce' = AtOnce /\ Ahead' = Ahead /\ Seen' = Seen /\ Registered' = Registered
  BY <1>1, WaitIsTheSame
<1>3. TimerTypeOK'
  BY <1>1 DEF TimerIInv, TimerTypeOK
<1>4. QED
  BY <1>1, <1>2, <1>3 DEF TimerIInv, Waiting, TimedOutInTime

\* Every step of a waiter, the clock and the hardware preserves the invariant.
LEMMA TimerNextIInv == TimerIInv /\ [TimerNext]_timerVars => TimerIInv'
<1> SUFFICES ASSUME TimerIInv, [TimerNext]_timerVars PROVE TimerIInv'
  OBVIOUS
<1>1. ASSUME NEW u \in Sleeps, usleep(u) \/ TIMEOUT_WAIT(u) PROVE TimerIInv'
  BY <1>1, WaitStep DEF usleep, TIMEOUT_WAIT
<1>2. CASE Check
  BY <1>2, CheckStep
<1>3. CASE Compare
  BY <1>3, CompareStep
<1>4. CASE Tick
  BY <1>4, TickStep
<1>5. CASE HardwareChanges
  BY <1>5, HardwareStep
<1>6. CASE UNCHANGED timerVars
  <2>1. /\ UNCHANGED <<clock, condition, stage, again, usec, tw, started, unpolled, elapsed, ended>>
        /\ AtOnce' = AtOnce /\ Ahead' = Ahead /\ Seen' = Seen /\ Registered' = Registered
    BY <1>6, WaitIsTheSame DEF timerVars
  <2>2. TimerTypeOK'
    BY <2>1 DEF TimerIInv, TimerTypeOK
  <2>3. QED
    BY <2>1, <2>2 DEF TimerIInv, Waiting, TimedOutInTime
<1>7. QED
  BY <1>1, <1>2, <1>3, <1>4, <1>5, <1>6 DEF TimerNext

\* usleep and TIMEOUT_WAIT, for a clock of any width, any time and any distance
\* between two polls: a wait that times out has lasted its time, and up to the next
\* poll if one meets the clock before its wrap, or it began at clock 0, with a
\* negative time or with a sum of 0; every other wait never times out.
THEOREM TimeoutsInTime == TimerSpec => []TimedOutInTime
<1>1. TimerInit => TimerIInv
  BY TimerInitIInv
<1>2. TimerIInv /\ [TimerNext]_timerVars => TimerIInv'
  BY TimerNextIInv
<1>3. TimerIInv => TimedOutInTime
  BY DEF TimerIInv
<1>4. QED
  BY <1>1, <1>2, <1>3, PTL DEF TimerSpec
===============================================================================
