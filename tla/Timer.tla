--------------------------------- MODULE Timer ---------------------------------
(***************************************************************************)
(* The waits of timer.c: usleep, and the macro TIMEOUT_WAIT that polls a   *)
(* condition of the hardware.  The clock is a register of the system timer *)
(* that counts microseconds and wraps, and only polling sees it.           *)
(***************************************************************************)
EXTENDS Integers

CONSTANTS
  Clock,    \* the number of values of the clock, 2^32
  Sleeps,   \* the times waited for: useconds_t has 31 bits and a sign
  Delay     \* bound: ticks between two polls

ASSUME ClockAssumption ==
  /\ Clock \in Nat \ {0} /\ Delay \in Nat \ {0}
  /\ Sleeps \subseteq Int /\ \A u \in Sleeps : u < Clock

VARIABLES
  clock,     \* the register CLO
  condition, \* the condition of TIMEOUT_WAIT
  stage,        \* "idle", "check" (of the condition) or "compare"
  again,     \* where the loop of the wait begins: "check" or "compare"
  usec,      \* the time waited for
  tw,        \* the timer_wait of the waiting function
  started,   \* history: the clock that register_timer read
  unpolled,  \* ticks since the last poll
  elapsed,   \* history: ticks since register_timer, up to 2 * Clock
  ended     \* history: how the last wait ended

timerVars == <<clock, condition, stage, again, usec, tw, started, unpolled, elapsed, ended>>

None == [trigger_value |-> 0, rollover |-> FALSE]

TimerInit ==
  /\ clock \in 0 .. Clock - 1 /\ condition = FALSE
  /\ stage = "idle" /\ again = "check" /\ usec = 0 /\ tw = None /\ started = 0
  /\ unpolled = 0 /\ elapsed = 0 /\ ended = "none"

\* Mutant: the clock is not added.
TimerOfInterval(u) ==
  IF u < 0 THEN None
  ELSE [trigger_value |-> u, rollover |-> u <= clock]

register_timer(u) ==
  LET trig == IF clock = 0 THEN 0 ELSE (clock + u) % Clock
  IN IF u < 0 THEN None
     ELSE [trigger_value |-> trig, rollover |-> trig <= clock]

\* Mutant: a clock that stands at the trigger value is not enough, and rollover
\* is looked at the wrong way round.
ComparedBackwards(t) == t.trigger_value = 0 \/ (clock > t.trigger_value /\ t.rollover)

\* The argument is a copy: that the clock has wrapped is noted in the copy.
compare_timer(t) == t.trigger_value = 0 \/ (clock >= t.trigger_value /\ ~t.rollover)

\* usleep compares at once, TIMEOUT_WAIT looks at its condition first.
Wait(u, first) ==
  /\ stage = "idle"
  /\ tw' = register_timer(u)
  /\ usec' = u /\ started' = clock /\ stage' = first /\ again' = first
  /\ elapsed' = 0 /\ unpolled' = 0 /\ ended' = "none"
  /\ UNCHANGED <<clock, condition>>

usleep(u) == Wait(u, "compare")
TIMEOUT_WAIT(u) == Wait(u, "check")

Check ==
  /\ stage = "check"
  /\ \/ condition /\ stage' = "idle" /\ ended' = "condition"
     \/ ~condition /\ stage' = "compare" /\ UNCHANGED ended
  /\ UNCHANGED <<clock, condition, again, usec, tw, started, unpolled, elapsed>>

Compare ==
  /\ stage = "compare"
  /\ \/ compare_timer(tw) /\ stage' = "idle" /\ ended' = "timeout"
     \/ ~compare_timer(tw) /\ stage' = again /\ UNCHANGED ended
  /\ unpolled' = 0
  /\ UNCHANGED <<clock, condition, again, usec, tw, started, elapsed>>

Tick ==
  /\ stage # "idle" => unpolled < Delay
  /\ clock' = (clock + 1) % Clock
  /\ unpolled' = IF stage = "idle" THEN 0 ELSE unpolled + 1
  /\ elapsed' = IF stage # "idle" /\ elapsed < 2 * Clock THEN elapsed + 1 ELSE elapsed
  /\ UNCHANGED <<condition, stage, again, usec, tw, started, ended>>

HardwareChanges ==
  /\ condition' = ~condition
  /\ UNCHANGED <<clock, stage, again, usec, tw, started, unpolled, elapsed, ended>>

TimerNext ==
  \/ \E u \in Sleeps : usleep(u) \/ TIMEOUT_WAIT(u)
  \/ Check \/ Compare \/ Tick \/ HardwareChanges

\* The clock runs and the waiting loop polls; the condition may never come.
TimerFairness == WF_timerVars(Tick) /\ WF_timerVars(Check) /\ WF_timerVars(Compare)

TimerSpec == TimerInit /\ [][TimerNext]_timerVars
TimerFairSpec == TimerSpec /\ TimerFairness

(***************************************************************************)
(* Properties.                                                             *)
(***************************************************************************)

\* Waits that the first comparison ends: 0 is "no timer" to compare_timer, and is
\* also what a clock at 0 and a sum that is the size of the clock come to.
AtOnce == usec < 0 \/ started = 0 \/ started + usec = Clock

\* Waits whose trigger value lies ahead of the clock.
Ahead == started > 0 /\ usec > 0 /\ started + usec < Clock

\* And far enough before the wrap for a poll to meet the clock between the two.
Seen == Ahead /\ started + usec + Delay <= Clock

\* A wait that times out began ahead of its trigger value and has lasted its time,
\* up to the next poll if one can meet the clock before it wraps; or it never waited
\* at all.  In particular a wait whose sum wraps, and a wait of 0, do not time out:
\* the wrap is noted in compare_timer's copy (timer.c:46-69, 71-87).
TimedOutInTime ==
  ended = "timeout" =>
    \/ AtOnce /\ elapsed <= Delay
    \/ Ahead /\ elapsed >= usec /\ (Seen => elapsed < usec + Delay)

\* The inductive invariant.  register_timer has made 0 of a wait that ends at once,
\* the sum of one that is ahead, and a wait for the wrap of any other; until the
\* time of a wait that is ahead has passed the clock has not wrapped.
TimerTypeOK ==
  /\ clock \in 0 .. Clock - 1 /\ condition \in BOOLEAN
  /\ stage \in {"idle", "check", "compare"} /\ again \in {"check", "compare"}
  /\ usec \in Int /\ tw \in [trigger_value : Int, rollover : BOOLEAN]
  /\ started \in 0 .. Clock - 1
  /\ unpolled \in 0 .. Delay /\ elapsed \in 0 .. 2 * Clock
  /\ ended \in {"none", "condition", "timeout"}

Registered ==
  /\ AtOnce <=> tw.trigger_value = 0
  /\ Ahead => tw.trigger_value = started + usec /\ ~tw.rollover
  /\ ~AtOnce /\ ~Ahead => tw.rollover

Waiting ==
  stage # "idle" =>
    /\ ended = "none" /\ Registered
    /\ AtOnce => elapsed <= unpolled
    /\ Ahead /\ elapsed < usec => clock = started + elapsed
    /\ Seen => clock = started + elapsed /\ elapsed < usec + unpolled

TimerIInv == TimerTypeOK /\ Waiting /\ TimedOutInTime

\* A wait ends whether the hardware answers or not, except those that the clock
\* ends only by chance or never: a wait of 0, one whose sum wraps, and one whose
\* trigger value the clock may pass and wrap between two polls (timer.c:39-44, 71-87,
\* timer.h:40-48).
Returns == stage # "idle" /\ (AtOnce \/ Seen) ~> stage = "idle"
================================================================================
