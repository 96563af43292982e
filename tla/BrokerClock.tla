---------------------------- MODULE BrokerClock ----------------------------
(***************************************************************************)
(* What the daemon believes of the broker's clock: the offset from UTC     *)
(* that get_broker_tz_offset (mt5_data.py) finds once and keeps for the    *)
(* life of the process, and what _get_regime_payload (daemon.py) tells the *)
(* dashboard by it: that the market is closed, and when it resumes.  The   *)
(* broker's clock is the usual EET or EEST by the rules of the US, and the *)
(* market is open on the broker's weekdays.  Times are in half hours since *)
(* Monday 00:00 UTC; an instant of the model stands for one just after it, *)
(* so that the comparisons of the code come out as written here.           *)
(***************************************************************************)
EXTENDS Integers

CONSTANTS
  First, Latest,  \* the part of the week that is looked at, with one weekend
  MaxAge,         \* bound on the age of the last tick
  Unknown         \* no offset yet

ASSUME ClockAssumption ==
  /\ First \in Nat /\ Latest \in Nat /\ First < Latest /\ Latest < 570
  /\ MaxAge \in Nat /\ Unknown \notin Int

VARIABLES
  halves,  \* the time
  zone,    \* the broker's offset, in hours
  idle,    \* since the last tick
  offset,  \* _cached_tz_offset
  basis    \* history: zone and idle when offset was found

clockVars == <<halves, zone, idle, offset, basis>>

Zones == {2, 3}

ClockTypeOK ==
  /\ halves \in First .. Latest /\ zone \in Zones /\ idle \in 0 .. MaxAge
  /\ offset \in Int \cup {Unknown} /\ basis \in [zone : Zones, idle : 0 .. MaxAge]

Weekday(time) == (time \div 48) % 7
FreeDays == {5, 6}

(* The clocks of the US change on a Sunday at 07:00 UTC.                   *)
ClockChange == 6 * 48 + 14

MarketOpen == Weekday(halves + 2 * zone) \notin FreeDays

ClockInit ==
  /\ halves = First /\ zone \in Zones /\ idle \in 0 .. MaxAge
  /\ offset = Unknown /\ basis = [zone |-> zone, idle |-> idle]

(* Half an hour goes by.  An open market may have a holiday and no ticks.  *)
Pass ==
  /\ halves' = IF halves = Latest THEN First ELSE halves + 1
  /\ IF halves = ClockChange THEN zone' \in Zones ELSE zone' = zone
  /\ \/ MarketOpen /\ idle' = 0
     \/ idle' = IF idle < MaxAge THEN idle + 1 ELSE idle
  /\ UNCHANGED <<offset, basis>>

SlipWithinTwoHours(ahead) == ahead <= 4

(* abs(tick_time - current_time) < 7200                                    *)
WithinTwoHours(ahead) == -4 < ahead /\ ahead <= 4

(* get_broker_tz_offset: from the stamp of the last tick, if the terminal  *)
(* tells one within two hours, else by the rules of the US.  ahead is how  *)
(* far the broker's stamp is ahead of the system's clock.                  *)
Learn(answers) ==
  LET ahead == 2 * zone - idle
  IN  /\ offset = Unknown
      /\ offset' = IF answers /\ WithinTwoHours(ahead) THEN ahead \div 2 ELSE zone
      /\ basis' = [zone |-> zone, idle |-> idle]
      /\ UNCHANGED <<halves, zone, idle>>

ClockRestart ==
  /\ offset # Unknown /\ offset' = Unknown
  /\ UNCHANGED <<halves, zone, idle, basis>>

ClockNext == Pass \/ (\E answers \in BOOLEAN : Learn(answers)) \/ ClockRestart

ClockSpec == ClockInit /\ [][ClockNext]_clockVars

-----------------------------------------------------------------------------
(* _get_regime_payload: a weekend of the broker's clock.                   *)
WeekendTold == Weekday(halves + 2 * offset) \in FreeDays

(* The next Sunday, 22:00 UTC.                                             *)
SundayTold ==
  LET sunday == (halves \div 48 + ((6 - Weekday(halves)) % 7)) * 48 + 44
  IN  IF halves >= sunday THEN sunday + 336 ELSE sunday

(* No tick for more than three hours, by the stamp of the last one.        *)
HolidayTold == ~WeekendTold /\ idle + 2 * (offset - zone) >= 6

(* The first weekday after today, 22:00 UTC.                               *)
WeekdayTold ==
  LET day == halves \div 48
      free(n) == Weekday(48 * n) \notin FreeDays
  IN  48 * (CHOOSE n \in day + 1 .. day + 3 :
              free(n) /\ \A m \in day + 1 .. n - 1 : ~free(m)) + 44

ClosedTold == WeekendTold \/ HolidayTold
ResumeTold == IF HolidayTold THEN WeekdayTold ELSE SundayTold

(* An offset that was found on a fresh tick, or after the ticks had ceased *)
(* for five hours, and before any change of the clocks since, is right: a  *)
(* weekend is told from its first minute to its last, with the opening to  *)
(* come or the hour after it, and a market with ticks is never told to be  *)
(* closed.  After an older tick the offset may be off by up to four hours. *)
ClockTrusted ==
  offset # Unknown /\ basis.zone = zone /\ (basis.idle = 0 \/ basis.idle >= 10) =>
    /\ WeekendTold <=> ~MarketOpen
    /\ WeekendTold => \E late \in {0, 2} : ResumeTold = 336 - 2 * zone + late
    /\ MarketOpen /\ idle < 6 => ~ClosedTold
=============================================================================
