---------------------------- MODULE EntryMachine ----------------------------
(***************************************************************************)
(* EntryStateMachine, one evaluate() per tick: anomaly, arming, trigger,   *)
(* the two-minute timeout and its correction for tick gaps.  Prices are    *)
(* integers in tenths of a pip.  The anomaly's time is kept as its age on  *)
(* the machine's own clock, so that time needs no bound.                   *)
(***************************************************************************)
EXTENDS Integers

CONSTANTS
  Price,        \* mid prices that ticks may carry
  Step,         \* seconds that may pass between two ticks
  Timeout,      \* timeout_sec
  GapLimit,     \* 5.0 s: a longer step is a gap
  AdverseLimit, \* 5.0 pips
  TriggerMove   \* 0.3 pips

ASSUME PriceAssumption == Price \subseteq Int
ASSUME StepAssumption == Step \subseteq Nat \ {0}
ASSUME LimitAssumption ==
  /\ Timeout \in Nat \ {0}
  /\ GapLimit \in Nat \ {0}
  /\ AdverseLimit \in Nat
  /\ TriggerMove \in Nat

Side == {"BUY", "SELL"}
NoSide == "none"   \* the empty direction
Resting == {"IDLE", "INVALIDATED"}
Armed == {"ANOMALY", "ARMING", "TRIGGERED"}
(* DISPLACEMENT_*; COMPRESSION acts as NEUTRAL does.                       *)
Class == {"IMPULSE", "TRAP", "ABSORPTION", "EXHAUSTION", "NEUTRAL"}

(* Timeframe bias: 2 and -2 stand for beyond 0.4 and -0.4.                 *)
Bias == -2..2

VARIABLES
  state,   \* _current_state
  age,     \* time of the last tick minus _anomaly_time
  aprice,  \* _anomaly_price
  adir,    \* _anomaly_direction
  mae,     \* _max_adverse_excursion
  queued,  \* an entry was queued since the last reset
  \* history
  ticks    \* evaluations since the last reset, capped

vars == <<state, age, aprice, adir, mae, queued, ticks>>
fieldVars == <<aprice, adir>>

TypeOK ==
  /\ state \in Resting \cup Armed
  /\ age \in Nat
  /\ aprice \in Int
  /\ adir \in Side \cup {NoSide}
  /\ mae \in Nat
  /\ queued \in BOOLEAN
  /\ ticks \in 0..3

Least(a, b) == IF a < b THEN a ELSE b

Init ==
  /\ state = "IDLE"
  /\ age = 0 /\ aprice = 0 /\ adir = NoSide /\ mae = 0
  /\ queued = FALSE
  /\ ticks = 0

(* The anomaly's age at this tick: a gap moves _anomaly_time along.  (Of an *)
(* armed machine both times the code tests are always set.)                *)
Aged(dt) == IF dt > GapLimit THEN age ELSE age + dt

(* The direction expected of the reversal: a sweep decides before a climax.*)
Expected(sweep, climax, net) ==
  CASE sweep = "below"               -> "BUY"
    [] sweep = "above"               -> "SELL"
    [] sweep = "no" /\ climax /\ net > 0 -> "SELL"
    [] sweep = "no" /\ climax /\ net < 0 -> "BUY"
    [] OTHER                         -> NoSide

(* Definitions named Slip... are not the code: each is a mistake that      *)
(* could be made in the definition after it, kept to show that a property  *)
(* would notice.                                                           *)
SlipTimedOut(dt) == state \in {"ANOMALY", "ARMING"} /\ Aged(dt) > Timeout

(* The timeout check comes first and spares only a resting machine.        *)
TimedOut(dt) == state \in Armed /\ Aged(dt) > Timeout

SlipLooksForAnomaly(dt) == state \in Resting \cup {"ANOMALY"} \/ TimedOut(dt)

(* A machine that timed out looks for an anomaly on the same tick.         *)
LooksForAnomaly(dt) == state \in Resting \/ TimedOut(dt)

(* The age after a tick that detects no anomaly.  The age of a resting   *)
(* machine is never read and is kept at 0.                                 *)
Grows(dt) == age' = IF state' \in Armed THEN Aged(dt) ELSE 0

(* _evaluate_idle                                                          *)
EvaluateIdle(p, dt) ==
  /\ LooksForAnomaly(dt)
  /\ \E sweep \in {"no", "below", "above"}, climax \in BOOLEAN, net \in -1..1 :
       LET d == Expected(sweep, climax, net) IN
       \/ /\ d # NoSide
          /\ state' = "ANOMALY"
          /\ aprice' = p /\ adir' = d /\ mae' = 0
          /\ age' = 0
       \/ /\ d = NoSide
          /\ state' = IF state \in Resting THEN state ELSE "INVALIDATED"
          /\ UNCHANGED <<fieldVars, mae>>
          /\ Grows(dt)

Against(p) == IF adir = "SELL" THEN p - aprice ELSE aprice - p

SlipWidest(p) == Against(p)

Widest(p) == IF Against(p) > mae THEN Against(p) ELSE mae

(* _evaluate_anomaly                                                       *)
EvaluateAnomaly(p, dt) ==
  /\ state = "ANOMALY" /\ ~TimedOut(dt)
  /\ mae' = Widest(p)
  /\ \E class \in Class, decaying \in BOOLEAN :
       state' = IF mae' > AdverseLimit /\ class = "IMPULSE" THEN "INVALIDATED"
                ELSE IF class \in {"TRAP", "ABSORPTION"} \/ decaying
                THEN "ARMING" ELSE "ANOMALY"
  /\ UNCHANGED fieldVars
  /\ Grows(dt)

(* The trend filters of _evaluate_arming.                                  *)
TrendBlocks(h1, h4) ==
  IF adir = "BUY"
  THEN (h1 < 0 /\ h4 < 0) \/ h1 = -2 \/ h4 = -2
  ELSE (h1 > 0 /\ h4 > 0) \/ h1 = 2 \/ h4 = 2

(* _evaluate_arming                                                        *)
EvaluateArming(p, dt) ==
  /\ state = "ARMING" /\ ~TimedOut(dt)
  /\ \E class \in Class, high \in BOOLEAN, h1, h4 \in Bias :
       LET impulse == class \in {"IMPULSE", "EXHAUSTION"} \/ high
           away == -Against(p) > TriggerMove
       IN  state' = IF ~(impulse /\ away) THEN "ARMING"
                    ELSE IF TrendBlocks(h1, h4) THEN "INVALIDATED"
                    ELSE "TRIGGERED"
  /\ UNCHANGED <<fieldVars, mae>>
  /\ Grows(dt)

EvaluateTriggered(dt) ==
  /\ state = "TRIGGERED" /\ ~TimedOut(dt)
  /\ UNCHANGED <<state, fieldVars, mae>>
  /\ Grows(dt)

(* evaluate()                                                              *)
Evaluate(p, dt) ==
  /\ EvaluateIdle(p, dt) \/ EvaluateAnomaly(p, dt) \/ EvaluateArming(p, dt)
     \/ EvaluateTriggered(dt)
  /\ queued' = (queued \/ state' = "TRIGGERED")
  /\ ticks' = Least(ticks + 1, 3)

SlipResetState == state

ResetTo == "IDLE"

(* reset(), when the trade of a queued entry has been registered; by then  *)
(* the machine may have moved on.                                          *)
Reset ==
  /\ queued
  /\ state' = ResetTo
  /\ age' = 0 /\ aprice' = 0 /\ adir' = NoSide /\ mae' = 0
  /\ queued' = FALSE
  /\ ticks' = 0

Next == Reset \/ \E p \in Price, dt \in Step : Evaluate(p, dt)

Spec == Init /\ [][Next]_vars

-----------------------------------------------------------------------------
(* A decision is valid, and the daemon queues an entry, on every tick that *)
(* leaves the machine triggered.                                           *)
IsValidEntry == state = "TRIGGERED"

(* No entry comes from an anomaly older than the timeout, as far as ticks  *)
(* without gaps go: the age never passes Timeout in any armed state.       *)
TriggerFresh == state \in Armed => age <= Timeout

(* A trigger after a reset is a new one: it takes an anomaly, an arming    *)
(* and a trigger, on three ticks, all since the reset, and its direction   *)
(* is that of the new anomaly.                                             *)
RetriggerTakesThreeTicks == IsValidEntry => ticks = 3 /\ adir \in Side

(* Every entry is fresh in both ways.                                      *)
EntriesFresh == TriggerFresh /\ RetriggerTakesThreeTicks

(* The trap an entry is measured from never moves under it: price and      *)
(* direction of the anomaly change only when the machine rests or times    *)
(* out, and then it starts over.                                           *)
TrapKept ==
  [][(state \in Armed /\ fieldVars' # fieldVars) =>
       \/ state' \in Resting
       \/ state' = "ANOMALY" /\ age' = 0
          /\ \E dt \in Step : TimedOut(dt)]_vars
=============================================================================
