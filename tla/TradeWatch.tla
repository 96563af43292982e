------------------------------ MODULE TradeWatch ------------------------------
(***************************************************************************)
(* What watches an open trade tick by tick: TradePhaseTracker              *)
(* (trade_phase.py) and TradeHealthMonitor (trade_health_monitor.py), in   *)
(* the order in which ReversalModel.on_tick runs them.                     *)
(*                                                                         *)
(* Confidence is in half points, a health score in hundredths.  Times are  *)
(* in units of the shortest gap between ticks; the limits of a run keep    *)
(* the order of the code's (5 s, 600 s, 2400 s, 2700 s).                   *)
(***************************************************************************)
EXTENDS Integers

CONSTANTS
  Gaps,              \* times between two ticks
  WatchGap,          \* 5 s: a longer gap counts as one second
  Pips,              \* profits, in pips
  TrendDrawdown, RangeDrawdown,   \* drawdown_limit_trending, _ranging
  Stagnation,        \* stagnation_limit
  ShiftAge,          \* 600 s
  Skews,             \* the broker's clock less the clock of registration
  MaxTicks           \* bound: ticks of a trade

ASSUME WatchAssumption ==
  /\ Gaps \subseteq Nat \ {0} /\ Pips \subseteq Int /\ Skews \subseteq Int
  /\ WatchGap \in Nat \ {0} /\ TrendDrawdown \in Nat /\ RangeDrawdown \in Nat
  /\ Stagnation \in Nat /\ ShiftAge \in 0 .. Stagnation /\ MaxTicks \in Nat

(* DisplacementState: an impulse with or against the trade, and the rest.  *)
Displacement == {"favourable", "adverse", "exhaustion", "compression", "neutral", "trap"}
Quiet == {"compression", "neutral"}
Regime == {"trend", "range", "against"}
Phase == {"WAITING", "ENTRY_TRIGGERED", "EXPANSION", "CONTINUATION", "COMPRESSION",
          "EXHAUSTION", "REVERSAL_RISK"}
Full == 200      \* confidence 100
Start80 == 160   \* initial_confidence
Protect == 100   \* CONFIDENCE_PROTECT

UpTo(n, top) == IF n > top THEN top ELSE n

(* Ages and drawdowns are told apart up to just over the largest limit.    *)
Oldest  == Stagnation + 1
Longest == TrendDrawdown + RangeDrawdown + 1

VARIABLES
  phase, conf,        \* _phase, _confidence
  impulses, adverses, \* _consecutive_impulse, _consecutive_adverse_impulse
  active,             \* TradeHealthMonitor._is_active
  against,            \* its _consecutive_adverse
  under, best,        \* _time_in_drawdown_sec, _max_favorable_excursion
  lead,               \* the broker's clock, by which ticks are stamped, less the
                      \* clock that stamped the registration
  elapsed,            \* true time from the registration to the last tick
  sinceLast,          \* _last_tick_time less the true time of the last tick
  regimeIn,           \* _entry_regime
  failing,            \* is_failing of the last evaluate
  tradeTicks          \* history: ticks since registration

watchVars == <<phase, conf, impulses, adverses, active, against, under, best, lead,
               elapsed, sinceLast, regimeIn, failing, tradeTicks>>

WatchTypeOK ==
  /\ phase \in Phase /\ conf \in 0 .. Full
  /\ impulses \in 0 .. 2 /\ adverses \in 0 .. 5 /\ against \in 0 .. 3
  /\ active \in BOOLEAN /\ (active <=> phase # "WAITING")
  /\ under \in Int /\ best \in Nat /\ lead \in Skews \cup {0} /\ elapsed \in Nat
  /\ sinceLast \in Skews \cup {0}
  /\ regimeIn \in Regime
  /\ failing \in BOOLEAN
  /\ tradeTicks \in 0 .. MaxTicks

WatchInit ==
  /\ phase = "WAITING" /\ conf = Full /\ impulses = 0 /\ adverses = 0
  /\ active = FALSE /\ against = 0 /\ under = 0 /\ best = 0
  /\ lead = 0 /\ elapsed = 0 /\ sinceLast = 0 /\ regimeIn = "range"
  /\ failing = FALSE /\ tradeTicks = 0

(* register_trade of the phase tracker, and of the health monitor, which   *)
(* stamps the trade with datetime.now(), while ticks bear the broker's     *)
(* time: to the code the trade is as old at once as that clock is ahead.   *)
FirstPhase ==
  phase' = "ENTRY_TRIGGERED" /\ conf' = Start80 /\ impulses' = 0 /\ adverses' = 0

Healthy ==
  /\ active' = TRUE /\ against' = 0 /\ under' = 0 /\ best' = 0
  /\ lead' \in Skews /\ elapsed' = 0 /\ sinceLast' = lead'
  /\ regimeIn' \in Regime

Open ==
  /\ ~active
  /\ FirstPhase /\ Healthy
  /\ failing' = FALSE /\ tradeTicks' = 0

(* clear_trade                                                             *)
Close ==
  /\ active
  /\ active' = FALSE /\ against' = 0
  /\ phase' = "WAITING" /\ conf' = Full /\ impulses' = 0 /\ adverses' = 0
  /\ failing' = FALSE /\ tradeTicks' = 0
  /\ UNCHANGED <<under, best, lead, elapsed, sinceLast, regimeIn>>

-----------------------------------------------------------------------------
(* TradePhaseTracker.update                                                *)

(* _update_consecutive_impulse; the counters matter up to 2 and 5.         *)
Impulses(d) == IF d = "favourable" THEN UpTo(impulses + 1, 2) ELSE 0

Adverses(d) == IF d = "adverse" THEN UpTo(adverses + 1, 5) ELSE 0

Sustained(d) == d = "favourable" /\ Impulses(d) = 2

(* The transition of the current phase.                                    *)
Onward(d, pips) ==
  CASE phase = "ENTRY_TRIGGERED" ->
         IF d = "favourable" \/ (d # "neutral" /\ pips >= 0) THEN "EXPANSION" ELSE phase
    [] phase = "EXPANSION" ->
         IF Sustained(d) THEN "CONTINUATION"
         ELSE IF d = "exhaustion" THEN "EXHAUSTION" ELSE phase
    [] phase = "CONTINUATION" ->
         IF d = "exhaustion" THEN "EXHAUSTION"
         ELSE IF d \in Quiet THEN "COMPRESSION" ELSE phase
    [] phase = "COMPRESSION" ->
         IF d = "favourable" THEN "CONTINUATION"
         ELSE IF d = "exhaustion" THEN "EXHAUSTION" ELSE phase
    [] phase = "EXHAUSTION" -> IF Sustained(d) THEN "CONTINUATION" ELSE phase
    [] phase = "REVERSAL_RISK" ->
         IF Sustained(d) THEN "CONTINUATION"
         ELSE IF d \in Quiet THEN "COMPRESSION" ELSE phase

(* _transition: whatever the phase has become, five adverse impulses in a  *)
(* row put the trade at risk, except in the grace period.                  *)
NextPhase(d, pips) ==
  IF Onward(d, pips) # "ENTRY_TRIGGERED" /\ Adverses(d) = 5
  THEN "REVERSAL_RISK" ELSE Onward(d, pips)

Clamp(n) == IF n < 0 THEN 0 ELSE UpTo(n, Full)

Drain(p) == IF p = "REVERSAL_RISK" THEN 3 ELSE 0

(* _update_confidence, in the phase that _transition has left              *)
NextConf(d, p) ==
  IF p = "ENTRY_TRIGGERED" THEN conf
  ELSE LET c == CASE d = "favourable" -> UpTo(conf + 4, Full)
                  [] d = "adverse"    -> conf - 6
                  [] d = "exhaustion" -> conf - 2
                  [] OTHER            -> conf
       IN  Clamp(c - Drain(p))

-----------------------------------------------------------------------------
(* TradeHealthMonitor.evaluate                                             *)
SlipCounted(gap) == gap

Counted(gap) == IF gap > WatchGap THEN 1 ELSE gap

(* _market_energy                                                          *)
AgainstNow(d) == IF d = "adverse" THEN UpTo(against + 1, 3) ELSE 0

Energy(d) ==
  CASE d = "adverse" /\ AgainstNow(d) = 3 -> "ADVERSE_IMPULSE"
    [] d = "favourable"                -> "HEALTHY_IMPULSE"
    [] d = "exhaustion"                -> "EXHAUSTING"
    [] OTHER                           -> "NOISE"

SlipImpulsePenalty(e, p) == IF e = "ADVERSE_IMPULSE" THEN 85 ELSE 0

(* ENERGY_PHASE_PENALTIES                                                  *)
ImpulsePenalty(e, p) ==
  CASE e = "ADVERSE_IMPULSE" /\ p \in {"EXPANSION", "COMPRESSION"} -> 30
    [] e = "ADVERSE_IMPULSE" /\ p = "CONTINUATION"                 -> 20
    [] e = "ADVERSE_IMPULSE" /\ p = "EXHAUSTION"                   -> 40
    [] e = "ADVERSE_IMPULSE" /\ p = "REVERSAL_RISK"                -> 50
    [] e = "EXHAUSTING" /\ p = "CONTINUATION"                      -> 30
    [] e = "EXHAUSTING" /\ p = "EXPANSION"                         -> 10
    [] OTHER                                                       -> 0

(* trade_duration: the last tick's time less _entry_time                   *)
TradeAge == elapsed + lead

(* Beyond this time the age is beyond every limit.                         *)
Enough == IF lead < Oldest THEN Oldest - lead ELSE 0

Limit(r) == IF r = "trend" THEN TrendDrawdown ELSE RangeDrawdown

(* The causes of evaluate that take time to build up.                      *)
Shifted(r) == regimeIn # r /\ TradeAge' > ShiftAge /\ r = "against"

SlowPenalty(pips, r) ==
  (IF TradeAge' > Stagnation /\ best' < 5 /\ pips < 2 THEN 85 ELSE 0)
  + (IF under' > Limit(r) THEN 85 ELSE 0)
  + (IF best' > 10 /\ pips < -2 THEN 85 ELSE 0)
  + (IF Shifted(r) THEN 40 ELSE 0)

(* score < 0.2: 1.0 - 0.4 - 0.4 is below 0.2 in floating point.            *)
Failing(pips, d, p, r) == SlowPenalty(pips, r) + ImpulsePenalty(Energy(d), p) >= 80

(* update of the phase tracker.                                            *)
PhaseTick(d, pips) ==
  /\ phase' = NextPhase(d, pips)
  /\ conf' = NextConf(d, phase')
  /\ impulses' = Impulses(d) /\ adverses' = Adverses(d)

(* One tick of a registered trade: the phase, and then its health.         *)
Watch(d, pips, r, gap) ==
  /\ active /\ tradeTicks < MaxTicks
  /\ PhaseTick(d, pips)
  /\ elapsed' = UpTo(elapsed + gap, Enough) /\ UNCHANGED lead
  /\ under' = IF pips < 0 THEN UpTo(under + Counted(sinceLast + gap), Longest) ELSE under
  /\ best' = IF pips > best THEN pips ELSE best
  /\ sinceLast' = 0
  /\ against' = AgainstNow(d)
  /\ failing' = Failing(pips, d, phase', r)
  /\ tradeTicks' = tradeTicks + 1
  /\ UNCHANGED <<active, regimeIn>>

WatchNext ==
  \/ Open \/ Close
  \/ \E d \in Displacement, pips \in Pips, r \in Regime, gap \in Gaps :
       Watch(d, pips, r, gap)

WatchSpec == WatchInit /\ [][WatchNext]_watchVars

-----------------------------------------------------------------------------
(* How long before its time a verdict that asks for an age may come.       *)
Ahead == IF lead > 0 THEN lead ELSE 0

(* What a verdict on a trade takes.  The confidence falls below the        *)
(* protected zone after nine ticks at the least: an entry cannot be undone *)
(* by a burst of noise.  What makes a trade fail, whatever impulse meets   *)
(* it in whatever phase, is a long drawdown, ten pips given back, or the   *)
(* age at which a shift of the regime or stagnation counts, and that age   *)
(* is the trade's own, in true time, but for what the broker's clock is    *)
(* ahead of the host's: where that is more than the limit, as it is with a *)
(* host on UTC and a broker two hours east of it, a trade may fail on its  *)
(* first tick, and nothing is claimed.  And a pause of the feed, a weekend *)
(* or a lost link, is not drawdown: no tick adds more than WatchGap to the *)
(* time under water, by whatever clock.                                    *)
VerdictsTakeTime ==
  /\ conf < Protect => tradeTicks >= 9
  /\ failing => \/ under > RangeDrawdown \/ under > TrendDrawdown \/ best > 10
                \/ elapsed > ShiftAge - Ahead
  /\ active => under <= tradeTicks * WatchGap
=============================================================================
