------------------------------ MODULE LiveWorld ------------------------------
(***************************************************************************)
(* LiveWorldState (live_state.py): the state of the market that the daemon *)
(* brings up to date on every tick and bar, and the gate that follows from *)
(* it.  Scores and weights are percentages; spread and range are in tenths *)
(* of a pip.  What the scores are computed from (moving averages, volumes, *)
(* the rolling windows) is an input of each bar.  The currencies' strength *)
(* and the RSI play no part in the gate and are left out.                  *)
(***************************************************************************)
EXTENDS Integers

CONSTANTS
  Spreads,        \* spreads that ticks bring
  Ranges,         \* values of the H1 ATR
  Scores,         \* values of a regime's score and of the session's quality
  Base,           \* realtime_belief_threshold
  SuppressAsian,  \* realtime_suppress_asian
  Warmup          \* M15 bars for which the regime is held at ranging

ASSUME WorldAssumption ==
  /\ Spreads \subseteq Nat /\ Ranges \subseteq Nat /\ Scores \subseteq 0 .. 100
  /\ Base \in 0 .. 100 /\ SuppressAsian \in BOOLEAN /\ Warmup \in Nat

VARIABLES
  session, spread, spreadSafe, atr,
  regime, confidence, trend,  \* dominant_regime, regime_confidence, the trending score
  quality,                    \* session_quality
  volatility,                 \* volatility_regime
  quarters,                   \* _m15_candles_since_init, up to Warmup + 1
  runGraph                    \* should_run_graph

worldVars == <<session, spread, spreadSafe, atr, regime, confidence, trend, quality,
               volatility, quarters, runGraph>>

Session == {"asian", "london", "overlap", "newyork", "rollover"}
Regimes == {"trending", "ranging", "breakout", "compression"}

WorldTypeOK ==
  /\ session \in Session /\ spread \in Spreads /\ spreadSafe \in BOOLEAN
  /\ atr \in Ranges /\ regime \in Regimes /\ confidence \in 0 .. 100 /\ trend \in 0 .. 100
  /\ quality \in Scores \cup {0} /\ volatility \in {"low", "medium", "high"}
  /\ quarters \in 0 .. Warmup + 1 /\ runGraph \in BOOLEAN

(* on_tick: the spread is safe below three tenths of the ATR.              *)
SafeSpread(s, a) == a > 0 /\ 10 * s < 3 * a

(* on_tick: the session's penalty, in quarters.                            *)
Penalty(s) ==
  IF s = "rollover" THEN 2 ELSE IF s = "asian" /\ SuppressAsian THEN 1 ELSE 4

Clip(x, lo, hi) == IF x < lo THEN lo ELSE IF x > hi THEN hi ELSE x

(* _recompute_belief: the score of the spread, to a percent.               *)
SpreadScore(s, safe, a) ==
  IF safe THEN 100
  ELSE IF a = 0 THEN IF s = 0 THEN 100 ELSE 0
  ELSE Clip(100 - (100 * s) \div (3 * a), 0, 100)

(* _recompute_belief: 35, 25, 20 and 20 percent.                           *)
Belief(s, safe, a, conf, tr, q) ==
  35 * conf + 25 * q + 20 * tr + 20 * SpreadScore(s, safe, a)

(* _recompute_belief: the threshold of the regime and the volatility.      *)
Threshold(reg, vol) ==
  Clip(Base + (IF reg = "ranging" THEN 5 ELSE IF reg = "trending" THEN -5 ELSE 0)
            + (IF vol = "low" THEN 5 ELSE IF vol = "high" THEN -2 ELSE 0), 45, 75)

SlipGate ==
  Belief(spread', spreadSafe', atr', confidence', trend', quality') * Penalty(session)
    > 400 * Threshold(regime', volatility')

(* should_run_graph, of the values after the step.                         *)
Gate ==
  Belief(spread', spreadSafe', atr', confidence', trend', quality') * Penalty(session')
    > 400 * Threshold(regime', volatility')

Recompute == runGraph' = Gate

(* _update_regimes and build_world_state: ranging is what trending,        *)
(* breakout and panic leave over (brk stands for the better of the last    *)
(* two); of equal scores the first named wins.                             *)
Rest(tr, brk) == 100 - (IF tr > brk THEN tr ELSE brk)

Ranked(tr, brk, comp) ==
  LET rest == Rest(tr, brk)
  IN  IF tr >= rest /\ tr >= brk /\ tr >= comp
      THEN [name |-> "trending", score |-> tr]
      ELSE IF rest >= brk /\ rest >= comp THEN [name |-> "ranging", score |-> rest]
      ELSE IF brk >= comp THEN [name |-> "breakout", score |-> brk]
      ELSE [name |-> "compression", score |-> comp]

(* build_world_state measures the spread against the ATR, and names the    *)
(* session by the clocks of London and New York.                           *)
Measured ==
  /\ spread \in Spreads /\ atr \in Ranges /\ spreadSafe = SafeSpread(spread, atr)
  /\ session \in Session /\ quality \in Scores /\ volatility \in {"low", "medium", "high"}

(* build_world_state, which gates at a fixed 60 percent; initialize judges *)
(* the gate anew in the Asian session.                                     *)
BuiltState ==
  /\ Measured
  /\ \E tr, brk, comp \in Scores :
       /\ trend = tr /\ regime = Ranked(tr, brk, comp).name
       /\ confidence = Ranked(tr, brk, comp).score
  /\ runGraph = (Belief(spread, spreadSafe, atr, confidence, trend, quality)
                    * Penalty(session)
                  > 400 * (IF session = "asian" THEN Base - 5 ELSE 60))

(* build_world_state without a terminal or after an exception: a wide      *)
(* spread and a belief of zero.                                            *)
Fallback ==
  /\ spread \in Spreads /\ atr \in Ranges /\ ~SafeSpread(spread, atr) /\ spreadSafe = FALSE
  /\ session = "asian" /\ regime = "ranging" /\ confidence = 100
  /\ trend = 0 /\ quality = 0 /\ volatility = "low" /\ runGraph = FALSE

(* initialize.  The windows that _seed_from_history fills, or fails to     *)
(* fill, decide what a bar measures later (enough).                        *)
WorldInit ==
  /\ quarters = 0
  /\ BuiltState \/ Fallback

(* on_tick, at any hour: ticks may stop over a session's change.           *)
WorldTick(s, newSession) ==
  /\ session' = newSession /\ spread' = s /\ spreadSafe' = SafeSpread(s, atr)
  /\ UNCHANGED <<atr, regime, confidence, trend, quality, volatility, quarters>>
  /\ Recompute

VolatilityOf(a, before) ==
  IF a = 0 THEN before ELSE IF a > 150 THEN "high" ELSE IF a < 50 THEN "low" ELSE "medium"

(* _update_h1: a new ATR, but the spread is judged by it on the next tick. *)
HourBar(a) ==
  /\ atr' = a /\ volatility' = VolatilityOf(a, volatility)
  /\ UNCHANGED <<session, spread, spreadSafe, regime, confidence, trend, quality, quarters>>
  /\ Recompute

(* _update_regimes: held at ranging for the first bars; with fewer than    *)
(* twenty hourly bars only the bar is counted.                             *)
QuarterBar(tr, brk, comp, enough) ==
  /\ quarters' = IF quarters > Warmup THEN quarters ELSE quarters + 1
  /\ IF enough
     THEN LET held == quarters' <= Warmup
              best == Ranked(tr, brk, comp)
          IN  /\ trend' = tr
              /\ regime' = IF held THEN "ranging" ELSE best.name
              /\ confidence' = IF held THEN Rest(tr, brk) ELSE best.score
              /\ UNCHANGED <<session, spread, spreadSafe, atr, quality, volatility>>
              /\ Recompute
     ELSE UNCHANGED <<session, spread, spreadSafe, atr, regime, confidence, trend, quality,
                      volatility, runGraph>>

(* _update_volume, on M5 bars: the belief is left as it is.                *)
FiveBar(q) ==
  /\ quality' = q
  /\ UNCHANGED <<session, spread, spreadSafe, atr, regime, confidence, trend, volatility,
                 quarters, runGraph>>

WorldNext ==
  \/ \E s \in Spreads, next \in Session : WorldTick(s, next)
  \/ \E a \in Ranges : HourBar(a)
  \/ \E tr, brk, comp \in Scores, enough \in BOOLEAN : QuarterBar(tr, brk, comp, enough)
  \/ \E q \in Scores : FiveBar(q)

WorldSpec == WorldInit /\ [][WorldNext]_worldVars

-----------------------------------------------------------------------------
(* The gate is open in no session that is to be avoided, although it is    *)
(* judged anew on some steps only and by thresholds that the regime and    *)
(* the volatility lower: not in the rollover, and not in the Asian session *)
(* where that is suppressed.                                               *)
ShutOutsideHours ==
  runGraph => session # "rollover" /\ (SuppressAsian => session # "asian")
=============================================================================
