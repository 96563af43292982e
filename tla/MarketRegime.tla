----------------------------- MODULE MarketRegime -----------------------------
(***************************************************************************)
(* RegimeEngine.update (regime_engine.py), on every M15 bar that closes:   *)
(* the regime of the market, from scores of each regime that the last five *)
(* bars smooth, and that a change must beat by a margin.  Scores are       *)
(* percentages; what they are computed from is an input of each bar.       *)
(* Texts and the probability of a transition are left out.  The code adds  *)
(* tenths as floats: a lead of exactly the margin is decided by rounding   *)
(* there, so that the readings under check should have none.               *)
(***************************************************************************)
EXTENDS Integers, Sequences

CONSTANTS
  BarReadings,  \* what a bar measures, see ScoresOf
  Settling      \* bars of one reading that make the market steady

ASSUME RegimeAssumption == Settling \in Nat \ {0}

VARIABLES
  barsSeen,     \* candles, up to 20
  ruling, ruledBefore,  \* _current_regime, _previous_regime
  ruledFor,     \* _regime_bars, up to Settling
  scoreHistory, \* _regime_score_history: the last five scores
  lastReading,  \* history: the reading of the last bar
  steady        \* history: bars in a row that brought it, up to Settling

regimeVars == <<barsSeen, ruling, ruledBefore, ruledFor, scoreHistory, lastReading, steady>>

(* ALL_REGIMES                                                             *)
RegimeOrder ==
  <<"TREND_EXPANSION", "TREND_CONTINUATION", "RANGE_CHOP", "COMPRESSION", "BREAKOUT",
    "EXHAUSTION", "REVERSAL">>
AllRegimes == {RegimeOrder[i] : i \in 1 .. 7}
Margin == 15

RegimeTypeOK ==
  /\ barsSeen \in 0 .. 20 /\ ruling \in AllRegimes /\ ruledBefore \in AllRegimes \cup {""}
  /\ ruledFor \in 0 .. Settling
  /\ scoreHistory \in Seq([AllRegimes -> 0 .. 100]) /\ Len(scoreHistory) <= 5
  /\ lastReading \in BarReadings /\ steady \in 0 .. Settling

RegimeInit ==
  /\ barsSeen = 0 /\ ruling = "RANGE_CHOP" /\ ruledBefore = "" /\ ruledFor = 0
  /\ scoreHistory = <<>> /\ lastReading \in BarReadings /\ steady = 0

If(condition, points) == IF condition THEN points ELSE 0

(* The scoring functions.  A reading has the distance of the averages in   *)
(* pips (ema), percentages (rank, eff, ratio), the class of the move, and  *)
(* flags.  Three scores add a bonus for the regime that rules.             *)
ScoresOf(r) ==
  [g \in AllRegimes |->
     CASE g = "TREND_EXPANSION" ->
            If(r.ema > 5, 30) + If(r.rising, 25) + If(r.class = "IMPULSE", 30) + If(r.eff > 50, 15)
       [] g = "TREND_CONTINUATION" ->
            If(r.ema \in 3 .. 14, 35) + If(r.rank \in 31 .. 79, 25) + If(r.ratio \in 31 .. 69, 20)
            + If(~r.fading, 20)
       [] g = "RANGE_CHOP" ->
            If(r.ema < 3, 30) + If(r.ratio < 30, 25) + If(r.rank \in 21 .. 69, 20) + If(r.eff < 30, 25)
       [] g = "COMPRESSION" ->
            If(r.squeeze, 35) + If(r.shrinking, 30) + If(r.slow, 20) + If(r.rank < 25, 15)
       [] g = "BREAKOUT" ->
            If(r.surge, 30) + If(r.unusual, 25) + If(r.class = "IMPULSE", 30)
            + If(ruling = "COMPRESSION", 15)
       [] g = "EXHAUSTION" ->
            If(r.fading, 35) + If(r.class = "EXHAUSTION", 30) + If(r.eff < 15, 20)
            + If(ruling \in {"TREND_EXPANSION", "BREAKOUT"}, 15)
       [] g = "REVERSAL" ->
            If(r.class = "TRAP", 25) + If(r.fading /\ r.ratio < 20, 25) + If(r.skewed, 20)
            + If(ruling = "EXHAUSTION", 30)]

(* _smooth_scores, without dividing by the sum of the weights: the powers  *)
(* of two, the most recent score has the highest.                          *)
Weights == <<1, 2, 4, 8, 16>>

Smoothed(history, g) ==
  LET sum[i \in 0 .. Len(history)] ==
        IF i = 0 THEN 0 ELSE sum[i - 1] + Weights[i] * history[i][g]
  IN  sum[Len(history)]

(* The best regime; of equal ones, the first.                              *)
Winner(history) ==
  LET Of(i) == Smoothed(history, RegimeOrder[i])
      Beats(i, j) == Of(i) > Of(j) \/ (Of(i) = Of(j) /\ i <= j)
  IN  RegimeOrder[CHOOSE i \in 1 .. 7 : \A j \in 1 .. 7 : Beats(i, j)]

SlipNewRegime(history) == Winner(history)

(* Hysteresis: the best regime takes over when it leads by the margin.     *)
NewRegime(history) ==
  LET best == Winner(history)
      lead == Smoothed(history, best) - Smoothed(history, ruling)
  IN  IF lead < Margin * (2 ^ Len(history) - 1) THEN ruling ELSE best

Latest5(history) == IF Len(history) > 5 THEN Tail(history) ELSE history
Upward(n) == IF n < Settling THEN n + 1 ELSE n

(* update: the first nineteen bars are only counted.                       *)
RegimeBar(reading) ==
  LET history == Latest5(Append(scoreHistory, ScoresOf(reading)))
  IN  /\ barsSeen' = IF barsSeen < 20 THEN barsSeen + 1 ELSE 20
      /\ lastReading' = reading
      /\ IF barsSeen' < 20
         THEN UNCHANGED <<ruling, ruledBefore, ruledFor, scoreHistory, steady>>
         ELSE /\ scoreHistory' = history
              /\ ruling' = NewRegime(history)
              /\ ruledBefore' = IF ruling' # ruling THEN ruling ELSE ruledBefore
              /\ ruledFor' = IF ruling' # ruling THEN 1 ELSE Upward(ruledFor)
              /\ steady' = IF reading = lastReading THEN Upward(steady) ELSE 0

RegimeNext == \E reading \in BarReadings : RegimeBar(reading)

RegimeSpec == RegimeInit /\ [][RegimeNext]_regimeVars

-----------------------------------------------------------------------------
(* The bonuses that scores take from the regime that rules do not set the  *)
(* regime swinging: whatever came before, a market that brings the same    *)
(* reading bar after bar ends in one regime and stays there.  It is the    *)
(* margin that stops a regime from giving way to the one that it favours,  *)
(* and from coming back as soon as the favour is gone.                     *)
RegimeSettles == [][steady' = Settling => ruling' = ruling]_regimeVars
=============================================================================
