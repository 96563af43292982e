-------------------------------- MODULE Tempo --------------------------------
(***************************************************************************)
(* VelocityNormalizer.update (velocity_normalizer.py) and, after it,       *)
(* DisplacementEngine.update (displacement_engine.py): how fast the price  *)
(* moves, compared with its own past, and what sort of move that makes.    *)
(* ReversalModel.on_tick runs both first on every tick.                    *)
(*                                                                         *)
(* Speeds are whole numbers, and the peak is rounded down as it fades;     *)
(* times are seconds.  Ranks, scores, ratios and the length of the path    *)
(* are inputs, once enough ticks have come for them to be measured.        *)
(* Rates, volumes and directions are left out.                             *)
(***************************************************************************)
EXTENDS Integers

CONSTANTS
  Speeds,       \* values of abs_velocity
  Lulls,        \* times between two ticks
  Lull,         \* 5: a longer pause resets the peak
  SpeedWindow,  \* _vel_window_sec
  MoveReadings, \* what a tick measures: [rank, score, path, ratio, eff]
  DecayTicks,   \* decay_ticks_threshold
  Patience,     \* 50: ticks after which the peak fades
  FadeTo,       \* 995: thousandths of it that a tick leaves
  RankAfter,    \* 10: speeds that a percentile takes
  ScoreAfter,   \* 30: speeds that a z-score takes
  BacktestMode  \* backtest_mode

ASSUME TempoAssumption ==
  /\ Speeds \subseteq Nat /\ Lulls \subseteq Nat /\ Lull \in Nat /\ SpeedWindow \in Nat
  /\ DecayTicks \in Nat /\ Patience \in Nat /\ DecayTicks < Patience
  /\ FadeTo \in 0 .. 1000
  /\ RankAfter \in Nat /\ ScoreAfter \in Nat /\ RankAfter <= ScoreAfter
  /\ BacktestMode \in BOOLEAN

VARIABLES
  received,     \* ticks received, up to 5
  peakSpeed, decayTicks,   \* _peak_velocity; _peak_decay_ticks, up to Patience + 1
  lastSpeed,    \* _prev_velocity; it and _prev_timestamp are set from the third tick on
  rises,        \* _accel_direction_count, up to 3
  measured,     \* length of the histories, up to ScoreAfter
  decaying, accelerating,  \* is_decaying, is_accelerating
  class,        \* classification
  calm,         \* history: ticks since the last pause, up to DecayTicks + 2
  fastest       \* history: the highest speed of them

tempoVars == <<received, peakSpeed, decayTicks, lastSpeed, rises, measured, decaying,
               accelerating, class, calm, fastest>>

Classes == {"IMPULSE", "ABSORPTION", "TRAP", "EXHAUSTION", "COMPRESSION", "NEUTRAL"}

TempoTypeOK ==
  /\ received \in 0 .. 5 /\ peakSpeed \in Nat /\ decayTicks \in 0 .. Patience + 1
  /\ lastSpeed \in Speeds \cup {0} /\ fastest \in Speeds \cup {0}
  /\ rises \in 0 .. 3 /\ measured \in 0 .. ScoreAfter
  /\ decaying \in BOOLEAN /\ accelerating \in BOOLEAN /\ class \in Classes
  /\ calm \in 0 .. DecayTicks + 2

TempoInit ==
  /\ received = 0 /\ peakSpeed = 0 /\ decayTicks = 0 /\ lastSpeed = 0 /\ rises = 0
  /\ measured = 0 /\ decaying = FALSE /\ accelerating = FALSE /\ class = "NEUTRAL"
  /\ calm = 0 /\ fastest = 0

CountTo(n, top) == IF n < top THEN n + 1 ELSE top

(* The pause before a tick is long: a new context.  The first three ticks  *)
(* do not look, as no time is kept yet.                                    *)
Paused(lull) == received >= 3 /\ lull > Lull

SlipPeakBefore(lull) == peakSpeed

PeakBefore(lull) == IF Paused(lull) THEN 0 ELSE peakSpeed

(* The peak, and the ticks since it was reached.                           *)
TrackPeak(lull, v) ==
  IF v > PeakBefore(lull) THEN [peak |-> v, ticks |-> 0]
  ELSE [peak |-> PeakBefore(lull),
        ticks |-> IF Paused(lull) THEN 1 ELSE CountTo(decayTicks, Patience + 1)]

(* _percentile and _z_score, the latter in tenths: 50 and 0 until enough   *)
(* speeds were measured.                                                   *)
Rank(reading)  == IF measured' >= RankAfter THEN reading.rank ELSE 50
Score(reading) == IF measured' >= ScoreAfter THEN reading.score ELSE 0

Unusual(reading) == Rank(reading) > 90 \/ Score(reading) > 20

(* _classify; percentages and tenths of pips.                              *)
Classify(r) ==
  LET fast == Unusual(r) \/ Score(r) > 15
  IN  IF decaying' /\ r.path > 30 THEN "EXHAUSTION"
      ELSE IF fast /\ r.ratio >= 60 THEN "IMPULSE"
      ELSE IF (fast \/ BacktestMode) /\ r.ratio < 25
           THEN IF r.eff < 15 THEN "ABSORPTION" ELSE "TRAP"
      ELSE IF Score(r) < -5 /\ r.ratio < 30 /\ r.eff < 30 THEN "COMPRESSION"
      ELSE "NEUTRAL"

(* VelocityNormalizer.update, of a tick after the second.                  *)
Measure(lull, v) ==
  LET track == TrackPeak(lull, v)
  IN  /\ measured' = CountTo(measured, ScoreAfter)
      /\ rises' = IF received >= 3 /\ lull > 0 /\ v > lastSpeed THEN CountTo(rises, 3) ELSE 0
      /\ lastSpeed' = v /\ accelerating' = (rises' = 3)
      /\ decaying' = (2 * v < track.peak /\ track.ticks > DecayTicks)
      /\ decayTicks' = track.ticks
      /\ peakSpeed' = IF track.ticks > Patience THEN (track.peak * FadeTo) \div 1000
                      ELSE track.peak
      /\ calm' = IF Paused(lull) THEN 1 ELSE CountTo(calm, DecayTicks + 2)
      /\ fastest' = IF Paused(lull) \/ v > fastest THEN v ELSE fastest

(* update of both.  A window with one tick has no speed.  Until there are  *)
(* five ticks of the last five minutes (enough) no move is classified.     *)
SpeedTick(lull, v, reading, enough) ==
  /\ lull > SpeedWindow => v = 0
  /\ received' = CountTo(received, 5)
  /\ IF received' < 3
     THEN UNCHANGED <<peakSpeed, decayTicks, lastSpeed, rises, measured, decaying,
                      accelerating, calm, fastest>>
     ELSE Measure(lull, v)
  /\ enough => received' = 5 /\ lull <= 300
  /\ class' = IF enough THEN Classify(reading) ELSE "NEUTRAL"

TempoNext ==
  \E lull \in Lulls, v \in Speeds, reading \in MoveReadings, enough \in BOOLEAN :
    SpeedTick(lull, v, reading, enough)

TempoSpec == TempoInit /\ [][TempoNext]_tempoVars

-----------------------------------------------------------------------------
(* What is read off the speed is earned by the market, not by a pause of   *)
(* the feed or by a short memory.  A move counts as decaying only after    *)
(* more than DecayTicks ticks, none of them after a pause, that did not    *)
(* beat a speed of more than twice the present one, and exhaustion is such *)
(* a move.  Nothing is called an impulse or a compression before its speed *)
(* could be compared with enough others, nor, outside backtests, a trap.   *)
ReadingsEarned ==
  /\ decaying => calm = DecayTicks + 2 /\ 2 * lastSpeed < fastest
  /\ class = "EXHAUSTION" => decaying
  /\ class = "IMPULSE" \/ (class \in {"TRAP", "ABSORPTION"} /\ ~BacktestMode)
       => measured >= RankAfter
  /\ class = "COMPRESSION" => measured = ScoreAfter
=============================================================================
