--------------------------- MODULE Market_proofs ----------------------------
(* Theorems about the engines that judge the market: its tempo, its        *)
(* regime, the state of the world and its gate, the events of the levels,  *)
(* and the peaks.                                                          *)
EXTENDS Tempo, MarketRegime, LiveWorld, EventDetector, Peaks, LeastElements, FiniteSetTheorems,
        SequenceTheorems, TLAPS

-----------------------------------------------------------------------------
(* Tempo, for whatever speeds, pauses, readings and thresholds. The        *)
(* invariant bounds the peak, faded or not, by what the market has done    *)
(* since the last pause, and says that the ticks counted since a peak were *)
(* all ticks since that pause.                                             *)

(* The peak was reached since the last pause, and so were its ticks.       *)
PeakEarned == peakSpeed <= fastest
TicksEarned == peakSpeed > 0 => decayTicks < calm \/ calm = DecayTicks + 2

TempoInv == TempoTypeOK /\ PeakEarned /\ TicksEarned /\ ReadingsEarned

LEMMA FadedIsLower ==
  ASSUME NEW p \in Nat, NEW f \in 0 .. 1000
  PROVE  /\ (p * f) \div 1000 \in Nat
         /\ (p * f) \div 1000 <= p
         /\ (p * f) \div 1000 > 0 => p > 0
<1>1. p * f \in Nat /\ (p = 0 => p * f = 0)
  OBVIOUS
<1>2. p * (1000 - f) \in Nat
  OBVIOUS
<1>3. p * f <= p * 1000
  BY <1>2
<1>4. ASSUME NEW q \in Nat, q <= p * 1000 PROVE q \div 1000 \in Nat /\ q \div 1000 <= p
  BY <1>4
<1> QED
  BY <1>1, <1>3, <1>4

LEMMA Counting ==
  ASSUME NEW top \in Nat, NEW n \in 0 .. top
  PROVE  /\ CountTo(n, top) \in 0 .. top
         /\ CountTo(n, top) = n + 1 \/ (CountTo(n, top) = top /\ n = top)
BY DEF CountTo

(* What TrackPeak makes of the peak and of the ticks since.                *)
LEMMA Tracked ==
  ASSUME TempoInv, NEW lull \in Lulls, NEW v \in Speeds
  PROVE  LET track == TrackPeak(lull, v)
             since == IF Paused(lull) THEN 1 ELSE CountTo(calm, DecayTicks + 2)
             top   == IF Paused(lull) \/ v > fastest THEN v ELSE fastest
         IN  /\ track.peak \in Nat /\ track.ticks \in 0 .. Patience + 1
             /\ since \in 1 .. DecayTicks + 2 /\ top \in Speeds \cup {0} /\ v <= top
             /\ track.peak <= top
             /\ track.peak > 0 => track.ticks < since \/ since = DecayTicks + 2
<1> DEFINE track == TrackPeak(lull, v)
           since == IF Paused(lull) THEN 1 ELSE CountTo(calm, DecayTicks + 2)
           top   == IF Paused(lull) \/ v > fastest THEN v ELSE fastest
<1>1. /\ v \in Nat /\ peakSpeed \in Nat /\ fastest \in Nat /\ fastest \in Speeds \cup {0}
      /\ DecayTicks \in Nat /\ Patience \in Nat /\ DecayTicks < Patience
      /\ decayTicks \in 0 .. Patience + 1 /\ calm \in 0 .. DecayTicks + 2
      /\ peakSpeed <= fastest
      /\ peakSpeed > 0 => decayTicks < calm \/ calm = DecayTicks + 2
  BY TempoAssumption DEF TempoInv, TempoTypeOK, PeakEarned, TicksEarned
<1>2. top \in Speeds \cup {0} /\ v <= top
  BY <1>1
<1>3. /\ CountTo(calm, DecayTicks + 2) \in 1 .. DecayTicks + 2
      /\ CountTo(calm, DecayTicks + 2) = calm + 1 \/ CountTo(calm, DecayTicks + 2) = DecayTicks + 2
  BY <1>1 DEF CountTo
<1>4. /\ CountTo(decayTicks, Patience + 1) \in 0 .. Patience + 1
      /\ CountTo(decayTicks, Patience + 1) <= decayTicks + 1
  BY <1>1 DEF CountTo
<1>5. CASE Paused(lull)
  <2>1. /\ track = IF v > 0 THEN [peak |-> v, ticks |-> 0] ELSE [peak |-> 0, ticks |-> 1]
        /\ since = 1 /\ top = v
    BY <1>5 DEF TrackPeak, PeakBefore
  <2> QED
    BY <1>1, <1>2, <2>1
<1>6. CASE ~Paused(lull)
  <2>1. /\ track = IF v > peakSpeed THEN [peak |-> v, ticks |-> 0]
                   ELSE [peak |-> peakSpeed, ticks |-> CountTo(decayTicks, Patience + 1)]
        /\ since = CountTo(calm, DecayTicks + 2)
        /\ top = IF v > fastest THEN v ELSE fastest
    BY <1>6 DEF TrackPeak, PeakBefore
  <2> HIDE DEF track, since, top
  <2>2. CASE v > peakSpeed
    <3>1. track.peak = v /\ track.ticks = 0
      BY <2>1, <2>2
    <3> QED
      BY <1>1, <1>2, <1>3, <2>1, <3>1 DEF track, since, top
  <2>3. CASE ~(v > peakSpeed)
    <3>1. track.peak = peakSpeed /\ track.ticks = CountTo(decayTicks, Patience + 1)
      BY <2>1, <2>3
    <3>2. track.peak > 0 => track.ticks < since \/ since = DecayTicks + 2
      BY <1>1, <1>3, <1>4, <2>1, <3>1
    <3>3. track.peak <= top
      BY <1>1, <2>1, <3>1
    <3> QED
      BY <1>1, <1>2, <1>3, <1>4, <2>1, <3>1, <3>2, <3>3 DEF track, since, top
  <2> QED
    BY <2>2, <2>3
<1> QED
  BY <1>5, <1>6

(* A measured tick.                                                        *)
LEMMA MeasureKeeps ==
  ASSUME TempoInv, NEW lull \in Lulls, NEW v \in Speeds, Measure(lull, v)
  PROVE  /\ measured' \in 0 .. ScoreAfter /\ rises' \in 0 .. 3 /\ lastSpeed' \in Speeds
         /\ decaying' \in BOOLEAN /\ accelerating' \in BOOLEAN
         /\ peakSpeed' \in Nat /\ decayTicks' \in 0 .. Patience + 1
         /\ calm' \in 0 .. DecayTicks + 2 /\ fastest' \in Speeds \cup {0}
         /\ PeakEarned' /\ TicksEarned'
         /\ decaying' => calm' = DecayTicks + 2 /\ 2 * lastSpeed' < fastest'
<1> DEFINE track == TrackPeak(lull, v)
           since == IF Paused(lull) THEN 1 ELSE CountTo(calm, DecayTicks + 2)
           top   == IF Paused(lull) \/ v > fastest THEN v ELSE fastest
<1>1. /\ track.peak \in Nat /\ track.ticks \in 0 .. Patience + 1
      /\ since \in 1 .. DecayTicks + 2 /\ top \in Speeds \cup {0} /\ v <= top
      /\ track.peak <= top
      /\ track.peak > 0 => track.ticks < since \/ since = DecayTicks + 2
  BY Tracked
<1>2. /\ calm' = since /\ fastest' = top /\ lastSpeed' = v /\ decayTicks' = track.ticks
      /\ decaying' = (2 * v < track.peak /\ track.ticks > DecayTicks)
      /\ peakSpeed' = IF track.ticks > Patience THEN (track.peak * FadeTo) \div 1000
                      ELSE track.peak
  BY DEF Measure
<1>3. v \in Nat /\ top \in Nat /\ DecayTicks \in Nat /\ Patience \in Nat
  <2>1. Speeds \subseteq Nat /\ DecayTicks \in Nat /\ Patience \in Nat
    BY TempoAssumption
  <2> HIDE DEF top
  <2> QED
    BY <1>1, <2>1
<1> HIDE DEF track, since, top
<1>4. peakSpeed' \in Nat /\ peakSpeed' <= track.peak /\ (peakSpeed' > 0 => track.peak > 0)
  <2>1. /\ (track.peak * FadeTo) \div 1000 \in Nat
        /\ (track.peak * FadeTo) \div 1000 <= track.peak
        /\ (track.peak * FadeTo) \div 1000 > 0 => track.peak > 0
    <3>1. FadeTo \in 0 .. 1000
      BY TempoAssumption
    <3> QED
      BY <1>1, <3>1, FadedIsLower
  <2> QED
    BY <1>1, <1>2, <2>1
<1>5. PeakEarned' /\ TicksEarned'
  BY <1>1, <1>2, <1>3, <1>4 DEF PeakEarned, TicksEarned
<1>6. decaying' => calm' = DecayTicks + 2 /\ 2 * lastSpeed' < fastest'
  <2> SUFFICES ASSUME decaying' PROVE calm' = DecayTicks + 2 /\ 2 * lastSpeed' < fastest'
    OBVIOUS
  <2>1. 2 * v < track.peak /\ track.ticks > DecayTicks
    BY <1>2
  <2>2. track.peak > 0
    BY <1>1, <1>3, <2>1
  <2> QED
    BY <1>1, <1>2, <1>3, <2>1, <2>2
<1>7. measured' \in 0 .. ScoreAfter /\ rises' \in 0 .. 3
  <2>1. measured' = CountTo(measured, ScoreAfter)
        /\ (rises' = CountTo(rises, 3) \/ rises' = 0)
    BY DEF Measure
  <2>2. ScoreAfter \in Nat /\ measured \in 0 .. ScoreAfter /\ rises \in 0 .. 3
    BY TempoAssumption DEF TempoInv, TempoTypeOK
  <2>3. CountTo(measured, ScoreAfter) \in 0 .. ScoreAfter
    BY <2>2, Counting
  <2>4. CountTo(rises, 3) \in 0 .. 3
    BY <2>2, Counting
  <2> QED
    BY <2>1, <2>3, <2>4
<1>8. accelerating' \in BOOLEAN
  BY DEF Measure
<1> QED
  BY <1>1, <1>2, <1>3, <1>4, <1>5, <1>6, <1>7, <1>8

(* A move is classified by what has been measured.                         *)
LEMMA ClassEarned ==
  ASSUME measured' \in 0 .. ScoreAfter, NEW r
  PROVE  /\ Classify(r) \in Classes
         /\ Classify(r) = "EXHAUSTION" => decaying'
         /\ Classify(r) = "IMPULSE" \/ (Classify(r) \in {"TRAP", "ABSORPTION"} /\ ~BacktestMode)
              => measured' >= RankAfter
         /\ Classify(r) = "COMPRESSION" => measured' = ScoreAfter
<1>1. measured' < RankAfter => Rank(r) = 50 /\ Score(r) = 0
  BY TempoAssumption DEF Rank, Score
<1>2. measured' < ScoreAfter => Score(r) = 0
  BY TempoAssumption DEF Score
<1>3. (Unusual(r) \/ Score(r) > 15) => measured' >= RankAfter
  BY <1>1, TempoAssumption DEF Unusual
<1>4. Score(r) < -5 => measured' = ScoreAfter
  BY <1>2, TempoAssumption
<1> QED
  BY <1>3, <1>4 DEF Classify, Classes

LEMMA TempoInvHolds == TempoSpec => []TempoInv
<1>1. TempoInit => TempoInv
  <2>1. ScoreAfter \in Nat /\ Patience \in Nat /\ DecayTicks \in Nat
    BY TempoAssumption
  <2> SUFFICES ASSUME TempoInit PROVE TempoInv
    OBVIOUS
  <2>2. TempoTypeOK
    <3>1. peakSpeed \in Nat /\ decayTicks \in 0 .. Patience + 1 /\ measured \in 0 .. ScoreAfter
          /\ calm \in 0 .. DecayTicks + 2
      BY <2>1 DEF TempoInit
    <3>2. received \in 0 .. 5 /\ rises \in 0 .. 3
      BY DEF TempoInit
    <3>3. lastSpeed \in Speeds \cup {0} /\ fastest \in Speeds \cup {0}
      BY DEF TempoInit
    <3>4. decaying \in BOOLEAN /\ accelerating \in BOOLEAN /\ class \in Classes
      BY DEF TempoInit, Classes
    <3> QED
      BY <3>1, <3>2, <3>3, <3>4 DEF TempoTypeOK
  <2>3. PeakEarned /\ TicksEarned
    BY DEF TempoInit, PeakEarned, TicksEarned
  <2>4. ReadingsEarned
    BY DEF TempoInit, ReadingsEarned
  <2> QED
    BY <2>2, <2>3, <2>4 DEF TempoInv
<1>2. TempoInv /\ [TempoNext]_tempoVars => TempoInv'
  <2> SUFFICES ASSUME TempoInv, [TempoNext]_tempoVars PROVE TempoInv'
    OBVIOUS
  <2>1. ASSUME NEW lull \in Lulls, NEW v \in Speeds, NEW reading \in MoveReadings,
               NEW enough \in BOOLEAN, SpeedTick(lull, v, reading, enough)
        PROVE  TempoInv'
    <3>1. received' \in 0 .. 5
      BY <2>1, Counting DEF SpeedTick, TempoInv, TempoTypeOK
    <3>2. /\ measured' \in 0 .. ScoreAfter /\ rises' \in 0 .. 3
          /\ lastSpeed' \in Speeds \cup {0}
          /\ decaying' \in BOOLEAN /\ accelerating' \in BOOLEAN
          /\ peakSpeed' \in Nat /\ decayTicks' \in 0 .. Patience + 1
          /\ calm' \in 0 .. DecayTicks + 2 /\ fastest' \in Speeds \cup {0}
          /\ PeakEarned' /\ TicksEarned'
          /\ decaying' => calm' = DecayTicks + 2 /\ 2 * lastSpeed' < fastest'
      <4>1. CASE received' < 3
        BY <2>1, <4>1 DEF SpeedTick, TempoInv, TempoTypeOK, PeakEarned, TicksEarned,
                          ReadingsEarned
      <4>2. CASE ~(received' < 3)
        <5>1. Measure(lull, v)
          BY <2>1, <4>2 DEF SpeedTick
        <5> QED
          BY <5>1, MeasureKeeps
      <4> QED
        BY <4>1, <4>2
    <3>3. class' = Classify(reading) \/ class' = "NEUTRAL"
      BY <2>1 DEF SpeedTick
    <3>4. /\ class' \in Classes
          /\ class' = "EXHAUSTION" => decaying'
          /\ class' = "IMPULSE" \/ (class' \in {"TRAP", "ABSORPTION"} /\ ~BacktestMode)
               => measured' >= RankAfter
          /\ class' = "COMPRESSION" => measured' = ScoreAfter
      BY <3>2, <3>3, ClassEarned DEF Classes
    <3> QED
      BY <3>1, <3>2, <3>4 DEF TempoInv, TempoTypeOK, ReadingsEarned
  <2>2. ASSUME UNCHANGED tempoVars PROVE TempoInv'
    BY <2>2 DEF tempoVars, TempoInv, TempoTypeOK, PeakEarned, TicksEarned, ReadingsEarned
  <2> QED
    BY <2>1, <2>2 DEF TempoNext
<1> QED
  BY <1>1, <1>2, PTL DEF TempoSpec

(* The variables of both engines keep their types.                         *)
THEOREM TempoTypeCorrect == TempoSpec => []TempoTypeOK
<1>1. TempoInv => TempoTypeOK
  BY DEF TempoInv
<1> QED
  BY <1>1, TempoInvHolds, PTL

(* No reading of decay, exhaustion, impulse or compression comes from a    *)
(* pause of the feed or from too short a memory.                           *)
THEOREM ReadingsAreEarned == TempoSpec => []ReadingsEarned
<1>1. TempoInv => ReadingsEarned
  BY DEF TempoInv
<1> QED
  BY <1>1, TempoInvHolds, PTL

-----------------------------------------------------------------------------
(* MarketRegime: what the smoothing leaves of up to five readings are      *)
(* percentages, whatever the readings, and the regime that rules is one of *)
(* the seven.                                                              *)

LEMMA ProductIsNat ==
  ASSUME NEW x \in Nat, NEW y \in 0 .. 100
  PROVE  x * y \in Nat
OBVIOUS

Scored == [AllRegimes -> 0 .. 100]

LEMMA SmoothedType ==
  ASSUME NEW history \in Seq(Scored), Len(history) <= 5, NEW g \in AllRegimes
  PROVE  Smoothed(history, g) \in Nat
<1> DEFINE n == Len(history)
           F == [i \in 1 .. n |-> [y \in Nat |-> y + Weights[i] * history[i][g]]]
           Sums(f) == f = [i \in 0 .. n |->
                             IF i = 0 THEN 0 ELSE f[i - 1] + Weights[i] * history[i][g]]
<1>1. n \in Nat /\ n <= 5
  OBVIOUS
<1>2. ASSUME NEW i \in 1 .. n PROVE Weights[i] * history[i][g] \in Nat
  <2>1. Weights[i] \in Nat
    BY <1>1 DEF Weights
  <2>2. history[i] \in Scored
    OBVIOUS
  <2>3. history[i][g] \in 0 .. 100
    BY <2>2, Zenon DEF Scored
  <2> HIDE DEF n
  <2> QED
    BY <2>1, <2>3, ProductIsNat, Zenon
<1>3. F \in [1 .. n -> [Nat -> Nat]]
  <2>1. ASSUME NEW i \in 1 .. n, NEW y \in Nat
        PROVE  y + Weights[i] * history[i][g] \in Nat
    BY <1>2
  <2> HIDE DEF n
  <2> QED
    BY <2>1
<1>4. PICK f \in [0 .. n -> Nat] : Iterates(f, n, 0, F)
  <2> HIDE DEF n, F
  <2>1. 0 \in Nat
    OBVIOUS
  <2> QED
    BY <1>1, <1>3, <2>1, Recursion, Zenon
<1>5. Sums(f)
  <2>1. ASSUME NEW i \in 0 .. n
        PROVE  (IF i = 0 THEN 0 ELSE F[i][f[i - 1]])
                 = IF i = 0 THEN 0 ELSE f[i - 1] + Weights[i] * history[i][g]
    <3>1. CASE i # 0
      <4>1. i \in 1 .. n /\ f[i - 1] \in Nat
        BY <1>1, <3>1
      <4> HIDE DEF n
      <4> QED
        BY <3>1, <4>1
    <3> QED
      BY <3>1
  <2> HIDE DEF F
  <2>2. \A i \in 0 .. n : f[i] = IF i = 0 THEN 0 ELSE f[i - 1] + Weights[i] * history[i][g]
    BY <1>4, <2>1 DEF Iterates
  <2> QED
    BY <2>2
<1> DEFINE chosen == CHOOSE s : Sums(s)
<1>6. Sums(chosen)
  BY <1>5
<1>7. Smoothed(history, g) = chosen[n]
  BY DEF Smoothed
<1>8. ASSUME NEW s, Sums(s) PROVE s[n] \in Nat
  <2> DEFINE S == {k \in Nat : k <= n => s[k] \in Nat}
  <2>0. \A i \in 0 .. n : s[i] = IF i = 0 THEN 0 ELSE s[i - 1] + Weights[i] * history[i][g]
    BY <1>8
  <2> HIDE DEF Sums, n
  <2>1. 0 \in S
    <3>1. 0 \in 0 .. n
      BY <1>1
    <3>2. s[0] = 0
      BY <2>0, <3>1
    <3> QED
      BY <3>2
  <2>2. ASSUME NEW k \in Nat, k \in S PROVE k + 1 \in S
    <3> SUFFICES ASSUME k + 1 <= n PROVE s[k + 1] \in Nat
      OBVIOUS
    <3>1. k + 1 \in 0 .. n /\ k + 1 # 0 /\ (k + 1) - 1 = k /\ k + 1 \in 1 .. n /\ k <= n
      BY <1>1
    <3>2. s[k + 1] = s[k] + Weights[k + 1] * history[k + 1][g]
      BY <2>0, <3>1
    <3> QED
      BY <1>2, <2>2, <3>1, <3>2
  <2> HIDE DEF S
  <2>3. n \in S
    BY <1>1, <2>1, <2>2, ReachesAll
  <2> QED
    BY <1>1, <2>3 DEF S
<1> HIDE DEF Sums, chosen
<1> QED
  BY <1>6, <1>7, <1>8

(* A best regime exists: of those with the highest sum, the first.         *)
LEMMA WinnerType ==
  ASSUME NEW history \in Seq(Scored), Len(history) <= 5
  PROVE  Winner(history) \in AllRegimes
<1> DEFINE Of(i) == Smoothed(history, RegimeOrder[i])
           sums == {Of(i) : i \in 1 .. 7}
           Beats(i, j) == Of(i) > Of(j) \/ (Of(i) = Of(j) /\ i <= j)
<1>1. ASSUME NEW i \in 1 .. 7 PROVE Of(i) \in Nat
  <2>1. RegimeOrder[i] \in AllRegimes
    BY DEF AllRegimes
  <2> QED
    BY <2>1, SmoothedType
<1> DEFINE f == [i \in 0 .. 6 |-> Of(i + 1)]
<1> HIDE DEF Of
<1>2. \E m \in Nat : \A i \in 1 .. 7 : Of(i) <= m
  <2>1. ASSUME NEW i \in 0 .. 6 PROVE i + 1 \in 1 .. 7
    OBVIOUS
  <2>2. f \in [0 .. 6 -> Nat] /\ 6 \in Nat
    BY <1>1, <2>1
  <2>3. PICK m \in Nat : \A a \in 0 .. 6 : f[a] <= m
    <3> HIDE DEF f
    <3> QED
      BY <2>2, BoundOf
  <2>4. ASSUME NEW i \in 1 .. 7 PROVE Of(i) <= m
    <3>1. i - 1 \in 0 .. 6 /\ (i - 1) + 1 = i
      OBVIOUS
    <3> QED
      BY <2>3, <3>1
  <2> QED
    BY <2>4
<1>3. PICK i1 \in 1 .. 7 : \A j \in 1 .. 7 : Of(j) <= Of(i1)
  <2>1. sums \subseteq Nat /\ sums # {}
    BY <1>1
  <2>2. PICK m \in Nat : \A x \in sums : x <= m
    BY <1>2
  <2> HIDE DEF sums
  <2>3. PICK top \in sums : \A x \in sums : x <= top
    BY <2>1, <2>2, GreatestOf
  <2> USE DEF sums
  <2> QED
    BY <2>3
<1> DEFINE best == {i \in 1 .. 7 : Of(i) = Of(i1)}
<1>4. PICK i2 \in best : \A j \in best : i2 <= j
  <2>1. best \subseteq Nat /\ best # {}
    OBVIOUS
  <2> HIDE DEF best
  <2> QED
    BY <2>1, LeastOf
<1>5. i2 \in 1 .. 7 /\ \A j \in 1 .. 7 : Beats(i2, j)
  <2>1. i2 \in 1 .. 7 /\ Of(i2) = Of(i1)
    BY <1>4
  <2>2. ASSUME NEW j \in 1 .. 7 PROVE Beats(i2, j)
    <3>1. Of(j) <= Of(i1) /\ Of(j) \in Nat /\ Of(i1) \in Nat
      BY <1>1, <1>3
    <3>2. Of(j) = Of(i1) => i2 <= j
      BY <1>4
    <3> QED
      BY <2>1, <3>1, <3>2
  <2> QED
    BY <2>1, <2>2
<1> DEFINE chosen == CHOOSE i \in 1 .. 7 : \A j \in 1 .. 7 : Beats(i, j)
<1>6. chosen \in 1 .. 7
  <2> HIDE DEF Beats
  <2> QED
    BY <1>5, Zenon
<1>7. Winner(history) = RegimeOrder[chosen]
  BY DEF Winner, Of
<1> HIDE DEF chosen
<1> QED
  BY <1>6, <1>7 DEF AllRegimes

LEMMA IfType ==
  ASSUME NEW condition, NEW points \in 0 .. 100
  PROVE  If(condition, points) \in 0 .. points
BY DEF If

LEMMA ScoresType ==
  ASSUME NEW reading
  PROVE  ScoresOf(reading) \in Scored
<1> SUFFICES ASSUME NEW g \in AllRegimes PROVE ScoresOf(reading)[g] \in 0 .. 100
  BY DEF ScoresOf, Scored
<1>1. g \in {"TREND_EXPANSION", "TREND_CONTINUATION", "RANGE_CHOP", "COMPRESSION",
             "BREAKOUT", "EXHAUSTION", "REVERSAL"}
  BY DEF AllRegimes, RegimeOrder
<1> QED
  BY <1>1 DEF ScoresOf, If

LEMMA ScoresKept ==
  ASSUME NEW history \in Seq(Scored), Len(history) <= 5, NEW scores \in Scored
  PROVE  /\ Latest5(Append(history, scores)) \in Seq(Scored)
         /\ Len(Latest5(Append(history, scores))) <= 5
<1> DEFINE longer == Append(history, scores)
<1>1. longer \in Seq(Scored) /\ Len(longer) = Len(history) + 1
  OBVIOUS
<1>2. CASE Len(longer) > 5
  <2>1. longer # <<>>
    BY <1>2
  <2>2. Tail(longer) \in Seq(Scored) /\ Len(Tail(longer)) = Len(longer) - 1
    BY <1>1, <2>1
  <2> QED
    BY <1>1, <1>2, <2>2 DEF Latest5
<1>3. CASE ~(Len(longer) > 5)
  BY <1>1, <1>3 DEF Latest5
<1> QED
  BY <1>2, <1>3

LEMMA RegimeBarTypeOK ==
  ASSUME RegimeTypeOK, NEW reading \in BarReadings, RegimeBar(reading)
  PROVE  RegimeTypeOK'
<1> DEFINE history == Latest5(Append(scoreHistory, ScoresOf(reading)))
<1>1. /\ ruling \in AllRegimes /\ ruledBefore \in AllRegimes \cup {""}
      /\ scoreHistory \in Seq(Scored) /\ Len(scoreHistory) <= 5
  BY DEF RegimeTypeOK, Scored
<1>2. /\ barsSeen \in 0 .. 20 /\ ruledFor \in 0 .. Settling /\ steady \in 0 .. Settling
      /\ Settling \in Nat \ {0}
  BY RegimeAssumption DEF RegimeTypeOK
<1>3. barsSeen' \in 0 .. 20 /\ lastReading' \in BarReadings
  <2>1. barsSeen' = (IF barsSeen < 20 THEN barsSeen + 1 ELSE 20) /\ lastReading' = reading
    BY DEF RegimeBar
  <2> QED
    BY <1>2, <2>1
<1>4. CASE barsSeen' < 20
  <2>1. UNCHANGED <<ruling, ruledBefore, ruledFor, scoreHistory, steady>>
    BY <1>4 DEF RegimeBar
  <2> QED
    BY <1>3, <2>1 DEF RegimeTypeOK
<1>5. CASE ~(barsSeen' < 20)
  <2>1. history \in Seq(Scored) /\ Len(history) <= 5
    BY <1>1, ScoresType, ScoresKept
  <2>2. Winner(history) \in AllRegimes
    BY <2>1, WinnerType
  <2>3. NewRegime(history) \in AllRegimes
    BY <1>1, <2>2 DEF NewRegime
  <2> HIDE DEF history
  <2>4. /\ scoreHistory' = history /\ ruling' = NewRegime(history)
        /\ ruledBefore' = IF ruling' # ruling THEN ruling ELSE ruledBefore
        /\ ruledFor' = IF ruling' # ruling THEN 1 ELSE Upward(ruledFor)
        /\ steady' = IF reading = lastReading THEN Upward(steady) ELSE 0
    BY <1>5 DEF RegimeBar, history
  <2>5. Upward(ruledFor) \in 0 .. Settling /\ Upward(steady) \in 0 .. Settling
    <3>1. ASSUME NEW n \in 0 .. Settling PROVE Upward(n) \in 0 .. Settling
      BY <1>2 DEF Upward
    <3> QED
      BY <1>2, <3>1
  <2>6. ruledFor' \in 0 .. Settling /\ steady' \in 0 .. Settling
    <3>1. 1 \in 0 .. Settling /\ 0 \in 0 .. Settling
      BY <1>2
    <3> QED
      BY <2>4, <2>5, <3>1, Zenon
  <2>7. scoreHistory' \in Seq(Scored) /\ Len(scoreHistory') <= 5
    BY <2>1, <2>4
  <2>8. ruling' \in AllRegimes /\ ruledBefore' \in AllRegimes \cup {""}
    BY <1>1, <2>3, <2>4
  <2> QED
    BY <1>3, <2>6, <2>7, <2>8 DEF RegimeTypeOK, Scored
<1> QED
  BY <1>4, <1>5

(* The ruling regime is one of the seven, and the smoothed scores that the *)
(* detector keeps, of five bars at most, are percentages.                  *)
THEOREM RegimeTypeCorrect == RegimeSpec => []RegimeTypeOK
<1>1. RegimeInit => RegimeTypeOK
  <2> SUFFICES ASSUME RegimeInit PROVE RegimeTypeOK
    OBVIOUS
  <2>1. "RANGE_CHOP" \in AllRegimes
    <3>1. RegimeOrder[3] = "RANGE_CHOP" /\ 3 \in 1 .. 7
      BY DEF RegimeOrder
    <3> QED
      BY <3>1 DEF AllRegimes
  <2>2. scoreHistory \in Seq(Scored) /\ Len(scoreHistory) <= 5
    <3>1. scoreHistory = <<>>
      BY DEF RegimeInit
    <3>2. <<>> \in Seq(Scored) /\ Len(<<>>) = 0
      OBVIOUS
    <3> QED
      BY <3>1, <3>2
  <2>3. /\ barsSeen = 0 /\ ruling = "RANGE_CHOP" /\ ruledBefore = "" /\ ruledFor = 0
        /\ lastReading \in BarReadings /\ steady = 0
    BY DEF RegimeInit
  <2>4. barsSeen \in 0 .. 20 /\ ruledFor \in 0 .. Settling /\ steady \in 0 .. Settling
    <3>1. barsSeen = 0 /\ ruledFor = 0 /\ steady = 0
      BY <2>3
    <3> QED
      BY <3>1, RegimeAssumption
  <2> QED
    BY <2>1, <2>2, <2>3, <2>4 DEF RegimeTypeOK, Scored
<1>2. RegimeTypeOK /\ [RegimeNext]_regimeVars => RegimeTypeOK'
  <2> SUFFICES ASSUME RegimeTypeOK, [RegimeNext]_regimeVars PROVE RegimeTypeOK'
    OBVIOUS
  <2>1. CASE UNCHANGED regimeVars
    BY <2>1 DEF regimeVars, RegimeTypeOK
  <2> QED
    BY <2>1, RegimeBarTypeOK DEF RegimeNext
<1> QED
  BY <1>1, <1>2, PTL DEF RegimeSpec

-----------------------------------------------------------------------------
(* LiveWorld. The score of a quiet or forbidden hour is bounded for every  *)
(* spread, range and class, and stays below the gate's threshold.          *)

WorldInv == WorldTypeOK /\ ShutOutsideHours

Percent == 0 .. 100

(* The belief is a percentage, in hundredths of a percent.                 *)
LEMMA ScoreBounded ==
  ASSUME NEW s \in Nat, NEW a \in Nat, NEW safe
  PROVE  SpreadScore(s, safe, a) \in 0 .. 100
<1>1. CASE a = 0 \/ safe
  BY <1>1 DEF SpreadScore
<1>2. CASE a > 0 /\ ~safe
  <2>1. (100 * s) \div (3 * a) \in Int
    BY <1>2
  <2>2. Clip(100 - (100 * s) \div (3 * a), 0, 100) \in 0 .. 100
    BY <2>1 DEF Clip
  <2> QED
    BY <1>2, <2>2 DEF SpreadScore
<1> QED
  BY <1>1, <1>2

LEMMA BeliefBounded ==
  ASSUME NEW s \in Spreads, NEW a \in Ranges, NEW safe,
         NEW conf \in Percent, NEW tr \in Percent, NEW q \in Scores \cup {0}
  PROVE  Belief(s, safe, a, conf, tr, q) \in 0 .. 10000
<1>1. /\ SpreadScore(s, safe, a) \in 0 .. 100 /\ q \in 0 .. 100
      /\ conf \in 0 .. 100 /\ tr \in 0 .. 100
  BY WorldAssumption, ScoreBounded DEF Percent
<1>2. PICK x \in 0 .. 100 : SpreadScore(s, safe, a) = x
  BY <1>1
<1>3. Belief(s, safe, a, conf, tr, q) = 35 * conf + 25 * q + 20 * tr + 20 * x
  BY <1>2 DEF Belief
<1> QED
  BY <1>1, <1>3

(* The sessions to be avoided weaken any belief to less than the lowest    *)
(* threshold that a base of 57 percent can come down to.                   *)
LEMMA ThresholdBounded ==
  ASSUME Base >= 57, NEW reg, NEW vol
  PROVE  Threshold(reg, vol) \in 50 .. 75
<1> DEFINE byRegime == IF reg = "ranging" THEN 5 ELSE IF reg = "trending" THEN -5 ELSE 0
           byRange  == IF vol = "low" THEN 5 ELSE IF vol = "high" THEN -2 ELSE 0
<1>1. byRegime \in -5 .. 5 /\ byRange \in -2 .. 5 /\ Base \in Int
  BY WorldAssumption
<1>2. Clip(Base + byRegime + byRange, 45, 75) \in 50 .. 75
  BY <1>1 DEF Clip
<1> QED
  BY <1>2 DEF Threshold

Avoided(s) == s = "rollover" \/ (s = "asian" /\ SuppressAsian)

LEMMA AvoidedPenalty ==
  ASSUME NEW s, Avoided(s)
  PROVE  Penalty(s) = 1 \/ Penalty(s) = 2
BY DEF Avoided, Penalty

LEMMA GateShuts ==
  ASSUME Base >= 57, WorldTypeOK', Recompute
  PROVE  ShutOutsideHours'
<1>1. PICK b \in 0 .. 10000 :
        Belief(spread', spreadSafe', atr', confidence', trend', quality') = b
  <2>1. /\ spread' \in Spreads /\ atr' \in Ranges /\ spreadSafe' \in BOOLEAN
        /\ confidence' \in Percent /\ trend' \in Percent /\ quality' \in Scores \cup {0}
    BY DEF WorldTypeOK, Percent
  <2> QED
    BY <2>1, BeliefBounded
<1>2. PICK t \in 50 .. 75 : Threshold(regime', volatility') = t
  BY ThresholdBounded
<1>3. Gate <=> b * Penalty(session') > 400 * t
  BY <1>1, <1>2 DEF Gate
<1>4. Avoided(session') => ~Gate
  <2>1. ~(b * 1 > 400 * t) /\ ~(b * 2 > 400 * t)
    BY <1>2
  <2> QED
    BY <1>3, <2>1, AvoidedPenalty
<1> QED
  BY <1>4 DEF Recompute, Avoided, ShutOutsideHours

LEMMA RankedType ==
  ASSUME NEW tr \in Scores, NEW brk \in Scores, NEW comp \in Scores
  PROVE  /\ Ranked(tr, brk, comp).name \in Regimes
         /\ Ranked(tr, brk, comp).score \in 0 .. 100
         /\ Rest(tr, brk) \in 0 .. 100 /\ tr \in 0 .. 100
<1>1. tr \in 0 .. 100 /\ brk \in 0 .. 100 /\ comp \in 0 .. 100
  BY WorldAssumption
<1>2. Rest(tr, brk) \in 0 .. 100
  BY <1>1 DEF Rest
<1> QED
  BY <1>1, <1>2 DEF Ranked, Regimes

(* The variables of LiveWorld keep their types, whatever the threshold.    *)
LEMMA WorldInitTypeOK == WorldInit => WorldTypeOK
<1> SUFFICES ASSUME WorldInit PROVE WorldTypeOK
  OBVIOUS
<1>1. quarters \in 0 .. Warmup + 1
  BY WorldAssumption DEF WorldInit
<1>2. CASE Fallback
  <2>1. session \in Session /\ regime \in Regimes
    BY <1>2 DEF Fallback, Session, Regimes
  <2>2. confidence \in 0 .. 100 /\ trend \in 0 .. 100 /\ quality \in Scores \cup {0}
    BY <1>2 DEF Fallback
  <2>3. spread \in Spreads /\ atr \in Ranges /\ spreadSafe = FALSE /\ runGraph = FALSE
    BY <1>2 DEF Fallback
  <2>4. volatility = "low"
    BY <1>2 DEF Fallback
  <2> QED
    BY <1>1, <2>1, <2>2, <2>3, <2>4 DEF WorldTypeOK
<1>3. CASE BuiltState
  <2>1. Measured
    BY <1>3 DEF BuiltState
  <2>2. spreadSafe \in BOOLEAN /\ runGraph \in BOOLEAN
    BY <1>3, <2>1 DEF Measured, SafeSpread, BuiltState
  <2>3. regime \in Regimes /\ confidence \in 0 .. 100 /\ trend \in 0 .. 100
    BY <1>3, RankedType DEF BuiltState
  <2> QED
    BY <1>1, <2>1, <2>2, <2>3 DEF Measured, WorldTypeOK
<1> QED
  BY <1>2, <1>3 DEF WorldInit

LEMMA WorldTickTypeOK ==
  ASSUME WorldTypeOK, NEW s \in Spreads, NEW next \in Session, WorldTick(s, next)
  PROVE  WorldTypeOK' /\ Recompute
<1>1. spreadSafe' \in BOOLEAN /\ runGraph' \in BOOLEAN
  BY DEF WorldTick, SafeSpread, Recompute, Gate
<1> QED
  BY <1>1 DEF WorldTick, WorldTypeOK

LEMMA HourBarTypeOK ==
  ASSUME WorldTypeOK, NEW a \in Ranges, HourBar(a)
  PROVE  WorldTypeOK' /\ Recompute
<1>1. volatility' \in {"low", "medium", "high"} /\ runGraph' \in BOOLEAN
  BY DEF HourBar, VolatilityOf, Recompute, Gate, WorldTypeOK
<1> QED
  BY <1>1 DEF HourBar, WorldTypeOK

LEMMA QuarterBarTypeOK ==
  ASSUME WorldTypeOK, NEW tr \in Scores, NEW brk \in Scores, NEW comp \in Scores,
         NEW enough \in BOOLEAN, QuarterBar(tr, brk, comp, enough)
  PROVE  WorldTypeOK' /\ (IF enough THEN Recompute ELSE UNCHANGED <<session, runGraph>>)
<1>1. quarters' \in 0 .. Warmup + 1
  BY WorldAssumption DEF QuarterBar, WorldTypeOK
<1>2. CASE ~enough
  BY <1>1, <1>2 DEF QuarterBar, WorldTypeOK
<1>3. CASE enough
  <2>1. trend' \in 0 .. 100 /\ regime' \in Regimes /\ confidence' \in 0 .. 100 /\ Recompute
    BY <1>3, RankedType DEF QuarterBar, Regimes
  <2>2. runGraph' \in BOOLEAN
    BY <2>1 DEF Recompute, Gate
  <2>3. WorldTypeOK'
    BY <1>1, <1>3, <2>1, <2>2 DEF QuarterBar, WorldTypeOK
  <2> QED
    BY <1>3, <2>1, <2>3
<1> QED
  BY <1>2, <1>3

(* The state of the world keeps its type: confidence and strength remain   *)
(* percentages, for any spreads, ranges and scores.                        *)
THEOREM WorldTypeCorrect == WorldSpec => []WorldTypeOK
<1>1. WorldTypeOK /\ [WorldNext]_worldVars => WorldTypeOK'
  <2> SUFFICES ASSUME WorldTypeOK, [WorldNext]_worldVars PROVE WorldTypeOK'
    OBVIOUS
  <2>1. CASE UNCHANGED worldVars
    BY <2>1 DEF worldVars, WorldTypeOK
  <2>2. ASSUME NEW q \in Scores, FiveBar(q) PROVE WorldTypeOK'
    BY <2>2 DEF FiveBar, WorldTypeOK
  <2> QED
    BY <2>1, <2>2, WorldTickTypeOK, HourBarTypeOK, QuarterBarTypeOK DEF WorldNext
<1> QED
  BY <1>1, WorldInitTypeOK, PTL DEF WorldSpec

LEMMA WorldInitHolds ==
  ASSUME Base >= 57, WorldInit
  PROVE  WorldInv
<1>1. WorldTypeOK
  BY WorldInitTypeOK
<1>2. CASE Fallback
  BY <1>1, <1>2 DEF Fallback, WorldInv, ShutOutsideHours
<1>3. CASE BuiltState
  <2>1. runGraph => Belief(spread, spreadSafe, atr, confidence, trend, quality)
                      * Penalty(session)
                    > 400 * (IF session = "asian" THEN Base - 5 ELSE 60)
    BY <1>3, Zenon DEF BuiltState
  <2>2. PICK b \in 0 .. 10000 :
          Belief(spread, spreadSafe, atr, confidence, trend, quality) = b
    <3>1. /\ spread \in Spreads /\ atr \in Ranges /\ spreadSafe \in BOOLEAN
          /\ confidence \in Percent /\ trend \in Percent /\ quality \in Scores \cup {0}
      BY <1>1 DEF WorldTypeOK, Percent
    <3> QED
      BY <3>1, BeliefBounded
  <2>3. Avoided(session) => ~runGraph
    <3>1. PICK t \in Int : t >= 50 /\ t = (IF session = "asian" THEN Base - 5 ELSE 60)
      BY WorldAssumption
    <3>2. runGraph => b * Penalty(session) > 400 * t
      BY <2>1, <2>2, <3>1
    <3>3. ~(b * 1 > 400 * t) /\ ~(b * 2 > 400 * t)
      BY <3>1
    <3> QED
      BY <3>2, <3>3, AvoidedPenalty
  <2> QED
    BY <1>1, <2>3 DEF WorldInv, ShutOutsideHours, Avoided
<1> QED
  BY <1>2, <1>3 DEF WorldInit

LEMMA WorldStepKeeps ==
  ASSUME Base >= 57, WorldInv, WorldNext
  PROVE  WorldInv'
<1>1. WorldTypeOK /\ ShutOutsideHours
  BY DEF WorldInv
<1>2. ASSUME NEW s \in Spreads, NEW next \in Session, WorldTick(s, next) PROVE WorldInv'
  BY <1>1, <1>2, WorldTickTypeOK, GateShuts DEF WorldInv
<1>3. ASSUME NEW a \in Ranges, HourBar(a) PROVE WorldInv'
  BY <1>1, <1>3, HourBarTypeOK, GateShuts DEF WorldInv
<1>4. ASSUME NEW tr \in Scores, NEW brk \in Scores, NEW comp \in Scores,
             NEW enough \in BOOLEAN, QuarterBar(tr, brk, comp, enough)
      PROVE  WorldInv'
  <2>1. WorldTypeOK' /\ (IF enough THEN Recompute ELSE UNCHANGED <<session, runGraph>>)
    BY <1>1, <1>4, QuarterBarTypeOK
  <2> QED
    BY <1>1, <2>1, GateShuts DEF WorldInv, ShutOutsideHours
<1>5. ASSUME NEW q \in Scores, FiveBar(q) PROVE WorldInv'
  BY <1>1, <1>5 DEF FiveBar, WorldInv, WorldTypeOK, ShutOutsideHours
<1> QED
  BY <1>2, <1>3, <1>4, <1>5 DEF WorldNext

(* Whatever spreads, ranges, bars and sessions follow one another, the     *)
(* gate is shut in the sessions to be avoided, for every belief threshold  *)
(* from 57 percent on (the default is 60).  Below that the lowest          *)
(* threshold, of a trending and volatile market, lets half a belief pass.  *)
THEOREM GateShutOutsideHours ==
  ASSUME Base >= 57
  PROVE  WorldSpec => []ShutOutsideHours
<1>1. WorldInit => WorldInv
  BY WorldInitHolds
<1>2. WorldInv /\ [WorldNext]_worldVars => WorldInv'
  <2> SUFFICES ASSUME WorldInv, [WorldNext]_worldVars PROVE WorldInv'
    OBVIOUS
  <2>1. CASE UNCHANGED worldVars
    BY <2>1 DEF worldVars, WorldInv, WorldTypeOK, ShutOutsideHours
  <2> QED
    BY <2>1, WorldStepKeeps
<1>3. WorldInv => ShutOutsideHours
  BY DEF WorldInv
<1> QED
  BY <1>1, <1>2, <1>3, PTL DEF WorldSpec

-----------------------------------------------------------------------------
(* EventDetector. The invariant says of a pending sweep which of the last  *)
(* bars has made it, so that what is told of it later was earned there.    *)

(* A sweep that is as many bars old was made by that bar.                  *)
AgeIsKnown ==
  \A s \in pendingSweeps : s.since <= 2 => <<s.level, s.dir>> \in pierced[s.since + 1]

PassedType == passedOver \subseteq [level : Swings, dir : Directions, since : 1 .. 3]

DetectorInv ==
  /\ DetectorTypeOK /\ AgeIsKnown
  /\ IsFiniteSet(pendingSweeps)

Pending == [level : Swings, dir : Directions, since : 0 .. 3]
OtherEvent == [type : {"other"}, priority : Nat, about : Nat]

LEMMA Sequenced ==
  ASSUME NEW S, IsFiniteSet(S)
  PROVE  SetToSeq(S) \in Seq(S)
<1>1. ExistsBijection(1 .. Cardinality(S), S) /\ Cardinality(S) \in Nat
  BY FS_CardinalityType
<1>2. PICK f \in [1 .. Cardinality(S) -> S] : IsInjective(f)
  BY <1>1 DEF ExistsBijection, Bijection, Injection
<1>3. SetToSeq(S) \in [1 .. Cardinality(S) -> S]
  BY <1>2 DEF SetToSeq
<1> QED
  BY <1>1, <1>3

LEMMA FiniteImage ==
  ASSUME NEW S, IsFiniteSet(S), NEW T, NEW f \in [S -> T], \A y \in T : \E x \in S : f[x] = y
  PROVE  IsFiniteSet(T)
<1>1. f \in Surjection(S, T)
  BY DEF Surjection
<1> QED
  BY <1>1, FS_Surjection

LEMMA OthersType ==
  ASSUME NEW priorities \in Seq(Nat)
  PROVE  Others(priorities) \in Seq(OtherEvent)
<1>1. DOMAIN priorities = 1 .. Len(priorities) /\ Len(priorities) \in Nat
  OBVIOUS
<1>2. \A i \in 1 .. Len(priorities) : Event("other", priorities[i], i) \in OtherEvent
  BY DEF Event, OtherEvent
<1>3. Others(priorities) = [i \in 1 .. Len(priorities) |-> Event("other", priorities[i], i)]
  BY <1>1 DEF Others
<1> QED
  BY <1>1, <1>2, <1>3

LEMMA Lists3 ==
  /\ ChangeLists \subseteq Seq(Nat) /\ PeakLists \subseteq Seq(Nat)
  /\ SpikeLists \subseteq Seq(Nat)
  /\ \A bar, keys : AfterSweeps(bar, keys) \subseteq Seq(Nat)
<1>1. <<>> \in Seq(Nat) /\ \A x, y \in Nat : <<x>> \in Seq(Nat) /\ <<x, y>> \in Seq(Nat)
  OBVIOUS
<1>2. ChangeLists \subseteq Seq(Nat) /\ SpikeLists \subseteq Seq(Nat)
  BY <1>1 DEF ChangeLists, SpikeLists
<1>3. PeakLists \subseteq Seq(Nat)
  <2>1. \A p \in {2, 3} \X {2, 3} : p = <<p[1], p[2]>> /\ p[1] \in Nat /\ p[2] \in Nat
    OBVIOUS
  <2>2. {2, 3} \X {2, 3} \subseteq Seq(Nat)
    BY <1>1, <2>1
  <2> QED
    BY <1>1, <2>2 DEF PeakLists
<1>4. ASSUME NEW bar, NEW keys, NEW after \in AfterSweeps(bar, keys) PROVE after \in Seq(Nat)
  <2>1. PatternLists(bar, keys) \subseteq Seq(Nat)
    <3>1. \A prev, grade : Patterns(bar, prev, keys, grade) \in Seq(Nat)
      BY <1>1 DEF Patterns
    <3> QED
      BY <3>1 DEF PatternLists
  <2>2. ShiftLists \subseteq Seq(Nat) /\ DivergenceLists \subseteq Seq(Nat)
    BY <1>1 DEF ShiftLists, DivergenceLists
  <2>3. \A a, b, c \in Seq(Nat) : a \o b \o c \in Seq(Nat)
    OBVIOUS
  <2> QED
    <3>1. PICK a \in PatternLists(bar, keys), b \in ShiftLists, c \in DivergenceLists :
            after = a \o b \o c
      BY DEF AfterSweeps
    <3> QED
      BY <2>1, <2>2, <2>3, <3>1
<1> QED
  BY <1>2, <1>3, <1>4

(* The queue is given no more than it has room for, and what it is given   *)
(* is among the events.                                                    *)
LEMMA EmitKeeps ==
  ASSUME NEW B, NEW events \in Seq(OtherEvent \cup B), NEW at,
         backlog \in 0 .. QueueSize, EmitAll(events, at)
  PROVE  backlog' \in 0 .. QueueSize /\ news' \subseteq B
<1> DEFINE passing == {i \in DOMAIN events : Passes(events[i], at)}
<1>1. Cardinality(passing) \in Nat
  <2>1. passing \in SUBSET (1 .. Len(events)) /\ Len(events) \in Nat
    OBVIOUS
  <2>2. IsFiniteSet(1 .. Len(events))
    BY <2>1, FS_Interval
  <2>3. IsFiniteSet(passing)
    BY <2>1, <2>2, FS_Subset
  <2> QED
    BY <2>3, FS_CardinalityType
<1>2. backlog' \in 0 .. QueueSize
  <2>1. backlog' = IF Cardinality(passing) < QueueSize - backlog
                   THEN backlog + Cardinality(passing) ELSE QueueSize
    BY DEF EmitAll
  <2> HIDE DEF passing
  <2>2. QueueSize \in Nat
    BY DetectorAssumption
  <2> QED
    BY <1>1, <2>1, <2>2
<1>3. \A i \in DOMAIN events : events[i] \in OtherEvent \cup B
  OBVIOUS
<1>4. \A e \in news' : e.type # "other" /\ \E i \in DOMAIN events : e = events[i]
  BY DEF EmitAll
<1> QED
  BY <1>2, <1>3, <1>4 DEF OtherEvent

(* The events that a call tells of stand between others.                   *)
LEMMA ToldAmongOthers ==
  ASSUME NEW B, IsFiniteSet(B), NEW before \in Seq(Nat), NEW after \in Seq(Nat), NEW at,
         backlog \in 0 .. QueueSize,
         EmitAll(Others(before) \o SetToSeq(B) \o Others(after), at)
  PROVE  backlog' \in 0 .. QueueSize /\ news' \subseteq B
<1> DEFINE E == OtherEvent \cup B
<1>1. Others(before) \in Seq(E) /\ Others(after) \in Seq(E)
  BY OthersType
<1>2. SetToSeq(B) \in Seq(E)
  BY Sequenced
<1> HIDE DEF E
<1>3. Others(before) \o SetToSeq(B) \o Others(after) \in Seq(E)
  BY <1>1, <1>2
<1> QED
  BY <1>3, EmitKeeps DEF E

(* A tick announces levels that were not consumed.                         *)
LEMMA DetectTickKeeps ==
  ASSUME DetectorInv, NEW bid \in Bids, NEW sharp \in SUBSET ActiveLevels, NEW at,
         NEW priority, NEW before \in ChangeLists, NEW after \in PeakLists,
         DetectTick(at, Breached(bid, sharp), priority, before, after)
  PROVE  DetectorInv' /\ \A e \in news' : e.type # "sweep_detected" /\ e.about \notin told
<1> DEFINE breached == Breached(bid, sharp)
           B == {Event("level_breach", priority, pip) : pip \in breached}
<1>1. breached \subseteq {PipOf(l) : l \in ActiveLevels} \ consumedLevels
  BY DEF Breached
<1>2. IsFiniteSet(B)
  <2>1. IsFiniteSet({PipOf(l) : l \in ActiveLevels})
    <3> DEFINE P == {PipOf(l) : l \in ActiveLevels}
               f == [l \in ActiveLevels |-> PipOf(l)]
    <3>1. f \in [ActiveLevels -> P] /\ \A y \in P : \E x \in ActiveLevels : f[x] = y
      OBVIOUS
    <3> HIDE DEF P, f
    <3>2. IsFiniteSet(P)
      BY <3>1, FiniteImage, DetectorAssumption
    <3> QED
      BY <3>2 DEF P
  <2>2. IsFiniteSet(breached)
    BY <1>1, <2>1, FS_Subset
  <2> DEFINE g == [pip \in breached |-> Event("level_breach", priority, pip)]
  <2>3. g \in [breached -> B] /\ \A y \in B : \E x \in breached : g[x] = y
    OBVIOUS
  <2> HIDE DEF B, g, breached
  <2> QED
    BY <2>2, <2>3, FiniteImage
<1>3. backlog' \in 0 .. QueueSize /\ news' \subseteq B
  <2>1. before \in Seq(Nat) /\ after \in Seq(Nat)
    BY Lists3
  <2>2. EmitAll(Others(before) \o SetToSeq(B) \o Others(after), at)
    BY DEF DetectTick
  <2>3. backlog \in 0 .. QueueSize
    BY DEF DetectorInv, DetectorTypeOK
  <2> HIDE DEF B
  <2> QED
    BY <1>2, <2>1, <2>2, <2>3, ToldAmongOthers
<1>4. \A e \in news' : e.type = "level_breach" /\ e.about \in breached
  BY <1>3 DEF Event
<1>5. /\ consumedLevels' = consumedLevels \cup breached
      /\ told' = told \cup {e.about : e \in news'}
      /\ UNCHANGED <<consumedSweeps, pendingSweeps, muted, pierced, passedOver>>
  BY DEF DetectTick
<1> HIDE DEF breached
<1>6. told' \subseteq consumedLevels'
  BY <1>4, <1>5 DEF DetectorInv, DetectorTypeOK
<1>7. consumedLevels' \subseteq {PipOf(l) : l \in ActiveLevels}
  BY <1>1, <1>5 DEF DetectorInv, DetectorTypeOK
<1>8. DetectorInv'
  BY <1>3, <1>5, <1>6, <1>7 DEF DetectorInv, DetectorTypeOK, AgeIsKnown
<1>9. \A e \in news' : e.about \notin told
  BY <1>1, <1>4 DEF DetectorInv, DetectorTypeOK
<1> QED
  BY <1>4, <1>8, <1>9

(* A level that is far from the close is free again, and was not told.     *)
LEMMA ResetLevelsKeeps ==
  ASSUME DetectorInv, NEW bar, NEW range, ResetLevels(bar, range)
  PROVE  /\ consumedLevels' \subseteq {PipOf(l) : l \in ActiveLevels}
         /\ told' \subseteq consumedLevels'
  BY DEF ResetLevels, DetectorInv, DetectorTypeOK

LEMMA FiveKeeps ==
  ASSUME DetectorInv, NEW bar, NEW range, NEW spikes \in SpikeLists, NEW at,
         FiveClose(bar, range, spikes, at)
  PROVE  DetectorInv' /\ news' = {}
<1> DEFINE none == {}
<1>1. Others(spikes) \in Seq(OtherEvent \cup none)
  <2>1. OtherEvent \cup none = OtherEvent
    OBVIOUS
  <2> QED
    BY <2>1, Lists3, OthersType
<1>2. backlog' \in 0 .. QueueSize /\ news' \subseteq none
  <2>1. EmitAll(Others(spikes), at) /\ backlog \in 0 .. QueueSize
    BY DEF FiveClose, DetectorInv, DetectorTypeOK
  <2> HIDE DEF none
  <2> QED
    BY <1>1, <2>1, EmitKeeps
<1>3. /\ ResetLevels(bar, range) /\ UNCHANGED <<pendingSweeps, muted, pierced, passedOver>>
      /\ consumedSweeps' \subseteq consumedSweeps
  BY DEF FiveClose
<1> QED
  BY <1>2, <1>3, ResetLevelsKeeps DEF DetectorInv, DetectorTypeOK, AgeIsKnown

(* _check_sweep: what is pending, consumed and pierced after a bar.        *)
LEMMA SweepKeeps ==
  ASSUME DetectorInv, NEW bar, NEW list \in Lists, NEW range, NEW left \in SUBSET Swings,
         CheckSweep(bar, list, range, left)
  PROVE  /\ pendingSweeps' \subseteq Pending /\ IsFiniteSet(pendingSweeps')
         /\ pierced' \in [1 .. 3 -> SUBSET (Swings \X Directions)] /\ AgeIsKnown'
      /\ PassedType'
<1> DEFINE found == Pierces(bar, list, range)
<1>1. PICK new \in SUBSET found :
        /\ pendingSweeps' = ((Older(pendingSweeps) \ Expired(pendingSweeps))
                               \ ConfirmedSweeps(bar, pendingSweeps))
                             \cup {Sweep(s[1], s[2], 0) : s \in new}
        /\ pierced' = Recalled(found)
        /\ passedOver' = {s \in Older(pendingSweeps) \ ConfirmedSweeps(bar, pendingSweeps) :
                            s.since <= 3 /\ Reverses(bar, s.dir)}
  BY DEF CheckSweep, FirstOf
<1>2. found \subseteq Swings \X Directions /\ IsFiniteSet(found)
  <2>1. list.highs \subseteq Swings /\ list.lows \subseteq Swings
    BY DetectorAssumption
  <2>2. found \subseteq {<<x, d>> : x \in Swings, d \in Directions}
    BY <2>1 DEF Pierces, Directions
  <2>3. \A d : IsFiniteSet({<<x, d>> : x \in Swings})
    <3> SUFFICES ASSUME NEW d PROVE IsFiniteSet({<<x, d>> : x \in Swings})
      OBVIOUS
    <3> DEFINE P == {<<x, d>> : x \in Swings}
               f == [x \in Swings |-> <<x, d>>]
    <3>1. f \in [Swings -> P] /\ \A y \in P : \E x \in Swings : f[x] = y
      OBVIOUS
    <3> HIDE DEF P, f
    <3>2. IsFiniteSet(P)
      BY <3>1, FiniteImage, DetectorAssumption
    <3> QED
      BY <3>2 DEF P
  <2>4. found \subseteq {<<x, "bearish_sweep">> : x \in Swings}
                         \cup {<<x, "bullish_sweep">> : x \in Swings}
    BY <2>1 DEF Pierces
  <2>5. IsFiniteSet({<<x, "bearish_sweep">> : x \in Swings}
                      \cup {<<x, "bullish_sweep">> : x \in Swings})
    BY <2>3, FS_Union
  <2>6. IsFiniteSet(found)
    BY <2>4, <2>5, FS_Subset
  <2> QED
    BY <2>2, <2>6
<1>3. Older(pendingSweeps) \subseteq [level : Swings, dir : Directions, since : 1 .. 4]
  BY DEF Older, Sweep, DetectorInv, DetectorTypeOK
<1>4. IsFiniteSet(Older(pendingSweeps))
  <2> DEFINE P == Older(pendingSweeps)
             f == [s \in pendingSweeps |-> Sweep(s.level, s.dir, s.since + 1)]
  <2>1. f \in [pendingSweeps -> P] /\ \A y \in P : \E x \in pendingSweeps : f[x] = y
    BY DEF Older
  <2>2. IsFiniteSet(pendingSweeps)
    BY DEF DetectorInv
  <2> HIDE DEF P, f
  <2>3. IsFiniteSet(P)
    BY <2>1, <2>2, FiniteImage
  <2> QED
    BY <2>3 DEF P
<1> DEFINE begun == {Sweep(s[1], s[2], 0) : s \in new}
<1>5. IsFiniteSet(begun)
  <2>1. IsFiniteSet(new)
    BY <1>2, FS_Subset
  <2> DEFINE f == [s \in new |-> Sweep(s[1], s[2], 0)]
  <2>2. f \in [new -> begun] /\ \A y \in begun : \E x \in new : f[x] = y
    OBVIOUS
  <2> HIDE DEF begun, f
  <2> QED
    BY <2>1, <2>2, FiniteImage
<1>6. \A s \in begun : s \in Pending /\ s.since = 0 /\ <<s.level, s.dir>> \in found
  <2>1. \A s \in new : s = <<s[1], s[2]>> /\ s[1] \in Swings /\ s[2] \in Directions /\ s \in found
    BY <1>2
  <2> HIDE DEF found
  <2> QED
    BY <2>1 DEF Sweep, Pending
<1>7. \A s \in Older(pendingSweeps) \ Expired(pendingSweeps) : s \in Pending /\ s.since # 0
  BY <1>3 DEF Expired, Pending
<1> HIDE DEF begun, found
<1>8. pendingSweeps' \subseteq (Older(pendingSweeps) \ Expired(pendingSweeps)) \cup begun
  BY <1>1 DEF begun
<1>9. IsFiniteSet(pendingSweeps')
  <2>1. IsFiniteSet(Older(pendingSweeps) \cup begun)
    BY <1>4, <1>5, FS_Union
  <2>2. pendingSweeps' \subseteq Older(pendingSweeps) \cup begun
    BY <1>8
  <2> QED
    BY <2>1, <2>2, FS_Subset
<1>10. /\ pierced' \in [1 .. 3 -> SUBSET (Swings \X Directions)]
       /\ pierced'[1] = found /\ pierced'[2] = pierced[1] /\ pierced'[3] = pierced[2]
  BY <1>1, <1>2 DEF Recalled, DetectorInv, DetectorTypeOK
<1>11. AgeIsKnown'
  <2>1. ASSUME NEW s \in Older(pendingSweeps), s.since <= 2
        PROVE  <<s.level, s.dir>> \in pierced'[s.since + 1]
    <3>1. PICK p \in pendingSweeps : s = Sweep(p.level, p.dir, p.since + 1)
      BY DEF Older
    <3>2. s.level = p.level /\ s.dir = p.dir /\ s.since = p.since + 1 /\ p.since \in 0 .. 3
      BY <3>1 DEF Sweep, DetectorInv, DetectorTypeOK
    <3>3. <<s.level, s.dir>> \in pierced[p.since + 1]
      BY <2>1, <3>2 DEF DetectorInv, AgeIsKnown
    <3>4. CASE p.since = 0
      BY <1>10, <3>2, <3>3, <3>4
    <3>5. CASE p.since = 1
      BY <1>10, <3>2, <3>3, <3>5
    <3> QED
      BY <2>1, <3>2, <3>4, <3>5
  <2>2. ASSUME NEW s \in begun PROVE <<s.level, s.dir>> \in pierced'[s.since + 1]
    BY <1>6, <1>10
  <2> QED
    BY <1>8, <2>1, <2>2 DEF AgeIsKnown
<1>12. PassedType'
  BY <1>1, <1>3 DEF PassedType
<1> QED
  BY <1>6, <1>7, <1>8, <1>9, <1>10, <1>11, <1>12

LEMMA PassedIsTyped ==
  ASSUME PassedType'
  PROVE  \A s \in passedOver' : s.level \in Swings /\ s.dir \in Directions /\ s.since \in 1 .. 3
  BY DEF PassedType

LEMMA PendingType ==
  ASSUME pendingSweeps' \subseteq Pending
  PROVE  \A s \in pendingSweeps' : s.level \in Swings /\ s.dir \in Directions /\ s.since \in 0 .. 3
  BY DEF Pending

(* A bar tells of sweeps of the bar before it.                             *)
LEMMA StructuralKeeps ==
  ASSUME DetectorInv, NEW bar, NEW list \in Lists, NEW range,
         NEW after \in AfterSweeps(bar, list.keys), NEW at,
         StructuralClose(bar, list, range, after, at)
  PROVE  DetectorInv' /\ \A e \in news' : e.type = "sweep_detected" /\ e.about \in pierced[1]
<1> DEFINE confirmed == ConfirmedSweeps(bar, pendingSweeps)
           B == {Event("sweep_detected", 3, <<s.level, s.dir>>) : s \in confirmed}
           broken == Cardinality(Broken(bar, list))
           breaks == [i \in 1 .. broken |-> 3]
<1>1. PICK left \in SUBSET Swings :
        /\ CheckSweep(bar, list, range, left)
        /\ consumedSweeps' = {x \in left : ~Far(bar.close, x, range)}
  BY DEF StructuralClose
<1>2. ResetLevels(bar, range) /\ UNCHANGED muted
  BY DEF StructuralClose
<1>3. IsFiniteSet(B)
  <2>1. IsFiniteSet(confirmed)
    <3> DEFINE P == Older(pendingSweeps)
               f == [s \in pendingSweeps |-> Sweep(s.level, s.dir, s.since + 1)]
    <3>1. f \in [pendingSweeps -> P] /\ \A y \in P : \E x \in pendingSweeps : f[x] = y
      BY DEF Older
    <3>2. IsFiniteSet(pendingSweeps)
      BY DEF DetectorInv
    <3>3. confirmed \subseteq P
      BY DEF ConfirmedSweeps
    <3> HIDE DEF P, f, confirmed
    <3>4. IsFiniteSet(P)
      BY <3>1, <3>2, FiniteImage
    <3> QED
      BY <3>3, <3>4, FS_Subset
  <2> DEFINE f == [s \in confirmed |-> Event("sweep_detected", 3, <<s.level, s.dir>>)]
  <2>2. f \in [confirmed -> B] /\ \A y \in B : \E x \in confirmed : f[x] = y
    OBVIOUS
  <2> HIDE DEF B, f, confirmed
  <2> QED
    BY <2>1, <2>2, FiniteImage
<1>4. backlog' \in 0 .. QueueSize /\ news' \subseteq B
  <2>1. after \in Seq(Nat)
    BY Lists3
  <2>2. breaks \in Seq(Nat)
    <3>1. IsFiniteSet(Broken(bar, list))
      <4>1. Broken(bar, list) \subseteq Swings
        BY DetectorAssumption DEF Broken
      <4> QED
        BY <4>1, FS_Subset, DetectorAssumption
    <3>2. broken \in Nat
      BY <3>1, FS_CardinalityType
    <3> HIDE DEF broken
    <3> QED
      BY <3>2
  <2>3. EmitAll(Others(breaks) \o SetToSeq(B) \o Others(after), at)
    BY DEF StructuralClose
  <2>4. backlog \in 0 .. QueueSize
    BY DEF DetectorInv, DetectorTypeOK
  <2> HIDE DEF B, breaks
  <2> QED
    BY <1>3, <2>1, <2>2, <2>3, <2>4, ToldAmongOthers
<1>5. \A s \in confirmed : <<s.level, s.dir>> \in pierced[1]
  <2> SUFFICES ASSUME NEW s \in confirmed PROVE <<s.level, s.dir>> \in pierced[1]
    OBVIOUS
  <2>1. PICK p \in pendingSweeps : s = Sweep(p.level, p.dir, p.since + 1) /\ s.since = 1
    BY DEF ConfirmedSweeps, Older
  <2>2. s.level = p.level /\ s.dir = p.dir /\ p.since + 1 = 1 /\ p.since \in 0 .. 3
    BY <2>1 DEF Sweep, DetectorInv, DetectorTypeOK
  <2> QED
    BY <2>2 DEF DetectorInv, AgeIsKnown
<1>6. \A e \in news' : e.type = "sweep_detected" /\ e.about \in pierced[1]
  BY <1>4, <1>5 DEF Event
<1>7. /\ consumedLevels' \subseteq {PipOf(l) : l \in ActiveLevels}
      /\ told' \subseteq consumedLevels'
  BY <1>2, ResetLevelsKeeps
<1>8. consumedSweeps' \subseteq Swings
  BY <1>1
<1>9. /\ pendingSweeps' \subseteq Pending /\ IsFiniteSet(pendingSweeps')
      /\ pierced' \in [1 .. 3 -> SUBSET (Swings \X Directions)] /\ AgeIsKnown'
      /\ PassedType'
  BY <1>1, SweepKeeps
<1>10. DetectorInv'
  BY <1>2, <1>4, <1>7, <1>8, <1>9, PendingType, PassedIsTyped DEF DetectorInv, DetectorTypeOK
<1> QED
  BY <1>6, <1>10

LEMMA BackfillKeeps ==
  ASSUME DetectorInv, NEW bar, NEW list \in Lists, NEW range, BackfillBar(bar, list, range)
  PROVE  DetectorInv' /\ news' = {}
<1>1. PICK left \in SUBSET Swings : CheckSweep(bar, list, range, left) /\ consumedSweeps' = left
  BY DEF BackfillBar
<1>2. /\ pendingSweeps' \subseteq Pending /\ IsFiniteSet(pendingSweeps')
      /\ pierced' \in [1 .. 3 -> SUBSET (Swings \X Directions)] /\ AgeIsKnown'
      /\ PassedType'
  BY <1>1, SweepKeeps
<1>3. news' = {} /\ UNCHANGED <<consumedLevels, muted, backlog, told>>
  BY DEF BackfillBar
<1> QED
  BY <1>1, <1>2, <1>3, PendingType, PassedIsTyped DEF DetectorInv, DetectorTypeOK

LEMMA DetectorStep ==
  ASSUME DetectorInv, [DetectorNext]_detectorVars
  PROVE  /\ DetectorInv'
         /\ detectorVars' = detectorVars \/
            \A e \in news' : IF e.type = "sweep_detected" THEN \E i \in 1 .. 3 : e.about \in pierced[i]
                             ELSE e.about \notin told
<1>1. CASE \E bid \in Bids :
             \E breached \in {Breached(bid, sharp) : sharp \in SUBSET ActiveLevels},
                at \in Moments, priority \in {2, 3}, before \in ChangeLists, after \in PeakLists :
                  DetectTick(at, breached, priority, before, after)
  BY <1>1, DetectTickKeeps
<1>2. CASE \E bar \in Bars, range \in Atrs, spikes \in SpikeLists, at \in Moments :
             FiveClose(bar, range, spikes, at)
  BY <1>2, FiveKeeps
<1>3. CASE \E bar \in Bars, range \in Atrs, list \in Lists :
             \E after \in AfterSweeps(bar, list.keys), at \in Moments :
               StructuralClose(bar, list, range, after, at)
  BY <1>3, StructuralKeeps
<1>4. CASE \E bar \in Bars, range \in Atrs, list \in Lists : BackfillBar(bar, list, range)
  BY <1>4, BackfillKeeps
<1>5. CASE Mute
  BY <1>5 DEF Mute, DetectorInv, DetectorTypeOK, AgeIsKnown
<1>6. CASE TakeEvent
  <2>1. backlog' \in 0 .. QueueSize
    <3>1. QueueSize \in Nat
      BY DetectorAssumption
    <3> QED
      BY <1>6, <3>1 DEF TakeEvent, DetectorInv, DetectorTypeOK
  <2> QED
    BY <1>6, <2>1 DEF TakeEvent, DetectorInv, DetectorTypeOK, AgeIsKnown
<1>7. CASE \E price \in ActiveLevels \cup Swings : ResetLevel(price)
  BY <1>7 DEF ResetLevel, DetectorInv, DetectorTypeOK, AgeIsKnown
<1>8. CASE UNCHANGED detectorVars
  BY <1>8 DEF detectorVars, DetectorInv, DetectorTypeOK, AgeIsKnown
<1> QED
  BY <1>1, <1>2, <1>3, <1>4, <1>5, <1>6, <1>7, <1>8 DEF DetectorNext

LEMMA DetectorInvHolds == DetectorSpec => []DetectorInv
<1>1. DetectorInit => DetectorInv
  <2>1. QueueSize \in Nat /\ 0 \in 0 .. QueueSize
    BY DetectorAssumption
  <2>2. DetectorInit => DetectorTypeOK /\ AgeIsKnown
    BY <2>1 DEF DetectorInit, DetectorTypeOK, AgeIsKnown
  <2> QED
    BY <2>2, FS_EmptySet DEF DetectorInit, DetectorInv
<1>2. DetectorInv /\ [DetectorNext]_detectorVars => DetectorInv'
  BY DetectorStep
<1> QED
  BY <1>1, <1>2, PTL DEF DetectorSpec

(* What the detector remembers of levels and sweeps keeps its type, and    *)
(* its queue never holds more than its size.                               *)
THEOREM DetectorTypeCorrect == DetectorSpec => []DetectorTypeOK
  BY DetectorInvHolds, PTL DEF DetectorInv

(* A sweep is reported for one of the three bars before, and no level that *)
(* was announced is announced again before it was freed, for any levels,   *)
(* bars and gates, and any size of the queue.                              *)
THEOREM EventsAreEarned == DetectorSpec => EventsEarned
<1>1. DetectorInv /\ [DetectorNext]_detectorVars
        => [\A e \in news' : IF e.type = "sweep_detected" THEN \E i \in 1 .. 3 : e.about \in pierced[i]
                             ELSE e.about \notin told]_detectorVars
  BY DetectorStep
<1> QED
  BY <1>1, DetectorInvHolds, PTL DEF DetectorSpec, EventsEarned

-----------------------------------------------------------------------------
(* Peaks. Told peaks are confirmed ones, which is why the cooldown of the  *)
(* confirmed ones holds the told ones apart.                               *)

(* A rule is given from the tenth tick on; and while a told peak still     *)
(* counts, it is the last one that was confirmed.                          *)
RuledLate == rule # "none" => ticksSeen >= 10
ToldIsConfirmed == toldAge < Cooldown => toldAge = confirmedAge /\ toldAt = confirmedAt

PeaksInv ==
  /\ ticksSeen \in Nat /\ toldAge \in 0 .. Cooldown /\ confirmedAge \in 0 .. Cooldown
  /\ RuledLate /\ ToldIsConfirmed

LEMMA PeaksInitHolds == PeaksInit => PeaksInv
BY DEF PeaksInit, PeaksInv, RuledLate, ToldIsConfirmed, Cooldown

LEMMA AgesRun ==
  ASSUME NEW age \in 0 .. Cooldown, NEW gap \in Nat
  PROVE  /\ LaterAge(age, gap, Cooldown) \in 0 .. Cooldown
         /\ LaterAge(age, gap, Cooldown) < Cooldown => LaterAge(age, gap, Cooldown) = age + gap
BY DEF LaterAge, Cooldown

(* One tick that is judged keeps the invariant and earns its signal.       *)
RepeatEarned ==
  rule' = "B" /\ toldAge + lastPause' < Cooldown /\ Between(toldAt', toldAt) < NearBy
    => variant = "optimized" /\ Better(moveSide', toldAt', toldAt)

LEMMA JudgeKeeps ==
  ASSUME PeaksInv, NEW gap \in TickPauses, NEW price, NEW side,
         NEW sign, NEW climax, NEW swing,
         ticksSeen' \in Nat, ticksSeen' >= 10, lastPause' = gap, moveSide' = side,
         JudgeTick(gap, price, side, sign, climax, swing)
  PROVE  PeaksInv' /\ RepeatEarned
<1> DEFINE confirmed == sign /\ ~HeldBack(gap, price, side, recent')
           at        == PeakPrice(price, side, recent')
           given     == RuleOf(gap, confirmed, climax, swing)
<1>1. gap \in Nat /\ toldAge \in 0 .. Cooldown /\ confirmedAge \in 0 .. Cooldown
  BY PeakAssumption DEF PeaksInv
<1>2. rule' = given
  BY DEF JudgeTick
<1>3. given = "B" => confirmed
  BY DEF RuleOf
<1>4. CASE confirmed
  <2>1. /\ confirmedAge' = 0 /\ confirmedAt' = at
        /\ toldAge' = IF given # "none" THEN 0 ELSE Cooldown
        /\ toldAt' = IF given # "none" THEN at ELSE 0
    BY <1>4 DEF JudgeTick
  <2>2. PeaksInv'
    BY <2>1 DEF PeaksInv, RuledLate, ToldIsConfirmed, Cooldown
  <2>3. RepeatEarned
    <3> SUFFICES ASSUME rule' = "B", toldAge + gap < Cooldown, Between(toldAt', toldAt) < NearBy
                 PROVE  variant = "optimized" /\ Better(moveSide', toldAt', toldAt)
      BY DEF RepeatEarned
    <3>1. toldAt' = at
      BY <1>2, <2>1
    <3>2. toldAge = confirmedAge /\ toldAt = confirmedAt
      BY <1>1 DEF PeaksInv, ToldIsConfirmed, Cooldown
    <3>3. variant = "optimized" /\ Better(side, Extreme(side, recent'), confirmedAt)
      BY <1>4, <3>1, <3>2 DEF HeldBack
    <3>4. at = Extreme(side, recent')
      BY <3>3 DEF PeakPrice
    <3> QED
      BY <3>1, <3>2, <3>3, <3>4
  <2> QED
    BY <2>2, <2>3
<1>5. CASE ~confirmed
  <2>1. /\ confirmedAge' = LaterAge(confirmedAge, gap, Cooldown)
        /\ toldAge' = LaterAge(toldAge, gap, Cooldown)
        /\ UNCHANGED <<confirmedAt, toldAt>>
    BY <1>5 DEF JudgeTick
  <2>2. /\ toldAge' \in 0 .. Cooldown /\ confirmedAge' \in 0 .. Cooldown
        /\ toldAge' < Cooldown => toldAge' = toldAge + gap
    BY <1>1, <2>1, AgesRun
  <2>3. toldAge' < Cooldown => toldAge < Cooldown
    BY <1>1, <2>2 DEF Cooldown
  <2>4. PeaksInv'
    BY <2>1, <2>2, <2>3 DEF PeaksInv, RuledLate, ToldIsConfirmed
  <2>5. RepeatEarned
    BY <1>2, <1>3, <1>5 DEF RepeatEarned
  <2> QED
    BY <2>4, <2>5
<1> QED
  BY <1>4, <1>5

LEMMA PeakTickKeeps ==
  ASSUME PeaksInv, NEW gap \in TickPauses, NEW price, NEW side,
         NEW sign, NEW climax, NEW swing,
         PeakTick(gap, price, side, sign, climax, swing)
  PROVE  PeaksInv' /\ RepeatEarned
<1>1. /\ ticksSeen' \in Nat /\ (ticksSeen' < 10 => ticksSeen < 10)
      /\ lastPause' = gap /\ moveSide' = side
  BY DEF PeakTick, PeaksInv
<1>2. CASE ticksSeen' < 10
  <2>1. UNCHANGED <<firedAge, confirmedAge, confirmedAt, rule, toldAge, toldAt>>
    BY <1>2 DEF PeakTick
  <2>2. rule = "none"
    BY <1>1, <1>2 DEF PeaksInv, RuledLate
  <2> QED
    BY <1>1, <2>1, <2>2 DEF PeaksInv, RuledLate, ToldIsConfirmed, RepeatEarned
<1>3. CASE ~(ticksSeen' < 10)
  BY <1>1, <1>3, JudgeKeeps DEF PeakTick
<1> QED
  BY <1>2, <1>3

LEMMA PeaksStep ==
  ASSUME PeaksInv, PeaksNext
  PROVE  PeaksInv' /\ RepeatEarned
BY PeakTickKeeps DEF PeaksNext

(* Rule B tells no peak twice, whatever the prices and pauses: only the    *)
(* optimized variant does, of a more extreme one.                          *)
THEOREM RepeatsAreEarned == PeaksSpec => RepeatsEarned
<1>1. PeaksInv /\ [PeaksNext]_peakVars => PeaksInv'
  BY PeaksStep DEF peakVars, PeaksInv, RuledLate, ToldIsConfirmed
<1>2. PeaksInv /\ [PeaksNext]_peakVars
        => [rule' = "B" /\ toldAge + lastPause' < Cooldown /\ Between(toldAt', toldAt) < NearBy
              => variant = "optimized" /\ Better(moveSide', toldAt', toldAt)]_peakVars
  BY PeaksStep DEF RepeatEarned
<1> QED
  BY <1>1, <1>2, PeaksInitHolds, PTL DEF PeaksSpec, RepeatsEarned

(* The prices of the window are bounded, so that it has an extreme.        *)
WindowBounded == \E top \in Nat : \A p \in recent : p <= top

LEMMA ExtremeOf ==
  ASSUME NEW side \in {"buy", "sell"}, NEW prices, prices \subseteq Nat, prices # {},
         NEW top \in Nat, \A p \in prices : p <= top
  PROVE  Extreme(side, prices) \in prices
<1>1. CASE side = "sell"
  <2>1. \E p \in prices : \A q \in prices : p <= q
    BY LeastOf
  <2> QED
    BY <1>1, <2>1 DEF Extreme
<1>2. CASE side = "buy"
  <2>1. PICK p \in prices : \A q \in prices : q <= p
    BY GreatestOf
  <2>2. \A q \in prices : p >= q
    BY <2>1
  <2>3. side # "sell"
    BY <1>2
  <2> QED
    BY <2>2, <2>3 DEF Extreme
<1> QED
  BY <1>1, <1>2

LEMMA AgeType ==
  ASSUME NEW top \in Nat, NEW age \in 0 .. top, NEW gap \in Nat
  PROVE  LaterAge(age, gap, top) \in 0 .. top
BY DEF LaterAge

LEMMA PeakTickTypeOK ==
  ASSUME PeaksTypeOK, WindowBounded, NEW gap \in TickPauses, NEW price \in Mids,
         NEW side \in {"buy", "sell"}, NEW sign, NEW climax, NEW swing,
         PeakTick(gap, price, side, sign, climax, swing)
  PROVE  PeaksTypeOK' /\ WindowBounded'
<1>1. gap \in Nat /\ price \in Nat /\ Mids \subseteq Nat
  BY PeakAssumption
<1>2. PICK kept \in SUBSET (recent \ {price}) : recent' = kept \cup {price}
  BY DEF PeakTick
<1>3. recent' \subseteq Mids /\ recent' # {}
  BY <1>2 DEF PeaksTypeOK
<1>4. WindowBounded'
  <2>1. PICK top \in Nat : \A p \in recent : p <= top
    BY DEF WindowBounded
  <2> DEFINE higher == IF price <= top THEN top ELSE price
  <2>2. higher \in Nat /\ top <= higher /\ price <= higher
    BY <1>1
  <2>3. ASSUME NEW p \in recent' PROVE p <= higher
    <3>1. p = price \/ (p \in recent /\ p <= top)
      BY <1>2, <2>1
    <3>2. p \in Nat
      BY <1>1, <1>3
    <3> QED
      BY <1>1, <2>1, <2>2, <3>1, <3>2
  <2> HIDE DEF higher
  <2> QED
    BY <2>2, <2>3 DEF WindowBounded
<1>5. /\ variant' \in {"base", "optimized"} /\ ticksSeen' \in 0 .. 11
      /\ moveSide' \in {"buy", "sell"} /\ lastPause' \in TickPauses \cup {0}
  BY DEF PeakTick, PeaksTypeOK
<1>6. CASE ticksSeen' < 10
  <2>1. UNCHANGED <<firedAge, confirmedAge, confirmedAt, rule, toldAge, toldAt>>
    BY <1>6 DEF PeakTick
  <2> QED
    BY <1>3, <1>4, <1>5, <2>1 DEF PeaksTypeOK
<1>7. CASE ~(ticksSeen' < 10)
  <2> DEFINE confirmed == sign /\ ~HeldBack(gap, price, side, recent')
             at        == PeakPrice(price, side, recent')
             given     == RuleOf(gap, confirmed, climax, swing)
  <2>1. JudgeTick(gap, price, side, sign, climax, swing)
    BY <1>7 DEF PeakTick
  <2>2. at \in Mids
    <3>1. Extreme(side, recent') \in recent'
      BY <1>1, <1>3, <1>4, ExtremeOf DEF WindowBounded
    <3> QED
      BY <1>3, <3>1 DEF PeakPrice
  <2>3. given \in {"A", "B", "C", "none"}
    BY DEF RuleOf
  <2>4. /\ LaterAge(firedAge, gap, Ancient) \in 0 .. Ancient
        /\ LaterAge(confirmedAge, gap, Cooldown) \in 0 .. Cooldown
        /\ LaterAge(toldAge, gap, Cooldown) \in 0 .. Cooldown
    <3>1. Ancient \in Nat /\ Cooldown \in Nat
      BY DEF Ancient, Cooldown
    <3> QED
      BY <1>1, <3>1, AgeType DEF PeaksTypeOK
  <2>5. /\ rule' = given
        /\ firedAge' = IF given # "none" THEN 0 ELSE LaterAge(firedAge, gap, Ancient)
        /\ IF confirmed
           THEN /\ confirmedAge' = 0 /\ confirmedAt' = at
                /\ toldAge' = IF given # "none" THEN 0 ELSE Cooldown
                /\ toldAt' = IF given # "none" THEN at ELSE 0
           ELSE /\ confirmedAge' = LaterAge(confirmedAge, gap, Cooldown)
                /\ toldAge' = LaterAge(toldAge, gap, Cooldown)
                /\ UNCHANGED <<confirmedAt, toldAt>>
    BY <2>1 DEF JudgeTick
  <2> HIDE DEF confirmed, at, given
  <2>6. 0 \in 0 .. Ancient /\ 0 \in 0 .. Cooldown /\ Cooldown \in 0 .. Cooldown
    BY DEF Ancient, Cooldown
  <2>7. /\ rule' \in {"A", "B", "C", "none"} /\ firedAge' \in 0 .. Ancient
        /\ confirmedAge' \in 0 .. Cooldown /\ toldAge' \in 0 .. Cooldown
    BY <2>3, <2>4, <2>5, <2>6
  <2>8. confirmedAt' \in Mids \cup {0} /\ toldAt' \in Mids \cup {0}
    BY <2>2, <2>5 DEF PeaksTypeOK
  <2> QED
    BY <1>3, <1>4, <1>5, <2>7, <2>8 DEF PeaksTypeOK
<1> QED
  BY <1>6, <1>7

(* The detector's variables keep their types; the peaks that it keeps are  *)
(* prices, and its ages stop at the cooldown.                              *)
THEOREM PeaksTypeCorrect == PeaksSpec => []PeaksTypeOK
<1>1. PeaksInit => PeaksTypeOK /\ WindowBounded
  <2> SUFFICES ASSUME PeaksInit PROVE PeaksTypeOK /\ WindowBounded
    OBVIOUS
  <2>1. PeaksTypeOK
    BY DEF PeaksInit, PeaksTypeOK, Ancient, Cooldown
  <2>2. \A p \in recent : p <= 0
    BY DEF PeaksInit
  <2> QED
    BY <2>1, <2>2 DEF WindowBounded
<1>2. PeaksTypeOK /\ WindowBounded /\ [PeaksNext]_peakVars => PeaksTypeOK' /\ WindowBounded'
  <2> SUFFICES ASSUME PeaksTypeOK, WindowBounded, [PeaksNext]_peakVars
               PROVE  PeaksTypeOK' /\ WindowBounded'
    OBVIOUS
  <2>1. CASE UNCHANGED peakVars
    BY <2>1 DEF peakVars, PeaksTypeOK, WindowBounded
  <2>2. CASE PeaksNext
    BY <2>2, PeakTickTypeOK DEF PeaksNext
  <2> QED
    BY <2>1, <2>2
<1> QED
  BY <1>1, <1>2, PTL DEF PeaksSpec
=============================================================================
