---------------------------- MODULE EventDetector ----------------------------
(***************************************************************************)
(* EventDetector (event_detector.py): which breaches of levels and sweeps  *)
(* of swings it finds on ticks and closed bars, and which events reach its *)
(* queue.  Candle patterns are found as in the code; what the other events *)
(* (changes of session, spread and regime, peaks, spikes, divergences) are *)
(* found by is left out: they only compete for room in the queue.  The     *)
(* swings, the levels' behaviour and the ATR are inputs, and the events of *)
(* one call are stamped alike.  Prices are in tenths of a pip.             *)
(***************************************************************************)
EXTENDS Integers, Sequences, FiniteSets, SequencesExt

CONSTANTS
  ActiveLevels,  \* prices of the active institutional levels
  Swings,        \* prices of swing highs and lows
  Bids, Bars,    \* prices of ticks; bars [open, high, low, close]
  Lists,         \* at a bar: [highs, lows, latest, keys], sets of prices
  Moments,       \* what _emit looks at: [asian, safe, hours]
  Atrs,          \* values of the H1 ATR
  ResetMult,     \* realtime_level_reset_atr_multiple
  Asian,         \* realtime_suppress_asian
  TestMode,      \* test_mode, or events are not logged
  QueueSize      \* size of the queue

ASSUME DetectorAssumption ==
  /\ ActiveLevels \subseteq Nat /\ Swings \subseteq Nat /\ Bids \subseteq Nat
  /\ Atrs \subseteq Nat /\ ResetMult \in Nat /\ QueueSize \in Nat \ {0}
  /\ Asian \in BOOLEAN /\ TestMode \in BOOLEAN
  /\ IsFiniteSet(ActiveLevels) /\ IsFiniteSet(Swings)
  /\ \A list \in Lists : list.highs \subseteq Swings /\ list.lows \subseteq Swings

VARIABLES
  consumedLevels,    \* prices to four digits, in pips
  consumedSweeps,    \* prices to five digits
  pendingSweeps,     \* [level, dir, since]: swept, to be confirmed by a later bar
  muted,             \* is_in_trade is set, or _cooldown_until is ahead
  backlog,           \* length of the queue
  news,              \* history: the sweeps and breaches the last call put there
  pierced,           \* history: <<level, dir>> swept by each of the last three bars
                     \* that were looked at for sweeps
  passedOver,        \* history: sweeps that the last of them left pending although it
                     \* closed in the direction of the reversal
  told               \* history: levels announced since the price was last far from them

detectorVars == <<consumedLevels, consumedSweeps, pendingSweeps, muted, backlog, news, pierced,
                  passedOver, told>>

Directions == {"bearish_sweep", "bullish_sweep"}
Away(x, y) == IF x < y THEN y - x ELSE x - y

(* round(price, 4): the pip nearest to a price.                            *)
PipOf(price) == (price + 5) \div 10

Sweep(level, dir, since) == [level |-> level, dir |-> dir, since |-> since]

DetectorTypeOK ==
  /\ consumedLevels \subseteq {PipOf(l) : l \in ActiveLevels} /\ told \subseteq consumedLevels
  /\ consumedSweeps \subseteq Swings
  /\ \A s \in pendingSweeps : s.level \in Swings /\ s.dir \in Directions /\ s.since \in 0 .. 3
  /\ muted \in BOOLEAN /\ backlog \in 0 .. QueueSize
  /\ pierced \in [1 .. 3 -> SUBSET (Swings \X Directions)]
  /\ \A s \in passedOver : s.level \in Swings /\ s.dir \in Directions /\ s.since \in 1 .. 3

DetectorInit ==
  /\ consumedLevels = {} /\ consumedSweeps = {} /\ pendingSweeps = {}
  /\ muted = FALSE /\ backlog = 0
  /\ news = {} /\ pierced = [i \in 1 .. 3 |-> {}] /\ passedOver = {} /\ told = {}

Event(type, priority, about) == [type |-> type, priority |-> priority, about |-> about]

(* Other events, of priorities 1 (LOW) to 3 (HIGH).                        *)
Others(priorities) == [i \in DOMAIN priorities |-> Event("other", priorities[i], i)]

(* What a tick may bring, by priorities: changes of session and spread,    *)
(* and peaks, of the base and the optimized detector.                      *)
ChangeLists == {<<>>, <<1>>, <<1, 1>>}
PeakLists == {<<>>, <<2>>, <<3>>} \cup ({2, 3} \X {2, 3})

(* What a bar may bring: a spike of M5, a shift of the regime of M15 and   *)
(* H1, and a divergence of theirs, either way but not both.                *)
SpikeLists == {<<>>, <<3>>}
ShiftLists == {<<>>, <<2>>}
DivergenceLists == {<<>>, <<2>>}

(* _emit: no event in a trade or a cooldown, none with a stamp outside     *)
(* 07:00 to 20:00 (at.hours), only high ones in the Asian session, and     *)
(* none at a wide spread: no event has the priority CRITICAL.              *)
Passes(event, at) ==
  /\ ~muted
  /\ TestMode \/ at.hours
  /\ Asian /\ at.asian => event.priority >= 3
  /\ at.safe

(* _emit of several events: those that pass go to the queue while it has   *)
(* room, and the others are dropped.                                       *)
EmitAll(events, at) ==
  LET passing == {i \in DOMAIN events : Passes(events[i], at)}
      room    == QueueSize - backlog
      put     == {i \in passing : Cardinality({j \in passing : j < i}) < room}
  IN  /\ backlog' = IF Cardinality(passing) < room THEN backlog + Cardinality(passing)
                                                   ELSE QueueSize
      /\ news' = {e \in {events[i] : i \in put} : e.type # "other"}

-----------------------------------------------------------------------------
(* _check_level_breach: levels within two pips whose rejections were not   *)
(* sharp; two levels of one pip are announced once.                        *)
Breached(bid, sharp) ==
  {PipOf(l) : l \in {m \in ActiveLevels \ sharp : Away(bid, m) <= 20}} \ consumedLevels

(* on_tick: changes of session and spread come before the levels, peaks    *)
(* after.  A level is consumed whatever becomes of its event.              *)
DetectTick(at, breached, priority, before, after) ==
  /\ EmitAll(Others(before)
               \o SetToSeq({Event("level_breach", priority, pip) : pip \in breached})
               \o Others(after), at)
  /\ consumedLevels' = consumedLevels \cup breached
  /\ told' = told \cup {e.about : e \in news'}
  /\ UNCHANGED <<consumedSweeps, pendingSweeps, muted, pierced, passedOver>>

-----------------------------------------------------------------------------
(* _check_sweep: a wick beyond a swing, by less than an ATR, and a close   *)
(* on this side of it.                                                     *)
Pierces(bar, list, range) ==
  {<<h, "bearish_sweep">> :
     h \in {x \in list.highs : bar.high > x /\ bar.close < x /\ bar.high - x < range}}
  \cup
  {<<l, "bullish_sweep">> :
     l \in {x \in list.lows : bar.low < x /\ bar.close > x /\ x - bar.low < range}}

(* _check_sweep: one bar later for each that is pending.                   *)
Older(pending) == {Sweep(s.level, s.dir, s.since + 1) : s \in pending}

Reverses(bar, dir) ==
  IF dir = "bearish_sweep" THEN bar.close < bar.open ELSE bar.close > bar.open

(* Definitions named Slip... are not the code: each is a mistake that      *)
(* could be made in the definition after it, kept to show that a property  *)
(* would notice.                                                           *)
SlipConfirmedSweeps(bar, pending) == {s \in Older(pending) : Reverses(bar, s.dir)}

(* Only the bar right after the sweep is asked for the reversal, although  *)
(* the sweep goes on pending for two more.                                 *)
ConfirmedSweeps(bar, pending) ==
  {s \in Older(pending) : s.since = 1 /\ Reverses(bar, s.dir)}

(* Pending for three bars without a confirmation.                          *)
Expired(pending) == {s \in Older(pending) : s.since > 3}

(* At most one new sweep of each direction, of swings not consumed.        *)
FirstOf(found) ==
  {new \in SUBSET found :
     \A d \in Directions :
       Cardinality({s \in new : s[2] = d}) = IF \E s \in found : s[2] = d THEN 1 ELSE 0}

Recalled(found) == [i \in 1 .. 3 |-> IF i = 1 THEN found ELSE pierced[i - 1]]

(* _check_sweep: what expires is free to be swept again by the same bar.   *)
(* left is what the bar leaves consumed.                                   *)
CheckSweep(bar, list, range, left) ==
  LET kept == consumedSweeps \ {s.level : s \in Expired(pendingSweeps)}
  IN  \E new \in FirstOf({s \in Pierces(bar, list, range) : s[1] \notin kept}) :
        /\ pendingSweeps' = ((Older(pendingSweeps) \ Expired(pendingSweeps))
                               \ ConfirmedSweeps(bar, pendingSweeps))
                             \cup {Sweep(s[1], s[2], 0) : s \in new}
        /\ left = kept \cup {s[1] : s \in new}
        /\ pierced' = Recalled(Pierces(bar, list, range))
        /\ passedOver' = {s \in Older(pendingSweeps) \ ConfirmedSweeps(bar, pendingSweeps) :
                            s.since <= 3 /\ Reverses(bar, s.dir)}

(* _check_structure_break, against the latest swing of each side.          *)
Broken(bar, list) ==
  {x \in list.highs \cap list.latest : bar.close > x /\ bar.open <= x}
  \cup {x \in list.lows \cap list.latest : bar.close < x /\ bar.open >= x}

(* Pin bar or engulfing pattern, in direction dir.  body is a length.      *)
Body(bar) == Away(bar.open, bar.close)
PinBar(bar, dir) ==
  LET range  == bar.high - bar.low
      shadow == IF dir = "bearish" THEN bar.high - Max({bar.open, bar.close})
                ELSE Min({bar.open, bar.close}) - bar.low
  IN  /\ 10 * Body(bar) <= 3 * range /\ 10 * shadow > 6 * range
      /\ IF dir = "bearish" THEN bar.close <= bar.open ELSE bar.close >= bar.open

Engulfs(bar, prev, dir) ==
  /\ Body(bar) > Body(prev)
  /\ IF dir = "bullish"
     THEN /\ bar.close > bar.open /\ prev.close <= prev.open
          /\ bar.open <= prev.close /\ bar.close >= prev.open
     ELSE /\ bar.close <= bar.open /\ prev.close > prev.open
          /\ bar.open >= prev.close /\ bar.close <= prev.open

(* _check_candle_pattern_at_level: only the lowest key level within five   *)
(* pips counts, and the pattern must turn away from it.                    *)
PatternAt(bar, prev, keys) ==
  \E level \in {k \in keys : Away(bar.close, k) <= 50}, dir \in {"bearish", "bullish"} :
    /\ \A k \in keys : Away(bar.close, k) <= 50 => level <= k
    /\ PinBar(bar, dir) \/ Engulfs(bar, prev, dir)
    /\ IF dir = "bearish" THEN level >= bar.close ELSE level <= bar.close

(* grade: by how often the level was met and by the size of the body.      *)
Patterns(bar, prev, keys, grade) ==
  IF PatternAt(bar, prev, keys) /\ (grade = "LOW" => TestMode)
  THEN <<IF grade = "HIGH" THEN 3 ELSE 2>> ELSE <<>>

(* Whatever bar of its timeframe came before.                              *)
PatternLists(bar, keys) ==
  {Patterns(bar, prev, keys, grade) : prev \in Bars, grade \in {"LOW", "MEDIUM", "HIGH"}}

(* What a structural bar may bring after its sweeps.                       *)
AfterSweeps(bar, keys) ==
  {pattern \o shift \o divergence :
     pattern \in PatternLists(bar, keys), shift \in ShiftLists, divergence \in DivergenceLists}

(* _try_reset_consumed_levels: the price is far from a level.              *)
Far(price, level, range) == Away(price, level) > range * ResetMult

ResetLevels(bar, range) ==
  /\ consumedLevels' = {k \in consumedLevels : ~Far(bar.close, 10 * k, range)}
  /\ told' = {k \in told : ~Far(bar.close, 10 * k, range)}

(* on_candle_close of M5: volatility spikes, and the levels.               *)
FiveClose(bar, range, spikes, at) ==
  /\ EmitAll(Others(spikes), at)
  /\ ResetLevels(bar, range)
  /\ consumedSweeps' = {x \in consumedSweeps : ~Far(bar.close, x, range)}
  /\ UNCHANGED <<pendingSweeps, muted, pierced, passedOver>>

(* on_candle_close of M15, H1 and H4, whose bars count alike for a pending *)
(* sweep: breaks, sweeps, then a pattern, the regime and a divergence      *)
(* (after), and last the levels.                                           *)
StructuralClose(bar, list, range, after, at) ==
  /\ EmitAll(Others([i \in 1 .. Cardinality(Broken(bar, list)) |-> 3])
               \o SetToSeq({Event("sweep_detected", 3, <<s.level, s.dir>>) :
                              s \in ConfirmedSweeps(bar, pendingSweeps)})
               \o Others(after), at)
  /\ \E left \in SUBSET Swings :
       /\ CheckSweep(bar, list, range, left)
       /\ consumedSweeps' = {x \in left : ~Far(bar.close, x, range)}
  /\ ResetLevels(bar, range) /\ UNCHANGED muted

(* backfill_historical_events, one bar of it: its events go to the         *)
(* dashboard's history only, but what it sweeps stays consumed and         *)
(* pending.                                                                *)
BackfillBar(bar, list, range) ==
  /\ \E left \in SUBSET Swings : CheckSweep(bar, list, range, left) /\ consumedSweeps' = left
  /\ news' = {} /\ UNCHANGED <<consumedLevels, muted, backlog, told>>

-----------------------------------------------------------------------------
(* set_cooldown, is_in_trade set from outside, and the end of both.        *)
Mute ==
  /\ muted' = ~muted /\ news' = {}
  /\ UNCHANGED <<consumedLevels, consumedSweeps, pendingSweeps, backlog, pierced, passedOver,
                 told>>

(* reset_consumed_level: rounds to five digits, so that only a level that  *)
(* lies on a pip is found among those consumed.                            *)
ResetLevel(price) ==
  /\ consumedLevels' = {k \in consumedLevels : 10 * k # price}
  /\ told' = {k \in told : 10 * k # price}
  /\ consumedSweeps' = consumedSweeps \ {price} /\ news' = {}
  /\ UNCHANGED <<pendingSweeps, muted, backlog, pierced, passedOver>>

TakeEvent ==
  /\ backlog > 0 /\ backlog' = backlog - 1 /\ news' = {}
  /\ UNCHANGED <<consumedLevels, consumedSweeps, pendingSweeps, muted, pierced, passedOver,
                 told>>

DetectorNext ==
  \/ \E bid \in Bids :
       \E breached \in {Breached(bid, sharp) : sharp \in SUBSET ActiveLevels},
          at \in Moments, priority \in {2, 3}, before \in ChangeLists, after \in PeakLists :
            DetectTick(at, breached, priority, before, after)
  \/ \E bar \in Bars, range \in Atrs, spikes \in SpikeLists, at \in Moments :
       FiveClose(bar, range, spikes, at)
  \/ \E bar \in Bars, range \in Atrs, list \in Lists :
       \E after \in AfterSweeps(bar, list.keys), at \in Moments :
         StructuralClose(bar, list, range, after, at)
  \/ \E bar \in Bars, range \in Atrs, list \in Lists : BackfillBar(bar, list, range)
  \/ Mute \/ TakeEvent
  \/ \E price \in ActiveLevels \cup Swings : ResetLevel(price)

DetectorSpec == DetectorInit /\ [][DetectorNext]_detectorVars

-----------------------------------------------------------------------------
(* A sweep that is reported was made by one of the three bars before, and  *)
(* never by the bar that reports it, whatever swings were swept and freed  *)
(* meanwhile: "Discard after 3 candles without confirmation".  A level     *)
(* that was announced is not announced again before the price has closed   *)
(* far from it, or it was reset by hand, whatever the ticks, the gates and *)
(* the queue did.                                                          *)
EventsEarned ==
  [][\A e \in news' : IF e.type = "sweep_detected" THEN \E i \in 1 .. 3 : e.about \in pierced[i]
                      ELSE e.about \notin told]_detectorVars

(* "On each subsequent candle close, check if pending sweeps confirm", and *)
(* "if the candle did NOT confirm, keep waiting (up to 3 total)": a bar    *)
(* that closes in the direction of the reversal leaves no sweep of the     *)
(* three bars before it pending.                                           *)
SweepsWait == passedOver = {}
=============================================================================
