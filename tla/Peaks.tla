-------------------------------- MODULE Peaks --------------------------------
(***************************************************************************)
(* PeakDetector (peak_detector.py) in its two variants, the base one and   *)
(* the optimized one that EventDetector runs side by side: which peaks of  *)
(* the ticks it tells of, and which it holds back.                         *)
(*                                                                         *)
(* Velocities are left out: inputs say whether a tick meets the conditions *)
(* of Rule B (divergence and collapsed efficiency), of Rule A (a climax)   *)
(* and of Rule C (a swing five ticks ago).  The window of recent ticks is  *)
(* the set of its prices, of which any may have left at the next tick.     *)
(* Prices are in tenths of a pip, times in units of 30 seconds.            *)
(***************************************************************************)
EXTENDS Integers

CONSTANTS
  Mids,        \* prices of ticks
  TickPauses,  \* times between two ticks
  SwingRule    \* rule_c_enabled

ASSUME PeakAssumption ==
  Mids \subseteq Nat /\ TickPauses \subseteq Nat /\ SwingRule \in BOOLEAN

VARIABLES
  variant,       \* the arguments of the constructor
  ticksSeen,     \* length of tick_prices, up to 11
  recent,        \* prices of the active window
  firedAge,      \* time since last_fired_peak_time, up to Ancient
  confirmedAge, confirmedAt,  \* since _last_confirmed_time; _last_confirmed_price
  rule,          \* the rule of the signal that the last tick gave, or "none"
  moveSide,      \* dominant_side of that tick, against which the signal points
  lastPause,     \* history: the time before that tick
  toldAge, toldAt             \* history: the last confirmed peak, if it was told of

peakVars == <<variant, ticksSeen, recent, firedAge, confirmedAge, confirmedAt, rule,
              moveSide, lastPause, toldAge, toldAt>>

Cooldown == 4   \* COOLDOWN_SEC
NearBy   == 30  \* COOLDOWN_PIPS
Ancient  == 11  \* longer than all waits; also: never

(* How long after the last signal a rule gives none.                       *)
Wait(r) == CASE r = "A" -> 6 [] r = "B" -> 2 [] r = "C" -> 10

PeaksTypeOK ==
  /\ variant \in {"base", "optimized"} /\ ticksSeen \in 0 .. 11 /\ recent \subseteq Mids
  /\ firedAge \in 0 .. Ancient /\ confirmedAge \in 0 .. Cooldown /\ toldAge \in 0 .. Cooldown
  /\ confirmedAt \in Mids \cup {0} /\ toldAt \in Mids \cup {0}
  /\ rule \in {"A", "B", "C", "none"} /\ moveSide \in {"buy", "sell"}
  /\ lastPause \in TickPauses \cup {0}

PeaksInit ==
  /\ variant \in {"base", "optimized"}
  /\ ticksSeen = 0 /\ recent = {} /\ rule = "none" /\ moveSide = "buy" /\ lastPause = 0
  /\ firedAge = Ancient /\ confirmedAge = Cooldown /\ confirmedAt = 0
  /\ toldAge = Cooldown /\ toldAt = 0

LaterAge(age, gap, top) == IF age + gap > top THEN top ELSE age + gap
Between(x, y)  == IF x < y THEN y - x ELSE x - y

(* The extreme of the move.                                                *)
Extreme(side, prices) ==
  CHOOSE p \in prices : \A q \in prices : IF side = "sell" THEN p <= q ELSE p >= q

SlipPeakPrice(price, side, prices) == price

(* pinpoint_price if use_pinpoint_price else price                         *)
PeakPrice(price, side, prices) ==
  IF variant = "optimized" THEN Extreme(side, prices) ELSE price

(* is_better_peak: more extreme than the last one.                         *)
Better(side, extreme, last) == IF side = "sell" THEN extreme < last ELSE extreme > last

(* The cooldown holds a peak back soon after the last confirmed one and    *)
(* near it, unless a better one may bypass it.                             *)
HeldBack(gap, price, side, prices) ==
  /\ confirmedAge + gap < Cooldown
  /\ Between(PeakPrice(price, side, prices), confirmedAt) < NearBy
  /\ ~(variant = "optimized" /\ Better(side, Extreme(side, prices), confirmedAt))

(* The first rule that the tick meets and whose wait is over.              *)
RuleOf(gap, confirmed, climax, swing) ==
  LET Free(r) == firedAge + gap > Wait(r)
  IN  IF climax /\ Free("A") THEN "A"
      ELSE IF confirmed /\ Free("B") THEN "B"
      ELSE IF SwingRule /\ swing /\ ticksSeen' = 11 /\ Free("C") THEN "C" ELSE "none"

(* update, from the tenth tick on.  A peak that is confirmed starts the    *)
(* cooldown anew, whether or not a signal tells of it.                     *)
JudgeTick(gap, price, side, sign, climax, swing) ==
  LET confirmed == sign /\ ~HeldBack(gap, price, side, recent')
      at        == PeakPrice(price, side, recent')
      given     == RuleOf(gap, confirmed, climax, swing)
  IN  /\ rule' = given
      /\ firedAge' = IF given # "none" THEN 0 ELSE LaterAge(firedAge, gap, Ancient)
      /\ IF confirmed
         THEN /\ confirmedAge' = 0 /\ confirmedAt' = at
              /\ toldAge' = IF given # "none" THEN 0 ELSE Cooldown
              /\ toldAt' = IF given # "none" THEN at ELSE 0
         ELSE /\ confirmedAge' = LaterAge(confirmedAge, gap, Cooldown)
              /\ toldAge' = LaterAge(toldAge, gap, Cooldown)
              /\ UNCHANGED <<confirmedAt, toldAt>>

PeakTick(gap, price, side, sign, climax, swing) ==
  /\ ticksSeen' = IF ticksSeen < 11 THEN ticksSeen + 1 ELSE 11
  /\ \E kept \in SUBSET (recent \ {price}) : recent' = kept \cup {price}
  /\ IF ticksSeen' < 10
     THEN UNCHANGED <<firedAge, confirmedAge, confirmedAt, rule, toldAge, toldAt>>
     ELSE JudgeTick(gap, price, side, sign, climax, swing)
  /\ moveSide' = side /\ lastPause' = gap /\ UNCHANGED variant

PeaksNext ==
  \E gap \in TickPauses, price \in Mids, side \in {"buy", "sell"} :
    \/ \E sign, climax \in BOOLEAN : PeakTick(gap, price, side, sign, climax, FALSE)
    \/ PeakTick(gap, price, side, FALSE, FALSE, TRUE)

PeaksSpec == PeaksInit /\ [][PeaksNext]_peakVars

-----------------------------------------------------------------------------
(* The same peak is not told of twice.  Once a confirmed peak was told of, *)
(* by whichever rule, Rule B tells of one within two minutes and three     *)
(* pips of it only when this one is more extreme, in the optimized         *)
(* variant, or when another was confirmed in between and held back by the  *)
(* waits of the rules, although nobody heard of that one.                  *)
RepeatsEarned ==
  [][rule' = "B" /\ toldAge + lastPause' < Cooldown /\ Between(toldAt', toldAt) < NearBy
     => variant = "optimized" /\ Better(moveSide', toldAt', toldAt)]_peakVars
=============================================================================
