------------------------------- MODULE Liquidity -------------------------------
(***************************************************************************)
(* One level of LiquidityEngine (liquidity_engine.py), as ReversalModel    *)
(* feeds it: on every tick sync_levels copies the type and the direction   *)
(* that LiveMarketEvidence has just given the level, then update takes the *)
(* price.  The engine knows a level by its price alone: where two of the   *)
(* list lie at one price they are one level here, of the type of the later *)
(* one, which need not be the one that it was before.  Levels of different *)
(* prices do not affect one another.                                       *)
(*                                                                         *)
(* Prices are distances from the level in tenths of a pip, positive above  *)
(* it.  Times are in seconds.                                              *)
(***************************************************************************)
EXTENDS Integers

CONSTANTS
  Distances,   \* of the price from the level
  TickGaps,    \* times between two ticks
  Readings     \* what the engines may report: [trap, decays : BOOLEAN]

ASSUME LiquidityAssumption ==
  /\ Distances \subseteq Int /\ TickGaps \subseteq Nat
  /\ Readings \subseteq [trap : BOOLEAN, decays : BOOLEAN]

VARIABLES
  major,      \* level_type is one of the major ones, at the last sync
  tracked,    \* the level is in _levels
  spot,       \* the last price
  breached,   \* is_currently_breached
  depth,      \* max_breach_depth_pips, told apart up to Deep
  inBreach,   \* time_since_breach_sec, told apart up to Long
  isSwept, isBroken,
  sweepShown, \* the level is in active_sweeps
  cameFrom,   \* history: the side of the price before the breach, -1, 0 or 1
  returned    \* history: back on that side since

liquidityVars == <<major, tracked, spot, breached, depth, inBreach, isSwept, isBroken,
                   sweepShown, cameFrom, returned>>

Deep == 81    \* more than 8 pips
Long == 11    \* more than 10 s

LiquidityTypeOK ==
  /\ major \in BOOLEAN /\ tracked \in BOOLEAN /\ spot \in Distances
  /\ breached \in BOOLEAN /\ depth \in 0 .. Deep /\ inBreach \in 0 .. Long
  /\ isSwept \in BOOLEAN /\ isBroken \in BOOLEAN /\ sweepShown \in BOOLEAN
  /\ cameFrom \in {-1, 0, 1} /\ returned \in BOOLEAN

Magnitude(x) == IF x < 0 THEN -x ELSE x
Side01(x) == IF x < 0 THEN -1 ELSE IF x > 0 THEN 1 ELSE 0
AtMost(x, top) == IF x > top THEN top ELSE x

Untouched ==
  /\ breached' = FALSE /\ depth' = 0 /\ inBreach' = 0
  /\ isSwept' = FALSE /\ isBroken' = FALSE /\ sweepShown' = FALSE
  /\ cameFrom' = 0 /\ returned' = FALSE

LiquidityInit ==
  /\ major \in BOOLEAN /\ tracked = FALSE /\ spot \in Distances
  /\ breached = FALSE /\ depth = 0 /\ inBreach = 0
  /\ isSwept = FALSE /\ isBroken = FALSE /\ sweepShown = FALSE
  /\ cameFrom = 0 /\ returned = FALSE

(* sync_levels: a level that is new, or back after it was pruned.          *)
Found == /\ ~tracked /\ tracked' = TRUE /\ major' \in BOOLEAN
         /\ Untouched /\ UNCHANGED spot

(* sync_levels: a level that LiveMarketEvidence no longer lists.           *)
Pruned == /\ tracked /\ tracked' = FALSE /\ Untouched /\ UNCHANGED <<major, spot>>

(* The direction after _reclassify_all_directions                          *)
DirectionAt(x) == IF x > 20 THEN "support" ELSE IF x < -20 THEN "resistance" ELSE "current"

SlipReturns(m, x, d) == FALSE

(* has_returned: on the right side of the level by more than 0.2 pips,     *)
(* where the right side follows from a direction that follows the price.   *)
Returns(m, x, d) ==
  /\ m /\ d >= 5
  /\ \/ DirectionAt(x) = "support" /\ x > 2
     \/ DirectionAt(x) = "resistance" /\ x < -2

(* Too deep to be a sweep: more than 8 pips, ever.                         *)
TooDeep(d) == d = Deep

(* The scores of the minor levels reach a threshold only this way.         *)
ScoresSweep(reading) == reading.trap /\ reading.decays

SlipUndecided == TRUE

(* "If it's already decided recently": update calls _evaluate_breach only  *)
(* in a breach, so that the decay of a decision is never reached.          *)
Undecided == ~isSwept /\ ~isBroken

(* _evaluate_breach of a level whose type is now major or not              *)
Judge(m, x, d, reading) ==
  IF ~Undecided THEN UNCHANGED <<isSwept, isBroken>>
  ELSE /\ isSwept' = (isSwept \/ Returns(m, x, d) \/ (~TooDeep(d) /\ ScoresSweep(reading)))
       /\ isBroken' = (isBroken \/ (~Returns(m, x, d) /\ TooDeep(d)))

(* One tick: sync_levels overwrites the type and keeps all the rest; then  *)
(* update: after a gap every breach is over; a touch within a pip starts   *)
(* one; away from the level for more than ten seconds ends it.             *)
Update(m, x, gap, reading) ==
  LET open    == breached /\ gap <= 5
      breach  == open \/ Magnitude(x) <= 10
      spent   == AtMost((IF gap > 5 THEN 0 ELSE inBreach) + gap, Long)
      deepest == IF Magnitude(x) > depth THEN AtMost(Magnitude(x), Deep) ELSE depth
      over    == Magnitude(x) > 50 /\ spent = Long
      from    == IF open THEN cameFrom ELSE Side01(spot)
  IN  /\ tracked
      /\ major' = m /\ spot' = x
      /\ IF breach
         THEN /\ depth' = deepest
              /\ Judge(m, x, deepest, reading)
              /\ breached' = ~over
              /\ inBreach' = IF over THEN 0 ELSE spent
              /\ cameFrom' = from
              /\ returned' = (Side01(x) = from \/ (open /\ returned))
         ELSE /\ breached' = FALSE
              /\ inBreach' = IF gap > 5 THEN 0 ELSE inBreach
              /\ UNCHANGED <<depth, isSwept, isBroken, cameFrom, returned>>
      /\ sweepShown' = (isSwept' /\ breached')
      /\ UNCHANGED tracked

LiquidityNext ==
  \/ Found \/ Pruned
  \/ \E m \in BOOLEAN, x \in Distances, gap \in TickGaps, reading \in Readings :
       Update(m, x, gap, reading)

LiquiditySpec == LiquidityInit /\ [][LiquidityNext]_liquidityVars

-----------------------------------------------------------------------------
(* No tick on which a level is of a major type finds it broken, however    *)
(* deep its breaches were and whatever type it had in them: its direction  *)
(* follows the price, so that price has "returned" as soon as it is two    *)
(* tenths of a pip away on either side.  (A level that was broken under a  *)
(* minor type stays broken when a major one at its price takes its place.) *)
(* And over all the breaches of a level's life, and all its types, the     *)
(* first judgement stands: it is never taken for swept and for broken.     *)
BreaksAreMinor ==
  [][/\ isBroken' /\ ~isBroken => ~major'
     /\ tracked /\ tracked' /\ (isSwept \/ isBroken)
          => isSwept' = isSwept /\ isBroken' = isBroken
     /\ ~(isSwept' /\ isBroken')]_liquidityVars

(* The engine tells a level that "has been swept (liquidity grabbed)" from *)
(* one that is "broken (price accepting new area)": a level that price ran *)
(* through by more than eight pips without coming back is not swept.       *)
RunThroughIsNoSweep == sweepShown /\ Magnitude(spot) > 80 => returned
=============================================================================
