----------------------------- MODULE PriceLevels -----------------------------
(***************************************************************************)
(* The levels that LiveMarketEvidence (live_state.py) keeps at one price:  *)
(* how they are found, touched, turned from resistance into support and    *)
(* dropped.  Levels at different prices do not affect one another; those   *)
(* at one price share an entry of _pending_touches.                        *)
(*                                                                         *)
(* Prices are distances in pips from the levels.  Bid and mid are taken as *)
(* one price: the levels' zones are wider than the spread.                 *)
(***************************************************************************)
EXTENDS Integers, FiniteSets

CONSTANTS
  Kind,      \* the kinds of the levels at the price, in the order of price_levels
  Reach,     \* distances of the price
  MaxVisits  \* bound: visits of the price's zone since it was first listed

(* "daily": PDH, PDL, PWH, PWL, ASH, ASL, ROUND; "h4": H4_SWING;           *)
(* "swing": M15_SWING; "high": the day's or the session's running high.    *)
ASSUME KindAssumption ==
  /\ DOMAIN Kind \subseteq Nat /\ IsFiniteSet(DOMAIN Kind)
  /\ \A i \in DOMAIN Kind : Kind[i] \in {"daily", "h4", "swing", "high"}
ASSUME ReachAssumption == Reach \subseteq Int /\ MaxVisits \in Nat \ {0}

Levels == DOMAIN Kind
Facing == {"support", "resistance", "current"}

VARIABLES
  listed,     \* the levels that are in price_levels
  facing,     \* direction, by level
  touches,    \* by level
  pendingTouch, \* _pending_touches of the price
  mid,        \* the price at the last tick
  barClose,   \* the price at the tick before: the close of a bar that ends here
  sessionHigh, \* _today_high
  visits      \* history: visits of the zone

levelVars == <<listed, facing, touches, pendingTouch, mid, barClose, sessionHigh, visits>>

LevelsTypeOK ==
  /\ listed \subseteq Levels
  /\ facing \in [Levels -> Facing]
  /\ touches \in [Levels -> Nat]
  /\ pendingTouch \in BOOLEAN
  /\ mid \in Reach /\ barClose \in Reach /\ sessionHigh \in Reach
  /\ visits \in 0 .. MaxVisits

OfKind(k) == {i \in Levels : Kind[i] = k}

(* _reclassify_all_directions                                              *)
Faces(x) == IF x > 2 THEN "support" ELSE IF x < -2 THEN "resistance" ELSE "current"

Near(x) == -3 <= x /\ x <= 3

(* initialize: the levels that the seeded history shows at the price.      *)
LevelsInit ==
  /\ mid \in Reach /\ barClose = mid /\ sessionHigh = mid
  /\ listed \in SUBSET (OfKind("daily") \cup OfKind("h4"))
  /\ facing = [i \in Levels |-> Faces(mid)]
  /\ touches = [i \in Levels |-> 0]
  /\ pendingTouch = FALSE /\ visits = (IF Near(mid) THEN 1 ELSE 0)

(* A reversal away from the level by five pips, on the side it faces.      *)
Confirms(i, face, x) ==
  \/ face[i] = "support" /\ x >= 5
  \/ face[i] = "resistance" /\ x <= -5

SlipStillPending(x, counted) == Near(x) \/ pendingTouch

(* The pending touch is used up by the first level that counts it.         *)
StillPending(x, counted) == Near(x) \/ (pendingTouch /\ counted = {})

(* on_tick: the running high is moved and its level is listed anew;        *)
(* touches are counted in the order of the list; then every level faces    *)
(* the side on which the price is now.                                     *)
LevelTick(x, newDay) ==
  LET high   == IF newDay \/ x > sessionHigh THEN x ELSE sessionHigh
      highs  == IF high = 0 THEN OfKind("high") ELSE {}
      there  == (listed \ OfKind("high")) \cup highs
      face   == [i \in Levels |-> IF Kind[i] = "high" THEN "resistance" ELSE facing[i]]
      counts == {i \in there : pendingTouch /\ Confirms(i, face, x)}
      counted == {i \in counts : \A j \in counts : i <= j}
  IN  /\ ~Near(x) \/ Near(mid) \/ visits < MaxVisits
      /\ mid' = x /\ barClose' = mid /\ sessionHigh' = high
      /\ listed' = there
      /\ touches' = [i \in Levels |->
                       IF i \in counted THEN touches[i] + 1
                       ELSE IF Kind[i] = "high" THEN 0 ELSE touches[i]]
      /\ pendingTouch' = IF there = {} THEN pendingTouch ELSE StillPending(x, counted)
      /\ facing' = [i \in Levels |-> IF i \in there THEN Faces(x) ELSE face[i]]
      /\ visits' = IF Near(x) /\ ~Near(mid) THEN visits + 1 ELSE visits

-----------------------------------------------------------------------------
(* Levels that are found anew start without touches.                       *)
Renewed(found, fs) ==
  /\ touches' = [i \in Levels |-> IF i \in found THEN 0 ELSE touches[i]]
  /\ facing' = [i \in Levels |-> IF i \in found THEN fs ELSE facing[i]]

(* An M15 bar closes: _update_m15_swings lists the swings anew, each only  *)
(* on the side of the close on which it is not breached.                   *)
QuarterClose ==
  \E found \in {{}, OfKind("swing")} :
    /\ found # {} => barClose # 0
    /\ listed' = (listed \ OfKind("swing")) \cup found
    /\ Renewed(found, IF barClose < 0 THEN "resistance" ELSE "support")
    /\ UNCHANGED <<pendingTouch, mid, barClose, sessionHigh, visits>>

Behind(i, c, margin) ==
  \/ facing[i] = "resistance" /\ c > margin
  \/ facing[i] = "support" /\ c < -margin

(* _invalidate_price_levels: levels not touched for more than five days    *)
(* (old: any of them, for all that is kept here), and those closed through *)
Invalid(i, frame, old) ==
  \/ i \in old
  \/ frame = "H1" /\ Kind[i] \in {"swing", "high"} /\ Behind(i, barClose, 3)
  \/ frame = "H4" /\ Kind[i] = "h4" /\ Behind(i, barClose, 0)

(* _calculate_initial_institutional_levels: all levels are listed anew, as *)
(* they are found at their old price or not; swings and running highs are  *)
(* dropped.  An exception leaves those found before it.                    *)
Relist(found) ==
  /\ listed' = found
  /\ Renewed(found, Faces(barClose))

(* An H1 bar closes; the first of a new day lists all levels anew.         *)
HourClose ==
  /\ \/ /\ \E old \in SUBSET listed : listed' = {i \in listed : ~Invalid(i, "H1", old)}
        /\ UNCHANGED <<facing, touches>>
     \/ \E found \in SUBSET (OfKind("daily") \cup OfKind("h4")) : Relist(found)
  /\ UNCHANGED <<pendingTouch, mid, barClose, sessionHigh, visits>>

(* An H4 bar closes.                                                       *)
FourHourClose ==
  /\ \E old \in SUBSET listed : listed' = {i \in listed : ~Invalid(i, "H4", old)}
  /\ UNCHANGED <<facing, touches, pendingTouch, mid, barClose, sessionHigh, visits>>

LevelsNext ==
  \/ \E x \in Reach, newDay \in BOOLEAN : LevelTick(x, newDay)
  \/ QuarterClose \/ HourClose \/ FourHourClose

LevelsSpec == LevelsInit /\ [][LevelsNext]_levelVars

-----------------------------------------------------------------------------
(* One visit of the price is counted as a touch once at most, however many *)
(* levels lie there and however often they are listed anew: strength is    *)
(* earned by coming back.                                                  *)
TouchesAreVisits ==
  /\ \A i \in Levels : touches[i] <= visits
  /\ \A i \in Levels : \A j \in Levels \ {i} : touches[i] + touches[j] <= visits
=============================================================================
