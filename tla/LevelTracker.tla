----------------------------- MODULE LevelTracker -----------------------------
(***************************************************************************)
(* LevelBehaviorTracker (level_tracker.py) at one level: what it counts as *)
(* approaches, attacks and rejections.  LiveMarketEvidence.on_tick calls   *)
(* update last, when the level already faces the new price.  Levels do not *)
(* affect one another; volumes and velocities are left out.                *)
(*                                                                         *)
(* Prices are distances in pips from the level, times in units of the      *)
(* shortest gap between ticks.                                             *)
(***************************************************************************)
EXTENDS Integers

CONSTANTS
  Places,         \* distances of the price from the level
  Pauses,         \* times between two ticks
  GapAfter,       \* 5 s: a longer pause does not age an approach
  MaxApproach,    \* max_approach_duration_sec
  OuterZone, InnerZone, RejectionConfirm, PullbackReset,  \* in pips
  MaxAttacks      \* bound: approaches counted

ASSUME TrackerAssumption ==
  /\ Places \subseteq Int /\ Pauses \subseteq Nat /\ GapAfter \in Nat
  /\ MaxApproach \in Nat /\ MaxAttacks \in Nat
  /\ InnerZone \in Nat /\ OuterZone \in Nat /\ RejectionConfirm \in Nat
  /\ PullbackReset \in Nat /\ InnerZone <= OuterZone

(* 5 and 10 pips, unless the configuration says otherwise.                 *)
ASSUME ZoneAssumption == OuterZone <= PullbackReset

VARIABLES
  known,        \* the level is in _behaviors
  inApproach,   \* in_approach
  approachAge,  \* the last tick's time less approach_start_time
  peak,         \* approach_peak_price
  total, consecutive,  \* total_attacks, consecutive_attacks
  rejections,   \* rejection_count
  timedOut      \* history: approaches that were closed for their age

trackerVars == <<known, inApproach, approachAge, peak, total, consecutive, rejections,
                 timedOut>>

Gap(x, y) == IF x < y THEN y - x ELSE x - y
Off(x) == Gap(x, 0)
Larger(x, y) == IF x < y THEN y ELSE x

TrackerTypeOK ==
  /\ known \in BOOLEAN /\ inApproach \in BOOLEAN
  /\ approachAge \in 0 .. MaxApproach /\ peak \in Places
  /\ total \in 0 .. MaxAttacks /\ consecutive \in 0 .. MaxAttacks
  /\ rejections \in 0 .. MaxAttacks /\ timedOut \in 0 .. MaxAttacks

Fresh ==
  /\ inApproach' = FALSE /\ approachAge' = 0 /\ peak' = peak
  /\ total' = 0 /\ consecutive' = 0 /\ rejections' = 0
  /\ timedOut' = 0

TrackerInit ==
  /\ known = FALSE /\ inApproach = FALSE /\ approachAge = 0 /\ peak \in Places
  /\ total = 0 /\ consecutive = 0 /\ rejections = 0
  /\ timedOut = 0

(* prune_old_behaviors, or a level that is no longer listed and comes back *)
Prune == /\ known /\ known' = FALSE /\ Fresh
Meet  == /\ ~known /\ known' = TRUE /\ Fresh

InZone(x) == Off(x) <= OuterZone

(* update shifts the start of an approach by a pause of more than 5 s.     *)
AgedBy(pause) == IF pause > GapAfter THEN approachAge ELSE approachAge + pause

(* _update_current_approaches                                              *)
Expires(pause) == inApproach /\ AgedBy(pause) > MaxApproach

(* _finalize_approach: bounced off the peak and out of the inner zone      *)
Confirmed(x) == Gap(x, peak) > RejectionConfirm /\ Off(x) > InnerZone

(* _finalize_approach: how much nearer to the level than the peak          *)
Pullback(x) == Larger(0, Off(peak) - Off(x))

Resets(x) == Pullback(x) > PullbackReset

(* The farthest price of an approach; the level faces the price, and none  *)
(* within two pips.                                                        *)
PeakOf(p, x) ==
  IF (x < -2 /\ x > p) \/ (x > 2 /\ x < p) THEN x ELSE p

(* A tick in the zone opens an approach unless one is open.                *)
Starts(x, open) == InZone(x) /\ ~open

(* Definitions named Slip... are not the code: each is a mistake that      *)
(* could be made in the definition after it, kept to show that a property  *)
(* would notice.                                                           *)
SlipLeaves(x, open) == ~InZone(x)

(* A tick outside the zone ends the approach that is open.                 *)
Leaves(x, open) == open /\ ~InZone(x)

(* One tick: approaches that are too old end; one that leaves the zone is  *)
(* judged; a price in the zone opens one, or goes on with it.              *)
TrackTick(x, pause) ==
  LET ends  == Expires(pause)
      open  == inApproach /\ ~ends
      leaves == Leaves(x, open)
      reset == (ends \/ leaves) /\ Resets(x)
      begins == Starts(x, open)
  IN  /\ known
      /\ begins => total < MaxAttacks
      /\ inApproach' = InZone(x)
      /\ approachAge' = IF begins \/ ~InZone(x) THEN 0 ELSE AgedBy(pause)
      /\ peak' = IF begins THEN x ELSE IF InZone(x) THEN PeakOf(peak, x) ELSE peak
      /\ total' = IF begins THEN total + 1 ELSE total
      /\ consecutive' = (IF reset THEN 0 ELSE consecutive) + (IF begins THEN 1 ELSE 0)
      /\ rejections' = IF leaves /\ Confirmed(x) THEN rejections + 1 ELSE rejections
      /\ timedOut' = IF ends THEN timedOut + 1 ELSE timedOut
      /\ UNCHANGED known

TrackerNext ==
  \/ Prune \/ Meet
  \/ \E x \in Places, pause \in Pauses : TrackTick(x, pause)

TrackerSpec == TrackerInit /\ [][TrackerNext]_trackerVars

-----------------------------------------------------------------------------
(* _get_status.  busy: more than twenty ticks in the zone; recent: the     *)
(* last attack began less than 30 s ago.  The velocity of a rejection      *)
(* outlives the approaches that come after it.                             *)
Status(busy, recent) ==
  IF inApproach THEN IF busy THEN "probing" ELSE "approaching"
  ELSE IF ~recent THEN "away"
  ELSE IF rejections > 0 THEN "rejected" ELSE "breaking"

(* _classify_attack_quality.  speed: of the last rejection, in pips a      *)
(* second; absorbs: many ticks in the zone for little progress.            *)
Quality(speed, absorbs) ==
  IF rejections >= 3 /\ speed > 5 THEN "strong_defense"
  ELSE IF consecutive >= 3 THEN IF absorbs THEN "weakening" ELSE "pressured"
  ELSE IF rejections >= 2 THEN "tested"
  ELSE IF total = 1 /\ speed > 8 THEN "rejected_sharply"
  ELSE "approached"

(* get_behavior_summary: what is told of a level that was attacked.        *)
Summary ==
  {[status |-> Status(busy, recent), quality |-> Quality(speed, absorbs)] :
     busy \in BOOLEAN, recent \in BOOLEAN, absorbs \in BOOLEAN,
     speed \in IF rejections = 0 THEN {0} ELSE {1, 6, 9}}

(* An attack has one outcome: it was rejected, or its approach was closed  *)
(* for its age, which a tick far from the level may do just before it asks *)
(* whether the price has left, or it is still open, or none of these.  So  *)
(* nothing is told of a level that its attacks do not bear out: what asks  *)
(* for several rejections, or for attacks in a row, has seen as many       *)
(* attacks, and a defence as many that are over.                           *)
AttacksAccounted ==
  LET over == total - timedOut - (IF inApproach THEN 1 ELSE 0)
  IN  /\ rejections <= over
      /\ consecutive <= total /\ (inApproach => consecutive >= 1)
      /\ \A told \in Summary :
           /\ told.quality = "strong_defense" => over >= 3
           /\ told.quality \in {"weakening", "pressured"} => total >= 3
           /\ told.quality = "tested" => over >= 2
           /\ told.status = "rejected" => over >= 1
=============================================================================
