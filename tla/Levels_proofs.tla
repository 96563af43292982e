--------------------------- MODULE Levels_proofs ----------------------------
(* Theorems about the modules of price levels: a liquidity level, the      *)
(* level that EURUSD attacks, and the levels that a day's prices touch.    *)
(* They hold for whatever prices, distances and pauses.                    *)
EXTENDS Liquidity, LevelTracker, PriceLevels, TLAPS

-----------------------------------------------------------------------------
(* Liquidity. The invariant ties the depth of a breach to the judgement: a *)
(* tick that carries the price eight pips beyond a level decides it, one   *)
(* way or the other, so that whatever type the level has on a later tick,  *)
(* a breach that is still undecided became deep on that tick itself.       *)

(* A deep breach has been judged, and has one verdict.                     *)
DeepIsJudged == depth = Deep => isSwept \/ isBroken
OneVerdict == ~(isSwept /\ isBroken)

LiquidityInv == LiquidityTypeOK /\ DeepIsJudged /\ OneVerdict

(* A price that is deep beyond a major level is on the side of the         *)
(* direction that it has just given the level.                             *)
LEMMA DeepReturns ==
  ASSUME NEW m, m, NEW x \in Int, Magnitude(x) >= Deep
  PROVE  Returns(m, x, Deep)
BY DEF Magnitude, Deep, Returns, DirectionAt

LEMMA DepthGrows ==
  ASSUME NEW x \in Int, depth \in 0 .. Deep,
         NEW d, d = IF Magnitude(x) > depth THEN AtMost(Magnitude(x), Deep) ELSE depth
  PROVE  /\ d \in 0 .. Deep
         /\ d = Deep => depth = Deep \/ Magnitude(x) >= Deep
BY DEF Magnitude, Deep, AtMost

(* A step that the property allows.                                        *)
BreakStep ==
  /\ isBroken' /\ ~isBroken => ~major'
  /\ tracked /\ tracked' /\ (isSwept \/ isBroken)
       => isSwept' = isSwept /\ isBroken' = isBroken
  /\ ~(isSwept' /\ isBroken')

(* One tick of a level.                                                    *)
LEMMA UpdateKeeps ==
  ASSUME LiquidityInv, NEW m \in BOOLEAN, NEW x \in Distances, NEW gap \in TickGaps,
         NEW reading \in Readings, Update(m, x, gap, reading)
  PROVE  LiquidityInv' /\ BreakStep
<1> DEFINE breach  == (breached /\ gap <= 5) \/ Magnitude(x) <= 10
           deepest == IF Magnitude(x) > depth THEN AtMost(Magnitude(x), Deep) ELSE depth
<1>1. x \in Int /\ gap \in Nat /\ spot \in Int
  BY LiquidityAssumption DEF LiquidityInv, LiquidityTypeOK
<1>2. deepest \in 0 .. Deep /\ (deepest = Deep => depth = Deep \/ Magnitude(x) >= Deep)
  BY <1>1, DepthGrows DEF LiquidityInv, LiquidityTypeOK
<1>3. /\ major' = m /\ tracked' = tracked /\ spot' \in Distances
      /\ breached' \in BOOLEAN /\ returned' \in BOOLEAN
  BY DEF LiquidityInv, LiquidityTypeOK, Update
<1>4. inBreach' \in 0 .. Long
  BY <1>1 DEF LiquidityInv, LiquidityTypeOK, Update, AtMost, Long
<1>5. cameFrom' \in {-1, 0, 1}
  BY DEF LiquidityInv, LiquidityTypeOK, Update, Side01
<1>6. sweepShown' \in BOOLEAN
  BY DEF Update
<1>7. CASE breach
  <2>1. depth' = deepest /\ Judge(m, x, deepest, reading)
    BY <1>7 DEF Update
  <2>2. isSwept' \in BOOLEAN /\ isBroken' \in BOOLEAN
    BY <2>1 DEF Judge, LiquidityInv, LiquidityTypeOK
  <2>3. CASE Undecided
    <3>1. isSwept' = (isSwept \/ Returns(m, x, deepest)
                        \/ (~TooDeep(deepest) /\ ScoresSweep(reading)))
      BY <2>1, <2>3 DEF Judge
    <3>2. isBroken' = (isBroken \/ (~Returns(m, x, deepest) /\ TooDeep(deepest)))
      BY <2>1, <2>3 DEF Judge
    <3>3. ~isSwept /\ ~isBroken
      BY <2>3 DEF Undecided
    <3>4. m /\ deepest = Deep => Returns(m, x, deepest)
      BY <1>1, <1>2, <3>3, DeepReturns DEF LiquidityInv, DeepIsJudged
    <3>5. DeepIsJudged' /\ OneVerdict'
      BY <2>1, <3>1, <3>2, <3>3 DEF DeepIsJudged, OneVerdict, TooDeep
    <3>6. BreakStep
      BY <1>3, <3>1, <3>2, <3>3, <3>4 DEF BreakStep, TooDeep
    <3> QED
      BY <1>2, <1>3, <1>4, <1>5, <1>6, <2>1, <2>2, <3>5, <3>6 DEF LiquidityInv, LiquidityTypeOK
  <2>4. CASE ~Undecided
    <3>1. UNCHANGED <<isSwept, isBroken>>
      BY <2>1, <2>4 DEF Judge
    <3>2. DeepIsJudged' /\ BreakStep
      BY <2>4, <3>1 DEF DeepIsJudged, BreakStep, Undecided, LiquidityInv, OneVerdict
    <3> QED
      BY <1>2, <1>3, <1>4, <1>5, <1>6, <2>1, <2>2, <3>1, <3>2 DEF LiquidityInv, LiquidityTypeOK, OneVerdict
  <2> QED
    BY <2>3, <2>4
<1>8. CASE ~breach
  <2>1. UNCHANGED <<depth, isSwept, isBroken>>
    BY <1>8 DEF Update
  <2> QED
    BY <1>3, <1>4, <1>5, <1>6, <2>1 DEF LiquidityInv, LiquidityTypeOK, DeepIsJudged, OneVerdict,
                                        BreakStep
<1> QED
  BY <1>7, <1>8

LEMMA LiquidityStepKeeps ==
  ASSUME LiquidityInv, [LiquidityNext]_liquidityVars
  PROVE  LiquidityInv' /\ (BreakStep \/ UNCHANGED liquidityVars)
<1>1. ASSUME Found \/ Pruned PROVE LiquidityInv' /\ BreakStep
  <2>1. depth' = 0 /\ inBreach' = 0 /\ cameFrom' = 0
    BY <1>1 DEF Found, Pruned, Untouched
  <2>2. depth' \in 0 .. Deep /\ depth' # Deep /\ inBreach' \in 0 .. Long /\ cameFrom' \in {-1, 0, 1}
    BY <2>1 DEF Deep, Long
  <2> QED
    BY <1>1, <2>2 DEF Found, Pruned, Untouched, LiquidityInv, LiquidityTypeOK, DeepIsJudged,
                      OneVerdict, BreakStep
<1>2. ASSUME UNCHANGED liquidityVars PROVE LiquidityInv'
  BY <1>2 DEF liquidityVars, LiquidityInv, LiquidityTypeOK, DeepIsJudged, OneVerdict
<1> QED
  BY <1>1, <1>2, UpdateKeeps DEF LiquidityNext

LEMMA LiquidityStarts == LiquidityInit => LiquidityInv
<1> SUFFICES ASSUME LiquidityInit PROVE LiquidityInv
  OBVIOUS
<1>1. depth \in 0 .. Deep /\ depth # Deep /\ inBreach \in 0 .. Long /\ cameFrom \in {-1, 0, 1}
  BY DEF LiquidityInit, Deep, Long
<1> QED
  BY <1>1 DEF LiquidityInit, LiquidityInv, LiquidityTypeOK, DeepIsJudged, OneVerdict

LEMMA LiquidityInvHolds == LiquiditySpec => []LiquidityInv
<1>1. LiquidityInv /\ [LiquidityNext]_liquidityVars => LiquidityInv'
  BY LiquidityStepKeeps
<1> QED
  BY <1>1, LiquidityStarts, PTL DEF LiquiditySpec

(* The variables of a level keep their types.                              *)
THEOREM LiquidityTypeCorrect == LiquiditySpec => []LiquidityTypeOK
<1>1. LiquidityInv => LiquidityTypeOK
  BY DEF LiquidityInv
<1> QED
  BY <1>1, LiquidityInvHolds, PTL

(* No tick breaks a level that is of a major type on it, whatever types    *)
(* the level had before, and the first of its verdicts stands, whatever    *)
(* the price does and the other engines report.                            *)
THEOREM MajorsDoNotBreak == LiquiditySpec => BreaksAreMinor
<1>1. LiquidityInv /\ [LiquidityNext]_liquidityVars => [BreakStep]_liquidityVars
  BY LiquidityStepKeeps
<1> QED
  BY <1>1, LiquidityInvHolds, PTL DEF LiquiditySpec, BreaksAreMinor, BreakStep

-----------------------------------------------------------------------------
(* LevelTracker. The one thing that the theorems ask of the limits is that *)
(* an approach starts no farther from the level than the pullback that     *)
(* would reset the count, as the defaults of 5 and 10 pips do.             *)

(* While an approach lasts its peak is in the zone, and of the approaches  *)
(* that were counted the open one was neither rejected nor closed for its  *)
(* age.                                                                    *)
PeakInZone == inApproach => Off(peak) <= OuterZone
OneOutcome == rejections + timedOut + (IF inApproach THEN 1 ELSE 0) <= total

(* The attacks bound every other count.                                    *)
NoneBeyond == rejections <= total /\ timedOut <= total

TrackerInv ==
  TrackerTypeOK /\ consecutive = total /\ PeakInZone /\ OneOutcome /\ NoneBeyond
  /\ (inApproach => total >= 1)

(* What is told of a level follows from the counts.                        *)
LEMMA Told ==
  ASSUME TrackerInv
  PROVE  AttacksAccounted
<1> DEFINE open == IF inApproach THEN 1 ELSE 0
           over == total - timedOut - open
<1>1. /\ consecutive = total /\ total \in Int /\ rejections \in Int /\ timedOut \in Int
      /\ open \in {0, 1} /\ rejections + timedOut + open <= total
  BY TrackerAssumption DEF TrackerInv, TrackerTypeOK, OneOutcome
<1>2. rejections <= over
  BY <1>1
<1>3. ASSUME NEW told \in Summary
      PROVE  /\ told.quality = "strong_defense" => rejections >= 3
             /\ told.quality \in {"weakening", "pressured"} => total >= 3
             /\ told.quality = "tested" => rejections >= 2
             /\ told.status = "rejected" => rejections > 0
  <2>1. PICK busy \in BOOLEAN, recent \in BOOLEAN, absorbs \in BOOLEAN,
             speed \in IF rejections = 0 THEN {0} ELSE {1, 6, 9} :
          told = [status |-> Status(busy, recent), quality |-> Quality(speed, absorbs)]
    BY DEF Summary
  <2> QED
    BY <1>1, <2>1 DEF Quality, Status
<1>4. ASSUME NEW told \in Summary
      PROVE  /\ told.quality = "strong_defense" => over >= 3
             /\ told.quality \in {"weakening", "pressured"} => total >= 3
             /\ told.quality = "tested" => over >= 2
             /\ told.status = "rejected" => over >= 1
  BY <1>1, <1>2, <1>3
<1>5. consecutive <= total /\ (inApproach => consecutive >= 1)
  BY <1>1 DEF TrackerInv
<1> QED
  BY <1>2, <1>4, <1>5 DEF AttacksAccounted

(* No price is nearer to the level than the peak by more than the peak is. *)
LEMMA NoReset ==
  ASSUME NEW x \in Int, peak \in Int, Off(peak) <= OuterZone
  PROVE  ~Resets(x)
BY TrackerAssumption, ZoneAssumption DEF Resets, Pullback, Larger, Off, Gap

LEMMA PeakStays ==
  ASSUME NEW p \in Int, NEW x \in Int, Off(p) <= OuterZone, InZone(x)
  PROVE  Off(PeakOf(p, x)) <= OuterZone
BY DEF PeakOf, InZone, Off, Gap

LEMMA Parts ==
  ASSUME NEW a \in Nat, NEW b \in Nat, NEW c \in Nat, NEW o \in {0, 1}, a + b + o <= c
  PROVE  a <= c /\ b <= c
OBVIOUS

(* One tick at a level.                                                    *)
LEMMA TickKeeps ==
  ASSUME TrackerInv, NEW x \in Places, NEW pause \in Pauses, TrackTick(x, pause)
  PROVE  TrackerInv'
<1> DEFINE ends   == Expires(pause)
           open   == inApproach /\ ~ends
           leaves == Leaves(x, open)
           reset  == (ends \/ leaves) /\ Resets(x)
           begins == Starts(x, open)
<1>1. /\ x \in Int /\ pause \in Nat /\ peak \in Int /\ OuterZone \in Nat
      /\ approachAge \in Nat /\ approachAge <= MaxApproach /\ MaxApproach \in Nat
      /\ total \in Nat /\ rejections \in Nat /\ timedOut \in Nat
      /\ consecutive = total
      /\ total <= MaxAttacks /\ MaxAttacks \in Nat /\ GapAfter \in Nat
  BY TrackerAssumption DEF TrackerInv, TrackerTypeOK
<1>2. ~reset
  <2>1. ends \/ leaves => inApproach
    BY DEF Expires, Leaves
  <2> QED
    BY <1>1, <2>1, NoReset DEF TrackerInv, PeakInZone
<1>3. /\ total' = IF begins THEN total + 1 ELSE total
      /\ begins => total < MaxAttacks
      /\ consecutive' = consecutive + (IF begins THEN 1 ELSE 0)
      /\ rejections' = IF leaves /\ Confirmed(x) THEN rejections + 1 ELSE rejections
      /\ timedOut' = IF ends THEN timedOut + 1 ELSE timedOut
      /\ inApproach' = InZone(x)
  BY <1>1, <1>2 DEF TrackTick
<1>4. consecutive' = total' /\ total' \in 0 .. MaxAttacks
  BY <1>1, <1>3
<1>5. OneOutcome' /\ (inApproach' => total' >= 1)
  <2>1. /\ (leaves => inApproach /\ ~ends) /\ (ends => inApproach)
        /\ (InZone(x) => ~leaves /\ (begins <=> ~(inApproach /\ ~ends)))
        /\ (~InZone(x) => ~begins)
    BY DEF Leaves, Starts, Expires
  <2> HIDE DEF leaves, ends, begins
  <2>2. rejections + timedOut + (IF inApproach THEN 1 ELSE 0) <= total
    BY DEF TrackerInv, OneOutcome
  <2>3. CASE InZone(x)
    <3>1. inApproach' /\ rejections' = rejections
      BY <1>3, <2>1, <2>3
    <3>2. rejections + timedOut' + 1 <= total' /\ total' >= 1
      <4>1. CASE begins
        BY <1>1, <1>3, <2>1, <2>2, <2>3, <4>1
      <4>2. CASE ~begins
        BY <1>1, <1>3, <2>1, <2>2, <2>3, <4>2
      <4> QED
        BY <4>1, <4>2
    <3> QED
      BY <3>1, <3>2 DEF OneOutcome
  <2>4. CASE ~InZone(x)
    <3>1. ~inApproach' /\ total' = total
      BY <1>3, <2>1, <2>4
    <3>2. rejections' + timedOut' + 0 <= total
      <4>1. CASE ends
        BY <1>1, <1>3, <2>1, <2>2, <4>1
      <4>2. CASE ~ends
        BY <1>1, <1>3, <2>1, <2>2, <4>2
      <4> QED
        BY <4>1, <4>2
    <3>3. (IF inApproach' THEN 1 ELSE 0) = 0
      BY <3>1
    <3> QED
      BY <3>1, <3>2, <3>3, Zenon DEF OneOutcome
  <2> QED
    BY <2>3, <2>4
<1>6. PeakInZone' /\ peak' \in Places
  <2>1. peak' = IF begins THEN x ELSE IF InZone(x) THEN PeakOf(peak, x) ELSE peak
    BY DEF TrackTick
  <2>2. peak' \in Places
    BY <2>1 DEF PeakOf, TrackerInv, TrackerTypeOK
  <2>3. CASE InZone(x) /\ begins
    BY <2>1, <2>3 DEF PeakInZone, InZone
  <2>4. CASE InZone(x) /\ ~begins
    <3>1. inApproach
      BY <2>4 DEF Starts
    <3>2. Off(PeakOf(peak, x)) <= OuterZone
      BY <1>1, <2>4, <3>1, PeakStays DEF PeakInZone, TrackerInv
    <3>3. peak' = PeakOf(peak, x)
      BY <2>1, <2>4
    <3> QED
      BY <2>2, <3>2, <3>3 DEF PeakInZone, Off, Gap
  <2>5. CASE ~InZone(x)
    <3>1. ~inApproach'
      BY <1>3, <2>5
    <3> QED
      BY <2>2, <3>1 DEF PeakInZone
  <2> QED
    BY <2>2, <2>3, <2>4, <2>5
<1>7. approachAge' \in 0 .. MaxApproach
  <2>1. approachAge' = IF begins \/ ~InZone(x) THEN 0 ELSE AgedBy(pause)
    BY DEF TrackTick
  <2>2. AgedBy(pause) \in Nat
    BY <1>1 DEF AgedBy
  <2>3. ASSUME InZone(x), ~begins PROVE AgedBy(pause) <= MaxApproach
    BY <1>1, <2>2, <2>3 DEF Starts, Expires
  <2> QED
    BY <1>1, <2>1, <2>2, <2>3
<1>8. NoneBeyond' /\ rejections' \in Nat /\ timedOut' \in Nat
  <2>1. rejections' \in Nat /\ timedOut' \in Nat /\ total' \in Nat
    BY <1>1, <1>3
  <2>2. rejections' <= total' /\ timedOut' <= total'
    <3>1. PICK o \in {0, 1} : o = IF inApproach' THEN 1 ELSE 0
      OBVIOUS
    <3>2. rejections' + timedOut' + o <= total'
      BY <1>5, <3>1 DEF OneOutcome
    <3> QED
      BY <2>1, <3>2, Parts
  <2> QED
    BY <2>1, <2>2 DEF NoneBeyond
<1>9. known' \in BOOLEAN /\ inApproach' \in BOOLEAN
  BY <1>3 DEF TrackTick, InZone, TrackerInv, TrackerTypeOK
<1>10. /\ consecutive' \in 0 .. MaxAttacks /\ rejections' \in 0 .. MaxAttacks
       /\ timedOut' \in 0 .. MaxAttacks
  BY <1>1, <1>4, <1>8 DEF NoneBeyond
<1> QED
  BY <1>4, <1>5, <1>6, <1>7, <1>8, <1>9, <1>10 DEF TrackerInv, TrackerTypeOK

LEMMA FreshKeeps ==
  ASSUME TrackerInv, Fresh, known' \in BOOLEAN
  PROVE  TrackerInv'
<1>1. /\ total' = 0 /\ rejections' = 0 /\ consecutive' = 0 /\ approachAge' = 0
      /\ timedOut' = 0 /\ ~inApproach'
  BY DEF Fresh
<1>2. 0 \in 0 .. MaxApproach /\ 0 \in 0 .. MaxAttacks
  BY TrackerAssumption
<1>3. OneOutcome' /\ NoneBeyond'
  BY <1>1 DEF OneOutcome, NoneBeyond
<1> QED
  BY <1>1, <1>2, <1>3 DEF Fresh, TrackerInv, TrackerTypeOK, PeakInZone

LEMMA TrackerInvHolds == TrackerSpec => []TrackerInv
<1>1. ASSUME TrackerInit PROVE TrackerInv
  <2>1. 0 \in 0 .. MaxApproach /\ 0 \in 0 .. MaxAttacks
    BY TrackerAssumption
  <2>2. OneOutcome /\ NoneBeyond
    BY <1>1 DEF TrackerInit, OneOutcome, NoneBeyond
  <2> QED
    BY <1>1, <2>1, <2>2 DEF TrackerInit, TrackerInv, TrackerTypeOK, PeakInZone
<1>2. TrackerInv /\ [TrackerNext]_trackerVars => TrackerInv'
  <2> SUFFICES ASSUME TrackerInv, [TrackerNext]_trackerVars PROVE TrackerInv'
    OBVIOUS
  <2>1. ASSUME Prune \/ Meet PROVE TrackerInv'
    BY <2>1, FreshKeeps DEF Prune, Meet
  <2>2. ASSUME UNCHANGED trackerVars PROVE TrackerInv'
    BY <2>2 DEF trackerVars, TrackerInv, TrackerTypeOK, PeakInZone, OneOutcome, NoneBeyond
  <2> QED
    BY <2>1, <2>2, TickKeeps DEF TrackerNext
<1> QED
  BY <1>1, <1>2, PTL DEF TrackerSpec

(* The tracker's variables keep their types.                               *)
THEOREM TrackerTypeCorrect == TrackerSpec => []TrackerTypeOK
<1>1. TrackerInv => TrackerTypeOK
  BY DEF TrackerInv
<1> QED
  BY <1>1, TrackerInvHolds, PTL

(* An attack has one outcome, and nothing is told of a level that its      *)
(* attacks do not bear out, for any zones, places and pauses.              *)
THEOREM AttacksAreAccounted == TrackerSpec => []AttacksAccounted
  BY Told, TrackerInvHolds, PTL

(* "If pullback was large enough, reset consecutive attacks": it never is. *)
(* The pullback is counted from the peak of the approach towards the       *)
(* level, and the peak lies in the outer zone, which is no wider than a    *)
(* full pullback: so the attacks that are called consecutive "without full *)
(* pullback" are all those of the level's life.                            *)
THEOREM CountIsTotal == TrackerSpec => [](consecutive = total)
<1>1. TrackerInv => consecutive = total
  BY DEF TrackerInv
<1> QED
  BY <1>1, TrackerInvHolds, PTL

-----------------------------------------------------------------------------
(* PriceLevels. The invariant says of any two levels that they have        *)
(* counted no visit in common, which is why a touch cannot be counted      *)
(* twice.                                                                  *)

(* A visit that is still to be counted: the price is there, or was and has *)
(* not turned away by five pips since.                                     *)
OpenVisit == IF pendingTouch \/ Near(mid) THEN 1 ELSE 0

(* Any two levels at the price have counted no visit in common, and none   *)
(* has counted the one that is open.                                       *)
VisitsShared ==
  /\ \A i \in Levels : touches[i] + OpenVisit <= visits
  /\ \A i \in Levels : \A j \in Levels \ {i} : touches[i] + touches[j] + OpenVisit <= visits

LevelsInv == LevelsTypeOK /\ VisitsShared

LEMMA FacesSomeWay == \A x \in Int : Faces(x) \in Facing
BY DEF Faces, Facing

LEMMA LevelsInitHolds == LevelsInit => LevelsInv
<1> SUFFICES ASSUME LevelsInit PROVE LevelsInv
  OBVIOUS
<1>1. /\ visits \in 0 .. MaxVisits /\ OpenVisit = visits
  BY ReachAssumption DEF LevelsInit, OpenVisit
<1>2. mid \in Int /\ Faces(mid) \in Facing
  BY ReachAssumption, FacesSomeWay DEF LevelsInit
<1>3. /\ listed \subseteq Levels /\ facing \in [Levels -> Facing] /\ touches \in [Levels -> Nat]
      /\ \A i \in Levels : touches[i] = 0
  BY <1>2 DEF LevelsInit, OfKind
<1>4. LevelsTypeOK
  BY <1>1, <1>3 DEF LevelsInit, LevelsTypeOK
<1>5. VisitsShared
  BY <1>1, <1>3, ReachAssumption DEF VisitsShared
<1> QED
  BY <1>4, <1>5 DEF LevelsInv

(* Touches that are not counted up keep a visit to every two levels.       *)
LEMMA FewerTouches ==
  ASSUME LevelsInv, touches' \in [Levels -> Nat],
         \A i \in Levels : touches'[i] <= touches[i],
         visits' \in Nat, visits + OpenVisit' <= visits' + OpenVisit
  PROVE  VisitsShared'
<1>1. /\ \A i \in Levels : touches[i] \in Nat /\ touches'[i] \in Nat
      /\ visits \in Nat
  BY ReachAssumption DEF LevelsInv, LevelsTypeOK
<1>2. PICK o \in Nat, p \in Nat : OpenVisit = o /\ OpenVisit' = p
  BY DEF OpenVisit
<1>3. visits + p <= visits' + o
  BY <1>2
<1> DEFINE Fewer(x, y, v, w) == v + p <= w + o /\ y <= x /\ x + o <= v => y + p <= w
<1>0. \A x, y, v, w \in Nat : Fewer(x, y, v, w)
  OBVIOUS
<1>4. ASSUME NEW i \in Levels PROVE touches'[i] + p <= visits'
  <2>1. touches[i] + o <= visits
    BY <1>2 DEF LevelsInv, VisitsShared
  <2>2. /\ touches'[i] <= touches[i] /\ touches[i] \in Nat /\ touches'[i] \in Nat
        /\ visits \in Nat /\ visits' \in Nat
    BY <1>1
  <2>3. Fewer(touches[i], touches'[i], visits, visits')
    BY <1>0, <2>2
  <2> QED
    BY <1>3, <2>1, <2>2, <2>3
<1>5. ASSUME NEW i \in Levels, NEW j \in Levels \ {i}
      PROVE  touches'[i] + touches'[j] + p <= visits'
  <2>1. touches[i] + touches[j] + o <= visits
    BY <1>2 DEF LevelsInv, VisitsShared
  <2>2. /\ touches'[i] + touches'[j] <= touches[i] + touches[j]
        /\ touches[i] + touches[j] \in Nat /\ touches'[i] + touches'[j] \in Nat
        /\ visits \in Nat /\ visits' \in Nat
    BY <1>1
  <2>3. Fewer(touches[i] + touches[j], touches'[i] + touches'[j], visits, visits')
    BY <1>0, <2>2
  <2> QED
    BY <1>3, <2>1, <2>2, <2>3
<1> QED
  BY <1>2, <1>4, <1>5 DEF VisitsShared

(* One level at most counts the visit, which is closed by that.            *)
LEMMA OneMoreTouch ==
  ASSUME LevelsInv, touches' \in [Levels -> Nat], NEW c \in Levels,
         \A i \in Levels : touches'[i] <= touches[i] + (IF i = c THEN 1 ELSE 0),
         OpenVisit = 1, OpenVisit' = 0, visits' = visits
  PROVE  VisitsShared'
<1>1. /\ \A i \in Levels : touches[i] \in Nat /\ touches'[i] \in Nat
      /\ visits \in Nat
  BY ReachAssumption DEF LevelsInv, LevelsTypeOK
<1>2. ASSUME NEW i \in Levels PROVE touches'[i] + OpenVisit' <= visits'
  BY <1>1 DEF LevelsInv, VisitsShared
<1>3. ASSUME NEW i \in Levels, NEW j \in Levels \ {i}
      PROVE  touches'[i] + touches'[j] + OpenVisit' <= visits'
  <2>1. touches[i] + touches[j] + 1 <= visits
    BY DEF LevelsInv, VisitsShared
  <2> QED
    BY <1>1, <2>1
<1> QED
  BY <1>2, <1>3 DEF VisitsShared

LEMMA LevelTickKeeps ==
  ASSUME LevelsInv, NEW x \in Reach, NEW newDay \in BOOLEAN, LevelTick(x, newDay)
  PROVE  LevelsInv'
<1> DEFINE high    == IF newDay \/ x > sessionHigh THEN x ELSE sessionHigh
           highs   == IF high = 0 THEN OfKind("high") ELSE {}
           there   == (listed \ OfKind("high")) \cup highs
           face    == [i \in Levels |-> IF Kind[i] = "high" THEN "resistance" ELSE facing[i]]
           counts  == {i \in there : pendingTouch /\ Confirms(i, face, x)}
           counted == {i \in counts : \A j \in counts : i <= j}
<1>1. /\ ~Near(x) \/ Near(mid) \/ visits < MaxVisits
      /\ mid' = x /\ barClose' = mid /\ sessionHigh' = high /\ listed' = there
      /\ touches' = [i \in Levels |->
                       IF i \in counted THEN touches[i] + 1
                       ELSE IF Kind[i] = "high" THEN 0 ELSE touches[i]]
      /\ pendingTouch' = IF there = {} THEN pendingTouch ELSE StillPending(x, counted)
      /\ facing' = [i \in Levels |-> IF i \in there THEN Faces(x) ELSE face[i]]
      /\ visits' = IF Near(x) /\ ~Near(mid) THEN visits + 1 ELSE visits
  BY DEF LevelTick
<1>2. x \in Int /\ mid \in Int /\ visits \in Nat /\ MaxVisits \in Nat /\ Levels \subseteq Nat
      /\ pendingTouch \in BOOLEAN /\ there \subseteq Levels /\ counted \subseteq there
      /\ \A i \in Levels : touches[i] \in Nat
  BY ReachAssumption, KindAssumption DEF LevelsInv, LevelsTypeOK, OfKind, Levels
<1>3. face \in [Levels -> Facing]
  BY DEF LevelsInv, LevelsTypeOK, Facing
<1> HIDE DEF there, face
<1>4. visits' \in 0 .. MaxVisits
  BY <1>1, <1>2 DEF LevelsInv, LevelsTypeOK
<1>5. touches' \in [Levels -> Nat] /\ facing' \in [Levels -> Facing] /\ pendingTouch' \in BOOLEAN
  <2>1. touches' \in [Levels -> Nat]
    <3> HIDE DEF counted
    <3> QED
      BY <1>1, <1>2
  <2>2. facing' \in [Levels -> Facing]
    BY <1>1, <1>2, <1>3, FacesSomeWay
  <2> QED
    BY <1>1, <1>2, <2>1, <2>2 DEF StillPending
<1>6. LevelsTypeOK'
  BY <1>1, <1>2, <1>4, <1>5 DEF LevelsInv, LevelsTypeOK
<1>7. VisitsShared'
  <2>1. CASE counted = {}
    <3>1. \A i \in Levels : touches'[i] <= touches[i]
      BY <1>1, <1>2, <2>1
    <3>2. pendingTouch' => pendingTouch \/ Near(x)
      BY <1>1 DEF StillPending
    <3>3. visits + OpenVisit' <= visits' + OpenVisit
      BY <1>1, <1>2, <3>2 DEF OpenVisit
    <3> QED
      BY <1>4, <1>5, <3>1, <3>3, FewerTouches, ReachAssumption
  <2>2. CASE counted # {}
    <3>1. PICK c \in counted : TRUE
      BY <2>2
    <3>2. c \in Levels /\ pendingTouch /\ Confirms(c, face, x) /\ there # {}
      BY <1>2, <3>1
    <3>3. ~Near(x)
      BY <1>2, <3>2 DEF Confirms, Near
    <3>4. ASSUME NEW i \in counted PROVE i = c
      <4>1. i <= c /\ c <= i /\ i \in Nat /\ c \in Nat
        BY <1>2, <3>1, <3>4
      <4> QED
        BY <4>1
    <3>5. \A i \in Levels : touches'[i] <= touches[i] + (IF i = c THEN 1 ELSE 0)
      <4> HIDE DEF counted
      <4> QED
        BY <1>1, <1>2, <3>4
    <3>6. pendingTouch' = FALSE
      BY <1>1, <2>2, <3>2, <3>3 DEF StillPending
    <3>7. OpenVisit = 1 /\ OpenVisit' = 0 /\ visits' = visits
      BY <1>1, <3>2, <3>3, <3>6 DEF OpenVisit
    <3> QED
      BY <1>5, <3>2, <3>5, <3>7, OneMoreTouch
  <2> QED
    BY <2>1, <2>2
<1> QED
  BY <1>6, <1>7 DEF LevelsInv

(* What a closed bar does to the levels counts no touch.                   *)
LEMMA BarsKeepLevels ==
  ASSUME LevelsInv, UNCHANGED <<pendingTouch, mid, barClose, sessionHigh, visits>>,
         listed' \subseteq Levels,
         \/ UNCHANGED <<facing, touches>>
         \/ \E found \in SUBSET Levels, fs \in Facing : Renewed(found, fs)
  PROVE  LevelsInv'
<1>1. /\ touches' \in [Levels -> Nat] /\ facing' \in [Levels -> Facing]
      /\ \A i \in Levels : touches'[i] <= touches[i]
  <2>1. CASE UNCHANGED <<facing, touches>>
    BY <2>1 DEF LevelsInv, LevelsTypeOK
  <2>2. ASSUME NEW found \in SUBSET Levels, NEW fs \in Facing, Renewed(found, fs)
        PROVE  /\ touches' \in [Levels -> Nat] /\ facing' \in [Levels -> Facing]
               /\ \A i \in Levels : touches'[i] <= touches[i]
    BY <2>2 DEF Renewed, LevelsInv, LevelsTypeOK
  <2> QED
    BY <2>1, <2>2
<1>2. LevelsTypeOK'
  BY <1>1 DEF LevelsInv, LevelsTypeOK
<1>3. visits' \in Nat /\ OpenVisit' = OpenVisit /\ OpenVisit \in {0, 1} /\ visits \in Nat
  BY ReachAssumption DEF LevelsInv, LevelsTypeOK, OpenVisit
<1>4. VisitsShared'
  BY <1>1, <1>3, FewerTouches
<1> QED
  BY <1>2, <1>4 DEF LevelsInv

LEMMA LevelsInvHolds == LevelsSpec => []LevelsInv
<1>1. LevelsInv /\ [LevelsNext]_levelVars => LevelsInv'
  <2> SUFFICES ASSUME LevelsInv, [LevelsNext]_levelVars PROVE LevelsInv'
    OBVIOUS
  <2>0. listed \subseteq Levels /\ barClose \in Int
    BY ReachAssumption DEF LevelsInv, LevelsTypeOK
  <2>1. CASE QuarterClose
    <3>1. PICK found \in {{}, OfKind("swing")} :
            /\ listed' = (listed \ OfKind("swing")) \cup found
            /\ Renewed(found, IF barClose < 0 THEN "resistance" ELSE "support")
            /\ UNCHANGED <<pendingTouch, mid, barClose, sessionHigh, visits>>
      BY <2>1 DEF QuarterClose
    <3>2. found \in SUBSET Levels
      BY DEF OfKind
    <3>3. (IF barClose < 0 THEN "resistance" ELSE "support") \in Facing
      BY DEF Facing
    <3> QED
      BY <2>0, <3>1, <3>2, <3>3, BarsKeepLevels
  <2>2. CASE HourClose
    <3>1. ASSUME NEW found \in SUBSET (OfKind("daily") \cup OfKind("h4")), Relist(found)
          PROVE  LevelsInv'
      <4>1. found \in SUBSET Levels /\ Faces(barClose) \in Facing
        BY <2>0, FacesSomeWay DEF OfKind
      <4> QED
        BY <2>2, <3>1, <4>1, BarsKeepLevels DEF HourClose, Relist
    <3>2. CASE /\ \E old \in SUBSET listed : listed' = {i \in listed : ~Invalid(i, "H1", old)}
               /\ UNCHANGED <<facing, touches>>
      BY <2>0, <2>2, <3>2, BarsKeepLevels DEF HourClose
    <3> QED
      BY <2>2, <3>1, <3>2 DEF HourClose
  <2>3. CASE FourHourClose
    BY <2>0, <2>3, BarsKeepLevels DEF FourHourClose
  <2>4. CASE UNCHANGED levelVars
    BY <2>0, <2>4, BarsKeepLevels DEF levelVars
  <2> QED
    BY <2>1, <2>2, <2>3, <2>4, LevelTickKeeps DEF LevelsNext
<1> QED
  BY <1>1, LevelsInitHolds, PTL DEF LevelsSpec

(* The variables of the levels keep their types, for any kinds and places  *)
(* of levels.                                                              *)
THEOREM LevelsTypeCorrect == LevelsSpec => []LevelsTypeOK
<1>1. LevelsInv => LevelsTypeOK
  BY DEF LevelsInv
<1> QED
  BY <1>1, LevelsInvHolds, PTL

(* Levels cannot gain touches without visits of the price, however many    *)
(* levels lie in one place, and no two of them share one.                  *)
THEOREM TouchesAreEarned == LevelsSpec => []TouchesAreVisits
<1>1. LevelsInv => TouchesAreVisits
  <2> SUFFICES ASSUME LevelsInv PROVE TouchesAreVisits
    OBVIOUS
  <2>1. /\ \A i \in Levels : touches[i] \in Nat
        /\ visits \in Nat /\ OpenVisit \in {0, 1}
    BY ReachAssumption DEF LevelsInv, LevelsTypeOK, OpenVisit
  <2>2. ASSUME NEW i \in Levels, NEW j \in Levels \ {i}
        PROVE  touches[i] + touches[j] <= visits
    <3>1. touches[i] + touches[j] + OpenVisit <= visits
      BY DEF LevelsInv, VisitsShared
    <3> QED
      BY <2>1, <3>1
  <2> QED
    BY <2>1, <2>2 DEF TouchesAreVisits, LevelsInv, VisitsShared
<1> QED
  BY <1>1, LevelsInvHolds, PTL
=============================================================================
