---------------------------- MODULE Trade_proofs ----------------------------
(* Theorems about what stands around a trade: the risk guard, the orders'  *)
(* stops, the watch over an open trade, and the entry machine.             *)
EXTENDS RiskGuard, OrderStops, TradeWatch, EntryMachine, TLAPS

-----------------------------------------------------------------------------
(* RiskGuard, for every set of equities, every threshold and every number  *)
(* of days and restarts.                                                   *)

USE EquityAssumption, BoundAssumption, ModeAssumption

-----------------------------------------------------------------------------
(* Type correctness.                                                       *)

LEMMA GuardInitTypeOK == GuardInit => GuardTypeOK
  BY DEF GuardInit, GuardTypeOK, Day, DailyPnl, NoFile, Unseeded

LEMMA GuardTypeStep == GuardTypeOK /\ [GuardNext]_guardVars => GuardTypeOK'
<1> SUFFICES ASSUME GuardTypeOK, [GuardNext]_guardVars PROVE GuardTypeOK'
  OBVIOUS
<1> USE DEF GuardTypeOK
<1>1. CASE Consult
  <2>1. CASE Look /\ Bridge /\ UNCHANGED <<pnl, file, current>>
    BY <1>1, <2>1 DEF Consult, Look
  <2>2. CASE Look /\ UpdateEquity
    <3>1. current' \in Equity \cup {0} /\ read' \in Equity \cup {0}
      BY <2>2 DEF Look, UpdateEquity
    <3>2. opening' \in [Day -> Equity \cup {0}]
      BY <2>2 DEF Look
    <3>3. pnl' \in DailyPnl
      BY <2>2 DEF UpdateEquity, Seed, DailyPnl
    <3>4. file' \in {pnl', file}
      BY <2>2 DEF UpdateEquity
    <3> QED
      BY <1>1, <3>1, <3>2, <3>3, <3>4 DEF Consult
  <2>3. CASE UNCHANGED <<opening, read, pnl, file, current>>
    BY <1>1, <2>3 DEF Consult
  <2> QED
    BY <1>1, <2>1, <2>2, <2>3 DEF Consult
<1>2. CASE Check
  BY <1>2 DEF Check
<1>3. CASE Sent
  BY <1>3 DEF Sent
<1>4. CASE Midnight
  BY <1>4 DEF Midnight, Day
<1>5. CASE Restart
  BY <1>5 DEF Restart, Loaded, Unseeded, DailyPnl, NoFile, Day
<1>6. ASSUME NEW e \in Equity, MarketMoves(e) PROVE GuardTypeOK'
  BY <1>6 DEF MarketMoves
<1>7. CASE UNCHANGED guardVars
  BY <1>7 DEF guardVars
<1> QED
  BY <1>1, <1>2, <1>3, <1>4, <1>5, <1>6, <1>7 DEF GuardNext

(* Type correctness of the breaker's memory and of its file, failures and  *)
(* restarts included.                                                      *)
THEOREM GuardTypeCorrect == GuardSpec => []GuardTypeOK
<1> QED
  BY GuardInitTypeOK, GuardTypeStep, PTL DEF GuardSpec

-----------------------------------------------------------------------------
(* The opening equity and the orders measured against it.                  *)

(* Memory and file hold today's opening equity from the moment the process *)
(* has looked at the account, and nothing holds a later day.               *)
BookInv ==
  /\ GuardTypeOK
  /\ \A d \in Day : d > today => opening[d] = 0
  /\ pnl.date <= today /\ file.date <= today
  /\ opening[today] # 0 => /\ file = [date |-> today, start |-> opening[today]]
                           /\ pnl = file
  /\ opening[today] = 0 => /\ pnl.date = today => pnl.start = 0
                           /\ file.date # today
  /\ current = read
  /\ OrderWithinDrawdown

LEMMA InitBook == GuardInit => BookInv
<1> SUFFICES ASSUME GuardInit PROVE BookInv
  OBVIOUS
<1> QED
  BY GuardInitTypeOK DEF GuardInit, BookInv, OrderWithinDrawdown, Unseeded, NoFile, Day

LEMMA LookStep ==
  ASSUME BookInv, pc = "idle", Look, UpdateEquity, ~SaveFails,
         UNCHANGED <<today, equity, restarts>>, pc' = "check", GuardTypeOK'
  PROVE  BookInv'
<1> USE DEF BookInv, GuardTypeOK
<1>1. current' = read' /\ OrderWithinDrawdown'
  BY DEF Look, UpdateEquity, OrderWithinDrawdown
<1>2. equity # 0 /\ opening'[today] # 0 /\ \A d \in Day : d > today => opening'[d] = 0
  BY DEF Look, Day
<1>3. CASE opening[today] = 0
  <2>1. pnl' = [date |-> today, start |-> equity] /\ file' = pnl'
    BY <1>3 DEF UpdateEquity, SeedsAnew, Seed
  <2>2. opening'[today] = equity
    BY <1>3 DEF Look
  <2> QED
    BY <1>1, <1>2, <2>1, <2>2 DEF Day
<1>4. CASE opening[today] # 0
  <2>1. UNCHANGED <<pnl, file>>
    BY <1>4 DEF UpdateEquity, SeedsAnew
  <2> QED
    BY <1>1, <1>2, <1>4, <2>1 DEF Look
<1> QED
  BY <1>3, <1>4

LEMMA BookStep ==
  ASSUME ~Bridge, ~SaveFails PROVE BookInv /\ [GuardNext]_guardVars => BookInv'
<1> SUFFICES ASSUME BookInv, [GuardNext]_guardVars PROVE BookInv'
  OBVIOUS
<1>0. GuardTypeOK'
  BY GuardTypeStep DEF BookInv
<1> USE DEF BookInv
<1>1. CASE Consult
  <2>1. CASE Look /\ UpdateEquity
    BY <1>0, <1>1, <2>1, LookStep DEF Consult
  <2>2. CASE UNCHANGED <<opening, read, pnl, file, current>>
    BY <1>0, <1>1, <2>2 DEF Consult, OrderWithinDrawdown
  <2> QED
    BY <1>1, <2>1, <2>2 DEF Consult
<1>2. CASE Check
  <2>1. OrderWithinDrawdown'
    BY <1>2 DEF Check, Tripped, Halted, OrderWithinDrawdown
  <2> QED
    BY <1>0, <1>2, <2>1 DEF Check
<1>3. CASE Sent
  BY <1>0, <1>3 DEF Sent, OrderWithinDrawdown
<1>4. CASE Midnight
  <2>1. today' \in Day /\ today' > today /\ opening'[today'] = 0
    BY <1>4 DEF Midnight, GuardTypeOK, Day
  <2>2. /\ \A d \in Day : d > today' => opening'[d] = 0
        /\ pnl'.date < today' /\ file'.date < today'
    BY <1>4, <2>1 DEF Midnight, GuardTypeOK, Day, DailyPnl, NoFile
  <2>3. pnl'.date # today' /\ file'.date # today'
    BY <2>1, <2>2, <1>4 DEF Midnight, GuardTypeOK, Day, DailyPnl, NoFile
  <2> QED
    BY <1>0, <1>4, <2>1, <2>2, <2>3
    DEF Midnight, OrderWithinDrawdown, GuardTypeOK, Day, DailyPnl, NoFile
<1>5. CASE Restart
  <2>1. OrderWithinDrawdown' /\ current' = read'
    BY <1>5 DEF Restart, OrderWithinDrawdown
  <2>2. CASE opening[today] # 0
    BY <1>0, <1>5, <2>1, <2>2 DEF Restart, Loaded
  <2>3. CASE opening[today] = 0
    <3>1. pnl' = Unseeded(today)
      BY <1>5, <2>3 DEF Restart, Loaded
    <3> QED
      BY <1>0, <1>5, <2>1, <2>3, <3>1 DEF Restart, Unseeded, GuardTypeOK, Day
  <2> QED
    BY <2>2, <2>3
<1>6. ASSUME NEW e \in Equity, MarketMoves(e) PROVE BookInv'
  BY <1>0, <1>6 DEF MarketMoves, OrderWithinDrawdown
<1>7. CASE UNCHANGED guardVars
  BY <1>0, <1>7 DEF guardVars, OrderWithinDrawdown
<1> QED
  BY <1>1, <1>2, <1>3, <1>4, <1>5, <1>6, <1>7 DEF GuardNext

(* In direct mode and with a writable file, an order goes out only if the  *)
(* equity last seen is within the limits of the day's opening equity,      *)
(* whatever readings fail and however often the process restarts.          *)
THEOREM OrdersWithinDrawdown ==
  ASSUME ~Bridge, ~SaveFails PROVE GuardSpec => []OrderWithinDrawdown
<1>1. BookInv => OrderWithinDrawdown
  BY DEF BookInv
<1> QED
  BY <1>1, InitBook, BookStep, PTL DEF GuardSpec

(* Under the same assumptions the day's opening equity is never replaced.  *)
THEOREM OpeningIsKept ==
  ASSUME ~Bridge, ~SaveFails PROVE GuardSpec => []OpeningKept
<1>1. BookInv => OpeningKept
  BY DEF BookInv, OpeningKept
<1> QED
  BY <1>1, InitBook, BookStep, PTL DEF GuardSpec

-----------------------------------------------------------------------------
(* OrderStops. The invariant holds what was asked of the terminal, and     *)
(* what was gained since, against the stop that was recorded, until        *)
(* somebody meddles.                                                       *)

(* A stop that is behind the opening is no nearer than the nearest one.    *)
NoNearer(sl) ==
  sl # 0 /\ Gained(held.side, held.open, sl) > 0
    => nearest # Nothing /\ nearest <= Gained(held.side, held.open, sl)

(* What was lost at a stop that was set by size.                           *)
Affordable(position, budget) ==
  \/ position.lot = 1
  \/ \E worse \in Slippage :
       LET risk == Gained(position.side, position.open, position.sl) - worse
       IN  2 * position.lot * risk <= 200 * budget + risk

StopsRecorded ==
  /\ held # Nothing => NoNearer(held.sl)
  /\ initial # Nothing => held # Nothing /\ initial \in Int /\ NoNearer(initial)

RiskAllowed ==
  allowed # Nothing =>
    /\ held # Nothing /\ sizing = "dynamic" /\ allowed \in Nat
    /\ Affordable(held, allowed)

MovesEarned ==
  asked # Nothing =>
    /\ held # Nothing /\ sizing = "dry_run"
    /\ asked.sl = Breakeven /\ asked.tp \in Int
    /\ nearest \in Int /\ asked.gain \in Int /\ asked.gain >= nearest
    /\ ~meddled => /\ held.sl = 0 \/ Gained(held.side, Breakeven, held.sl) > 0
                   /\ asked.tp = held.tp

StopsKind ==
  /\ quoted \in Nat /\ width \in Nat /\ sizing \in {"dry_run", "default", "dynamic"}
  /\ held \in Position \cup {Nothing} /\ nearest \in Int \cup {Nothing}

StopsInv == StopsKind /\ StopsRecorded /\ RiskAllowed /\ MovesEarned

(* What StopsGuard says of a step.                                         *)
OpensSafely == held = Nothing /\ held' # Nothing => ~Passed(held', quoted, width)
MovesSafely ==
  asked # Nothing /\ asked' = Nothing /\ held' \notin {Nothing, held} =>
    /\ asked.gain >= nearest
    /\ ~meddled => /\ held.sl = 0 \/ Gained(held.side, held'.sl, held.sl) > 0
                   /\ held'.tp = held.tp

LEMMA StopsInitHolds == StopsInit => StopsInv
BY StopsAssumption DEF StopsInit, StopsInv, StopsKind, StopsRecorded, RiskAllowed, MovesEarned

LEMMA Offsets ==
  ASSUME NEW side \in Sides, NEW base \in Int, NEW distance \in Int
  PROVE  /\ Offset(side, base, distance) \in Int
         /\ Gained(side, base, Offset(side, base, -distance)) = distance
         /\ Gained(side, base, Offset(side, base, distance)) = -distance
BY DEF Offset, Gained

LEMMA GainsAreInt ==
  ASSUME NEW side \in Sides, NEW x \in Int, NEW y \in Int
  PROVE  Gained(side, x, y) \in Int
BY DEF Gained

(* The distances of an order are positive.                                 *)
LEMMA StopDistances ==
  ASSUME NEW atr \in HourlyRange
  PROVE  /\ StopDistance(atr) \in Nat \ {0}
         /\ TargetDistance(atr) \in Nat \ {0}
<1>1. UsualRange(atr) \in Nat \ {0}
  BY StopsAssumption DEF UsualRange
<1>2. UsualRange(atr) * TargetTimes \in Nat
  BY <1>1, StopsAssumption
<1>3. MinStop \in Nat \ {0}
  BY StopsAssumption
<1>4. StopDistance(atr) \in Nat \ {0}
  BY <1>1, <1>3 DEF StopDistance, Longer
<1>5. TargetDistance(atr) \in Nat \ {0}
  <2> DEFINE product == UsualRange(atr) * TargetTimes
  <2>1. product \in Nat
    BY <1>2
  <2>2. TargetDistance(atr) = Longer(product, 2 * MinStop)
    BY DEF TargetDistance
  <2> HIDE DEF product
  <2> QED
    BY <2>1, <2>2, <1>3 DEF Longer
<1> QED
  BY <1>4, <1>5

(* The size of an order: the smallest, or within the budget at its stop.   *)
LEMMA Sizes ==
  ASSUME NEW budget \in Nat, NEW distance \in Nat \ {0}
  PROVE  /\ Lot(budget, distance) \in Int
         /\ \/ Lot(budget, distance) = 1
            \/ 2 * Lot(budget, distance) * distance <= 200 * budget + distance
<1> DEFINE most == (200 * budget + distance) \div (2 * distance)
           lot  == Lot(budget, distance)
<1>1. most \in Int /\ (2 * distance) * most <= 200 * budget + distance
  OBVIOUS
<1>2. lot = Lesser(Longer(most, 1), MaxLot)
  BY DEF Lot
<1>3. MaxLot \in Nat \ {0}
  BY StopsAssumption
<1> HIDE DEF most, lot
<1>4. lot \in Int /\ lot >= 1 /\ (lot = 1 \/ lot <= most)
  BY <1>1, <1>2, <1>3 DEF Lesser, Longer
<1>5. ASSUME lot <= most PROVE 2 * lot * distance <= 200 * budget + distance
  <2>1. (2 * distance) * lot <= (2 * distance) * most
    BY <1>1, <1>4, <1>5
  <2>2. (2 * distance) * lot = 2 * lot * distance
    BY <1>4
  <2>3. (2 * distance) * lot \in Int /\ (2 * distance) * most \in Int
    BY <1>1, <1>4
  <2> QED
    BY <1>1, <2>1, <2>2, <2>3
<1> QED
  BY <1>4, <1>5 DEF lot

-----------------------------------------------------------------------------
(* The steps of OrderStops.                                                *)
LEMMA OrderKeeps ==
  ASSUME StopsInv, NEW side \in Sides, NEW atr \in HourlyRange, NEW budget \in Budget,
         NEW worse \in Slippage, NEW told \in BOOLEAN, Order(side, atr, budget, worse, told)
  PROVE  StopsInv' /\ OpensSafely /\ MovesSafely
<1> DEFINE distance == StopDistance(atr)
           target   == TargetDistance(atr)
           price    == OpensAt(side)
           sl       == Offset(side, price, -distance)
           lot      == Volume(budget, distance)
<1>1. /\ distance \in Nat \ {0} /\ target \in Nat \ {0}
      /\ worse \in Nat /\ budget \in Nat /\ quoted \in Nat /\ width \in Nat
  BY StopDistances, StopsAssumption DEF StopsInv, StopsKind
<1>2. /\ held = Nothing /\ 2 * width <= distance
      /\ held' = [side |-> side, open |-> Offset(side, price, worse), sl |-> sl,
                  tp |-> Offset(side, price, target), lot |-> lot]
      /\ nearest' = distance + worse
      /\ IF told THEN initial' = sl ELSE UNCHANGED initial
      /\ allowed' = IF sizing = "dynamic" THEN budget ELSE Nothing
      /\ UNCHANGED <<quoted, width, sizing, asked>>
  BY <1>1 DEF Order, TooWide
<1>3. asked = Nothing /\ initial = Nothing
  BY <1>2 DEF StopsInv, StopsRecorded, MovesEarned
<1>4. lot \in Int
  BY <1>1, Sizes, StopsAssumption DEF Volume, StopsInv, StopsKind
<1>5. price \in Int
  BY <1>1 DEF OpensAt
<1> HIDE DEF distance, target, price, lot
<1>6. sl \in Int /\ Offset(side, price, worse) \in Int /\ Offset(side, price, target) \in Int
  BY <1>1, <1>5 DEF Offset, Sides
<1>7. held' \in Position /\ held' # Nothing
  BY <1>2, <1>4, <1>6, StopsAssumption DEF Position, Sides
<1>8. /\ held'.side = side /\ held'.open = Offset(side, price, worse) /\ held'.sl = sl
      /\ held'.tp = Offset(side, price, target) /\ held'.lot = lot
  BY <1>2
<1>9. Gained(side, Offset(side, price, worse), sl) = distance + worse
  BY <1>1, <1>5 DEF Offset, Gained, Sides
<1>10. StopsKind'
  BY <1>1, <1>2, <1>7 DEF StopsKind, StopsInv
<1>11. StopsRecorded'
  BY <1>1, <1>2, <1>3, <1>6, <1>7, <1>8, <1>9, StopsAssumption DEF StopsRecorded, NoNearer
<1>12. RiskAllowed'
  <2> SUFFICES ASSUME allowed' # Nothing PROVE (/\ held # Nothing /\ sizing = "dynamic"
                                                /\ allowed \in Nat /\ Affordable(held, allowed))'
    BY DEF RiskAllowed
  <2>1. allowed' = budget /\ sizing = "dynamic" /\ sizing' = "dynamic"
    BY <1>2
  <2>2. lot = Lot(budget, distance)
    BY <2>1 DEF lot, Volume
  <2>3. lot = 1 \/ 2 * lot * distance <= 200 * budget + distance
    BY <1>1, <2>2, Sizes
  <2>4. Gained(held'.side, held'.open, held'.sl) - worse = distance
    BY <1>1, <1>8, <1>9
  <2>5. Affordable(held', budget)
    BY <1>8, <2>3, <2>4 DEF Affordable
  <2> QED
    BY <1>1, <1>7, <2>1, <2>5
<1>13. MovesEarned'
  BY <1>2, <1>3 DEF MovesEarned
<1>14. OpensSafely
  <2> SUFFICES ~Passed(held', quoted, width)
    BY DEF OpensSafely
  <2>1. Gained(side, ClosesAt(side, quoted, width), sl) > 0
    BY <1>1, <1>2 DEF Gained, ClosesAt, Offset, OpensAt, Sides, price
  <2>2. Gained(side, ClosesAt(side, quoted, width), Offset(side, price, target)) < 0
    BY <1>1 DEF Gained, ClosesAt, Offset, OpensAt, Sides, price
  <2>3. /\ Gained(side, ClosesAt(side, quoted, width), sl) \in Int
        /\ Gained(side, ClosesAt(side, quoted, width), Offset(side, price, target)) \in Int
    BY <1>1, <1>6 DEF Gained, ClosesAt, Sides
  <2> QED
    BY <1>8, <2>1, <2>2, <2>3 DEF Passed
<1>15. MovesSafely
  BY <1>3 DEF MovesSafely
<1> QED
  BY <1>10, <1>11, <1>12, <1>13, <1>14, <1>15 DEF StopsInv

LEMMA HandOpensKeeps ==
  ASSUME StopsInv, NEW side \in Sides, NEW sl \in Int, HandOpens(side, sl)
  PROVE  StopsInv' /\ OpensSafely /\ MovesSafely
<1>1. /\ held = Nothing /\ UNCHANGED <<quoted, width, sizing, asked, initial>>
      /\ held' = [side |-> side, open |-> OpensAt(side), sl |-> sl, tp |-> 0, lot |-> UsualLot]
      /\ ~Passed(held', quoted, width) /\ allowed' = Nothing
      /\ nearest' = IF sl = 0 THEN Nothing ELSE Nearer(Gained(side, OpensAt(side), sl))
  BY DEF HandOpens
<1>2. asked = Nothing /\ initial = Nothing
  BY <1>1 DEF StopsInv, StopsRecorded, MovesEarned
<1>3. OpensAt(side) \in Int /\ Gained(side, OpensAt(side), sl) \in Int
  BY DEF OpensAt, Gained, StopsInv, StopsKind
<1>4. /\ held' \in Position /\ held' # Nothing
      /\ held'.side = side /\ held'.open = OpensAt(side) /\ held'.sl = sl
  BY <1>1, <1>3, StopsAssumption DEF Position, Sides
<1>5. StopsKind'
  BY <1>1, <1>3, <1>4 DEF StopsInv, StopsKind, Nearer
<1>6. StopsRecorded'
  BY <1>1, <1>2, <1>3, <1>4, StopsAssumption DEF StopsInv, StopsKind, StopsRecorded, NoNearer, Nearer
<1>7. RiskAllowed' /\ MovesEarned'
  BY <1>1, <1>2 DEF RiskAllowed, MovesEarned
<1> QED
  BY <1>1, <1>2, <1>5, <1>6, <1>7 DEF StopsInv, OpensSafely, MovesSafely

(* A stop that is set by hand keeps the bounds of those that were set      *)
(* before it.                                                              *)
LEMMA NearerIsLess ==
  ASSUME nearest \in Int \cup {Nothing}, NEW distance \in Int
  PROVE  /\ Nearer(distance) \in Int \cup {Nothing}
         /\ nearest # Nothing => Nearer(distance) # Nothing /\ Nearer(distance) <= nearest
         /\ distance > 0 => Nearer(distance) # Nothing /\ Nearer(distance) <= distance
BY StopsAssumption DEF Nearer

LEMMA HandMovesKeeps ==
  ASSUME StopsInv, NEW sl \in Int, HandMoves(sl)
  PROVE  StopsInv' /\ OpensSafely /\ MovesSafely
<1>1. /\ held # Nothing /\ UNCHANGED <<quoted, width, sizing, asked, initial>>
      /\ held' = [held EXCEPT !.sl = sl, !.tp = 0] /\ allowed' = Nothing /\ meddled' = TRUE
      /\ nearest' = IF sl = 0 THEN nearest ELSE Nearer(Gained(held.side, held.open, sl))
  BY DEF HandMoves
<1>2. held \in Position
  BY <1>1 DEF StopsInv, StopsKind
<1>3. /\ held' \in Position /\ held' # Nothing
      /\ held'.side = held.side /\ held'.open = held.open /\ held'.sl = sl
  <2>1. held' = [held EXCEPT !.sl = sl, !.tp = 0]
    BY <1>1
  <2>2. /\ held' = [side |-> held.side, open |-> held.open, sl |-> sl, tp |-> 0, lot |-> held.lot]
        /\ held.side \in Sides /\ held.open \in Int /\ held.lot \in Int
    BY <1>2, <2>1 DEF Position
  <2> QED
    BY <2>2, StopsAssumption DEF Position, Sides
<1>4. Gained(held.side, held.open, sl) \in Int
  BY <1>2 DEF Gained, Position
<1>5. /\ nearest' \in Int \cup {Nothing}
      /\ nearest # Nothing => nearest' # Nothing /\ nearest' <= nearest
      /\ sl # 0 /\ Gained(held.side, held.open, sl) > 0
           => nearest' # Nothing /\ nearest' <= Gained(held.side, held.open, sl)
  BY <1>1, <1>4, NearerIsLess DEF StopsInv, StopsKind
<1>6. StopsKind'
  BY <1>1, <1>3, <1>5 DEF StopsInv, StopsKind
<1>7. StopsRecorded'
  <2>1. NoNearer(held.sl)'
    BY <1>3, <1>5 DEF NoNearer
  <2>2. ASSUME initial # Nothing PROVE NoNearer(initial)'
    <3>1. initial \in Int /\ NoNearer(initial)
      BY <2>2 DEF StopsInv, StopsRecorded
    <3>2. Gained(held.side, held.open, initial) \in Int
      BY <1>2, <3>1 DEF Gained, Position
    <3> QED
      BY <1>1, <1>3, <1>5, <3>1, <3>2 DEF NoNearer, StopsInv, StopsKind
  <2> QED
    BY <1>1, <1>3, <2>1, <2>2 DEF StopsInv, StopsRecorded
<1>8. MovesEarned'
  <2> SUFFICES ASSUME asked # Nothing PROVE MovesEarned'
    BY <1>1 DEF MovesEarned
  <2>1. /\ sizing = "dry_run" /\ asked.sl = Breakeven /\ asked.tp \in Int
        /\ nearest \in Int /\ asked.gain \in Int /\ asked.gain >= nearest
    BY DEF StopsInv, MovesEarned
  <2>2. nearest' \in Int /\ nearest' <= nearest
    BY <1>5, <2>1, StopsAssumption
  <2>3. Breakeven' = Breakeven
    BY <1>3 DEF Breakeven
  <2> QED
    BY <1>1, <1>3, <2>1, <2>2, <2>3 DEF MovesEarned
<1> QED
  BY <1>1, <1>6, <1>7, <1>8, <1>1 DEF StopsInv, RiskAllowed, OpensSafely, MovesSafely

LEMMA MovesKeeps ==
  ASSUME StopsInv, NEW bid \in Quotes, NEW spread \in Widths, Moves(bid, spread)
  PROVE  StopsInv' /\ OpensSafely /\ MovesSafely
<1>1. bid \in Nat /\ spread \in Nat
  BY StopsAssumption
<1>2. StopsKind'
  BY <1>1 DEF Moves, StopsInv, StopsKind
<1>3. CASE held # Nothing /\ Passed(held, bid, spread)
  <2>1. held' = Nothing /\ initial' = Nothing /\ asked' = Nothing /\ allowed' = Nothing
    BY <1>3 DEF Moves
  <2> QED
    BY <1>2, <2>1
       DEF StopsInv, StopsRecorded, RiskAllowed, MovesEarned, OpensSafely, MovesSafely
<1>4. CASE ~(held # Nothing /\ Passed(held, bid, spread))
  <2>1. UNCHANGED <<held, initial, asked, nearest, meddled, allowed, sizing>>
    BY <1>4 DEF Moves
  <2> QED
    BY <1>2, <2>1
       DEF StopsInv, StopsRecorded, NoNearer, RiskAllowed, MovesEarned, Breakeven,
           OpensSafely, MovesSafely
<1> QED
  BY <1>3, <1>4

LEMMA LookKeeps ==
  ASSUME StopsInv, LookAtStops
  PROVE  StopsInv' /\ OpensSafely /\ MovesSafely
<1>1. /\ sizing = "dry_run" /\ held # Nothing /\ asked = Nothing /\ initial' = Known
      /\ asked' = IF Due THEN [sl |-> Breakeven, tp |-> held.tp, gain |-> Gain] ELSE Nothing
      /\ UNCHANGED <<quoted, width, sizing, held, nearest, allowed>>
  BY DEF LookAtStops
<1>2. held \in Position /\ Known \in Int /\ NoNearer(Known)
  BY <1>1 DEF StopsInv, StopsKind, StopsRecorded, Known, Position
<1>3. StopsKind' /\ StopsRecorded'
  BY <1>1, <1>2 DEF StopsInv, StopsKind, StopsRecorded, NoNearer
<1>4. RiskAllowed'
  BY <1>1 DEF StopsInv, RiskAllowed
<1>5. MovesEarned'
  <2> SUFFICES ASSUME Due PROVE MovesEarned'
    BY <1>1 DEF MovesEarned
  <2>1. /\ Known # 0 /\ Gained(held.side, held.open, Known) > 0
        /\ Gain >= Gained(held.side, held.open, Known)
        /\ held.sl = 0 \/ Gained(held.side, Breakeven, held.sl) > 0
    BY DEF Due
  <2>2. nearest \in Int /\ nearest <= Gained(held.side, held.open, Known)
    BY <1>2, <2>1 DEF NoNearer, StopsInv, StopsKind
  <2>3. Gained(held.side, held.open, Known) \in Int /\ Gain \in Int
    BY <1>2 DEF Gained, Gain, ClosesAt, Position, StopsInv, StopsKind
  <2>4. /\ asked'.sl = Breakeven /\ asked'.tp = held.tp /\ asked'.gain = Gain
        /\ Breakeven' = Breakeven
    BY <1>1 DEF Breakeven
  <2> QED
    BY <1>1, <1>2, <2>1, <2>2, <2>3, <2>4 DEF MovesEarned, Position
<1> QED
  BY <1>1, <1>3, <1>4, <1>5 DEF StopsInv, OpensSafely, MovesSafely

LEMMA AnsweredKeeps ==
  ASSUME StopsInv, NEW done \in BOOLEAN, Answered(done)
  PROVE  StopsInv' /\ OpensSafely /\ MovesSafely
<1> DEFINE changed == [held EXCEPT !.sl = asked.sl, !.tp = asked.tp]
<1>1. /\ asked # Nothing /\ asked' = Nothing /\ held' \in {held, changed}
      /\ UNCHANGED <<quoted, width, sizing, initial, nearest, meddled, allowed>>
  BY DEF Answered
<1>2. /\ held # Nothing /\ held \in Position /\ sizing = "dry_run" /\ allowed = Nothing
      /\ asked.sl = Breakeven /\ asked.tp \in Int
      /\ nearest \in Int /\ asked.gain >= nearest
      /\ ~meddled => /\ held.sl = 0 \/ Gained(held.side, Breakeven, held.sl) > 0
                     /\ asked.tp = held.tp
  BY <1>1 DEF StopsInv, StopsKind, MovesEarned, RiskAllowed
<1>3. Breakeven \in Int /\ Gained(held.side, held.open, Breakeven) <= 0
  BY <1>2, StopsAssumption DEF Breakeven, Offset, Gained, Position, Sides
<1>4. /\ changed \in Position /\ changed # Nothing
      /\ changed.side = held.side /\ changed.open = held.open
      /\ changed.sl = Breakeven /\ changed.tp = asked.tp
  BY <1>2, <1>3, StopsAssumption DEF Position, Sides
<1>5. StopsKind' /\ held' # Nothing /\ held'.side = held.side /\ held'.open = held.open
  BY <1>1, <1>2, <1>4 DEF StopsInv, StopsKind
<1>6. NoNearer(held.sl)'
  <2>1. CASE held' = held
    BY <1>1, <1>2, <2>1 DEF StopsInv, StopsRecorded, NoNearer
  <2>2. CASE held' = changed
    <3>1. Gained(held'.side, held'.open, held'.sl) <= 0
      BY <1>3, <1>4, <2>2
    <3>2. Gained(held'.side, held'.open, held'.sl) \in Int
      BY <1>2, <1>3, <1>4, <2>2 DEF Gained, Position
    <3> QED
      BY <3>1, <3>2 DEF NoNearer
  <2> QED
    BY <1>1, <2>1, <2>2
<1>7. StopsRecorded'
  BY <1>1, <1>5, <1>6 DEF StopsInv, StopsRecorded, NoNearer
<1>8. RiskAllowed' /\ MovesEarned'
  BY <1>1, <1>2 DEF RiskAllowed, MovesEarned
<1>9. OpensSafely
  BY <1>2 DEF OpensSafely
<1>10. MovesSafely
  BY <1>1, <1>2, <1>4 DEF MovesSafely
<1> QED
  BY <1>5, <1>7, <1>8, <1>9, <1>10 DEF StopsInv

LEMMA StopsRestartKeeps ==
  ASSUME StopsInv, NEW finds \in BOOLEAN, StopsRestart(finds)
  PROVE  StopsInv' /\ OpensSafely /\ MovesSafely
<1>1. /\ initial' = IF held # Nothing /\ finds THEN held.sl ELSE Nothing
      /\ asked' = Nothing /\ UNCHANGED <<quoted, width, sizing, held, nearest, allowed>>
  BY DEF StopsRestart
<1>2. held # Nothing => held \in Position /\ held.sl \in Int
  BY DEF StopsInv, StopsKind, Position
<1> QED
  BY <1>1, <1>2
     DEF StopsInv, StopsKind, StopsRecorded, NoNearer, RiskAllowed, MovesEarned,
         OpensSafely, MovesSafely

LEMMA StopsStep ==
  ASSUME StopsInv, StopsNext
  PROVE  StopsInv' /\ OpensSafely /\ MovesSafely
<1>1. ASSUME NEW side \in Sides, NEW distance \in HandStop
      PROVE  Offset(side, OpensAt(side), -distance) \in Int
  BY StopsAssumption DEF Offset, OpensAt, StopsInv, StopsKind
<1>2. ASSUME held # Nothing, NEW distance \in HandStop
      PROVE  Offset(held.side, held.open, -distance) \in Int
  BY <1>2, StopsAssumption DEF Offset, Position, StopsInv, StopsKind
<1> QED
  BY <1>1, <1>2, OrderKeeps, HandOpensKeeps, HandMovesKeeps, MovesKeeps, LookKeeps,
     AnsweredKeeps, StopsRestartKeeps DEF StopsNext

(* No order is closed by its spread, none risks more than its budget, and  *)
(* the daemon moves a stop only after a gain as large as a risk that the   *)
(* position had (send_order, _manage_trailing_stops): for all prices,      *)
(* spreads, slippages, ranges and budgets.                                 *)
THEOREM StopsAreGuarded == StopsSpec => StopsGuard
<1>1. StopsInv /\ [StopsNext]_stopVars => StopsInv'
  BY StopsStep
     DEF stopVars, StopsInv, StopsKind, StopsRecorded, NoNearer, RiskAllowed, MovesEarned, Breakeven
<1>2. StopsInv /\ StopsNext
        => /\ held = Nothing /\ held' # Nothing => ~Passed(held', quoted, width)
           /\ allowed' # Nothing =>
                \/ held'.lot = 1
                \/ \E worse \in Slippage :
                     LET risk == Gained(held'.side, held'.open, held'.sl) - worse
                     IN  2 * held'.lot * risk <= 200 * allowed' + risk
           /\ asked # Nothing /\ asked' = Nothing /\ held' \notin {Nothing, held} =>
                /\ asked.gain >= nearest
                /\ ~meddled => /\ held.sl = 0 \/ Gained(held.side, held'.sl, held.sl) > 0
                               /\ held'.tp = held.tp
  BY StopsStep DEF StopsInv, RiskAllowed, Affordable, OpensSafely, MovesSafely
<1> QED
  BY <1>1, <1>2, StopsInitHolds, PTL DEF StopsSpec, StopsGuard

(* The variables of OrderStops keep their types.                           *)
LEMMA StopsTypeStep ==
  ASSUME StopsInv, StopsTypeOK, StopsNext
  PROVE  StopsTypeOK'
<1> DEFINE nearestOK == nearest = Nothing \/ nearest \in Nat \ {0}
           askedOK   == asked = Nothing \/ asked \in [sl : Int, tp : Int, gain : Int]
           initialOK == initial = Nothing \/ initial \in Int
           flagsOK   == enlisted \in BOOLEAN /\ meddled \in BOOLEAN
           allowedOK == allowed = Nothing \/ allowed \in Budget
           restOK    == /\ quoted \in Quotes /\ width \in Widths /\ sizing \in Sizing
                        /\ askedOK /\ initialOK /\ flagsOK /\ allowedOK
<1>1. nearestOK /\ restOK
  BY DEF StopsTypeOK
<1>2. StopsKind'
  BY StopsStep DEF StopsInv
<1>3. ASSUME NEW distance \in Int
      PROVE  Nearer(distance) = Nothing \/ Nearer(distance) \in Nat \ {0}
  BY <1>1 DEF Nearer
<1>4. ASSUME NEW side \in Sides, NEW atr \in HourlyRange, NEW budget \in Budget,
             NEW worse \in Slippage, NEW told \in BOOLEAN, Order(side, atr, budget, worse, told)
      PROVE  nearestOK' /\ restOK'
  <2>1. StopDistance(atr) \in Nat \ {0} /\ worse \in Nat
    BY StopDistances, StopsAssumption
  <2>2. nearestOK'
    BY <1>4, <2>1 DEF Order
  <2>3. Offset(side, OpensAt(side), -StopDistance(atr)) \in Int
    BY <2>1, StopsAssumption DEF Offset, OpensAt, StopsInv, StopsKind
  <2>4. initialOK' /\ enlisted' \in BOOLEAN
    BY <1>1, <1>4, <2>3 DEF Order
  <2>5. /\ meddled' \in BOOLEAN /\ allowedOK' /\ askedOK'
        /\ quoted' \in Quotes /\ width' \in Widths /\ sizing' \in Sizing
    BY <1>1, <1>4 DEF Order
  <2> QED
    BY <2>2, <2>4, <2>5
<1>5. ASSUME NEW side \in Sides, NEW sl \in Int, HandOpens(side, sl)
      PROVE  nearestOK' /\ restOK'
  <2>1. Gained(side, OpensAt(side), sl) \in Int
    BY StopsAssumption DEF Gained, OpensAt, StopsInv, StopsKind
  <2>2. nearestOK'
    BY <1>3, <1>5, <2>1 DEF HandOpens
  <2> QED
    BY <1>1, <1>5, <2>2 DEF HandOpens
<1>6. ASSUME NEW sl \in Int, HandMoves(sl)
      PROVE  nearestOK' /\ restOK'
  <2>1. Gained(held.side, held.open, sl) \in Int
    BY <1>6 DEF HandMoves, Gained, StopsInv, StopsKind, Position
  <2>2. nearestOK'
    BY <1>1, <1>3, <1>6, <2>1 DEF HandMoves
  <2> QED
    BY <1>1, <1>6, <2>2 DEF HandMoves
<1>7. ASSUME NEW bid \in Quotes, NEW spread \in Widths, Moves(bid, spread)
      PROVE  nearestOK' /\ restOK'
  BY <1>1, <1>7 DEF Moves
<1>8. ASSUME LookAtStops PROVE nearestOK' /\ restOK'
  <2>1. held \in Position /\ Known \in Int
    BY <1>1, <1>8 DEF LookAtStops, Known, StopsInv, StopsKind, Position
  <2>2. Breakeven \in Int /\ held.tp \in Int /\ Gain \in Int
    BY <2>1, StopsAssumption
       DEF Breakeven, Offset, Gain, Gained, ClosesAt, Position, StopsInv, StopsKind
  <2>3. askedOK'
    BY <1>8, <2>2 DEF LookAtStops
  <2> QED
    BY <1>1, <1>8, <2>1, <2>3 DEF LookAtStops
<1>9. ASSUME NEW done \in BOOLEAN, Answered(done) PROVE nearestOK' /\ restOK'
  BY <1>1, <1>9 DEF Answered
<1>10. ASSUME NEW finds \in BOOLEAN, StopsRestart(finds) PROVE nearestOK' /\ restOK'
  BY <1>1, <1>10 DEF StopsRestart, StopsInv, StopsKind, Position
<1>11. ASSUME NEW side \in Sides, NEW distance \in HandStop
       PROVE  Offset(side, OpensAt(side), -distance) \in Int
  BY StopsAssumption DEF Offset, OpensAt, StopsInv, StopsKind
<1>12. ASSUME held # Nothing, NEW distance \in HandStop
       PROVE  Offset(held.side, held.open, -distance) \in Int
  BY <1>12, StopsAssumption DEF Offset, Position, StopsInv, StopsKind
<1>13. nearestOK' /\ restOK'
  <2> HIDE DEF nearestOK, restOK
  <2> QED
    BY <1>4, <1>5, <1>6, <1>7, <1>8, <1>9, <1>10, <1>11, <1>12 DEF StopsNext
<1> QED
  BY <1>2, <1>13 DEF StopsTypeOK, StopsKind

(* The trade that is held, the stop that is asked for, and the nearest     *)
(* stop that was ever recorded keep their types, for any quotes, widths    *)
(* and slippage.                                                           *)
THEOREM StopsTypeCorrect == StopsSpec => []StopsTypeOK
<1>1. StopsInit => StopsTypeOK
  BY DEF StopsInit, StopsTypeOK
<1>2. StopsInv /\ StopsTypeOK /\ [StopsNext]_stopVars => StopsTypeOK'
  BY StopsTypeStep DEF stopVars, StopsTypeOK
<1>3. StopsInv /\ [StopsNext]_stopVars => StopsInv'
  BY StopsStep
     DEF stopVars, StopsInv, StopsKind, StopsRecorded, NoNearer, RiskAllowed, MovesEarned, Breakeven
<1> QED
  BY <1>1, <1>2, <1>3, StopsInitHolds, PTL DEF StopsSpec

-----------------------------------------------------------------------------
(* TradeWatch. The invariant bounds the confidence by the ticks of the     *)
(* trade: each costs a few points at most, so that a verdict takes         *)
(* several.  For the rest it names the causes by which a trade may fail.   *)

(* A tick costs three points at most, and one and a half more only while   *)
(* the trade is at risk, which takes five adverse ticks.                   *)
RiskTakesTime ==
  active => adverses <= tradeTicks /\ (phase = "REVERSAL_RISK" => tradeTicks >= 5)

ConfidenceLasts ==
  /\ ~active => conf = Full
  /\ active => IF tradeTicks <= 4 THEN conf >= Start80 - 6 * tradeTicks
                                  ELSE conf >= Start80 + 12 - 9 * tradeTicks

UnderCounted == active => under <= tradeTicks * WatchGap

FailingEarned ==
  failing => under > RangeDrawdown \/ under > TrendDrawdown \/ TradeAge > ShiftAge \/ best > 10

WatchInv ==
  WatchTypeOK /\ RiskTakesTime /\ ConfidenceLasts /\ UnderCounted /\ FailingEarned

LEMMA NoTicksYet == 0 \in 0 .. MaxTicks
  BY WatchAssumption

LEMMA WatchInitHolds == WatchInit => WatchInv
<1> SUFFICES ASSUME WatchInit PROVE WatchInv
  OBVIOUS
<1>1. WatchTypeOK
  <2>1. phase \in Phase /\ conf \in 0 .. Full /\ regimeIn \in Regime
    BY DEF WatchInit, Phase, Regime, Full
  <2>3. impulses \in 0 .. 2 /\ adverses \in 0 .. 5 /\ against \in 0 .. 3
    BY DEF WatchInit
  <2>4. active \in BOOLEAN /\ (active <=> phase # "WAITING") /\ failing \in BOOLEAN
    BY <2>1 DEF WatchInit
  <2>5. under \in Int /\ best \in Nat /\ lead \in Skews \cup {0} /\ elapsed \in Nat /\ sinceLast \in Skews \cup {0}
    BY DEF WatchInit
  <2>6. tradeTicks \in 0 .. MaxTicks
    BY NoTicksYet DEF WatchInit
  <2> QED
    BY <2>1, <2>3, <2>4, <2>5, <2>6 DEF WatchTypeOK
<1> QED
  BY <1>1 DEF WatchInit, WatchInv, RiskTakesTime, ConfidenceLasts, UnderCounted, FailingEarned

LEMMA OpenKeeps == ASSUME WatchInv, Open PROVE WatchInv'
<1>1. WatchTypeOK'
  <2>1. phase' \in Phase /\ phase' # "WAITING" /\ conf' \in 0 .. Full
    BY DEF Open, FirstPhase, Phase, Full, Start80
  <2>2. /\ lead' \in Skews \cup {0} /\ elapsed' \in Nat /\ sinceLast' \in Skews \cup {0}
        /\ regimeIn' \in Regime
    BY DEF Open, Healthy
  <2>3. impulses' \in 0 .. 2 /\ adverses' \in 0 .. 5 /\ against' \in 0 .. 3
    BY DEF Open, FirstPhase, Healthy
  <2>4. active' \in BOOLEAN /\ (active' <=> phase' # "WAITING") /\ failing' \in BOOLEAN
    BY <2>1 DEF Open, FirstPhase, Healthy
  <2>5. under' \in Int /\ best' \in Nat /\ lead' \in Skews \cup {0} /\ elapsed' \in Nat
        /\ sinceLast' \in Skews \cup {0}
    BY <2>2 DEF Open, FirstPhase, Healthy
  <2>6. tradeTicks' \in 0 .. MaxTicks
    BY NoTicksYet DEF Open, FirstPhase, Healthy
  <2> QED
    BY <2>1, <2>2, <2>3, <2>4, <2>5, <2>6 DEF WatchTypeOK
<1>2. UnderCounted'
  BY WatchAssumption DEF Open, Healthy, UnderCounted
<1> QED
  BY <1>1, <1>2
     DEF Open, FirstPhase, Healthy, WatchInv, RiskTakesTime, ConfidenceLasts, FailingEarned, Start80

LEMMA CloseKeeps == ASSUME WatchInv, Close PROVE WatchInv'
<1>1. WatchTypeOK'
  <2>1. phase' \in Phase /\ phase' = "WAITING" /\ conf' \in 0 .. Full
    BY DEF Close, Phase, Full
  <2>3. impulses' \in 0 .. 2 /\ adverses' \in 0 .. 5 /\ against' \in 0 .. 3
    BY DEF Close, WatchInv, WatchTypeOK
  <2>4. active' \in BOOLEAN /\ (active' <=> phase' # "WAITING") /\ failing' \in BOOLEAN
    BY <2>1 DEF Close, WatchInv, WatchTypeOK
  <2>5. under' \in Int /\ best' \in Nat /\ lead' \in Skews \cup {0} /\ elapsed' \in Nat
        /\ sinceLast' \in Skews \cup {0}
    BY DEF Close, WatchInv, WatchTypeOK
  <2>6. tradeTicks' \in 0 .. MaxTicks
    BY NoTicksYet DEF Close, WatchInv, WatchTypeOK
  <2> QED
    BY <2>1, <2>3, <2>4, <2>5, <2>6 DEF Close, WatchInv, WatchTypeOK
<1> QED
  BY <1>1 DEF Close, WatchInv, RiskTakesTime, ConfidenceLasts, UnderCounted, FailingEarned

(* What the phase tracker makes of a tick.                                 *)
LEMMA PhaseOnward ==
  ASSUME WatchInv, active, NEW d \in Displacement, NEW pips
  PROVE  /\ NextPhase(d, pips) \in Phase \ {"WAITING"}
         /\ NextPhase(d, pips) = "REVERSAL_RISK" =>
              phase = "REVERSAL_RISK" \/ Adverses(d) = 5
<1>1. phase \in Phase /\ phase # "WAITING"
  BY DEF WatchInv, WatchTypeOK
<1>2. /\ Onward(d, pips) \in Phase \ {"WAITING"}
      /\ Onward(d, pips) = "REVERSAL_RISK" => phase = "REVERSAL_RISK"
  BY <1>1 DEF Onward, Phase
<1> QED
  BY <1>2 DEF NextPhase, Phase

LEMMA ConfidenceDrops ==
  ASSUME conf \in 0 .. Full, NEW d, NEW p
  PROVE  /\ NextConf(d, p) \in 0 .. Full
         /\ NextConf(d, p) >= conf - 9
         /\ p # "REVERSAL_RISK" => NextConf(d, p) >= conf - 6
<1> DEFINE c == CASE d = "favourable" -> UpTo(conf + 4, Full)
                  [] d = "adverse"    -> conf - 6
                  [] d = "exhaustion" -> conf - 2
                  [] OTHER            -> conf
<1>1. c \in Int /\ c >= conf - 6 /\ c <= Full
  BY DEF UpTo, Full
<1>2. Drain(p) \in {0, 3} /\ (p # "REVERSAL_RISK" => Drain(p) = 0)
  BY DEF Drain
<1>3. \A n \in Int : n <= Full => Clamp(n) \in 0 .. Full /\ Clamp(n) >= n
  BY DEF Clamp, UpTo, Full
<1>4. CASE p = "ENTRY_TRIGGERED"
  BY <1>4 DEF NextConf, Full
<1>5. CASE p # "ENTRY_TRIGGERED"
  <2>1. NextConf(d, p) = Clamp(c - Drain(p))
    BY <1>5 DEF NextConf
  <2>2. /\ Clamp(c - Drain(p)) \in 0 .. Full
        /\ Clamp(c - Drain(p)) >= c - Drain(p)
    <3>1. PICK n \in Int : n = c - Drain(p) /\ n <= Full
      BY <1>1, <1>2 DEF Full
    <3> QED
      BY <1>3, <3>1
  <2> HIDE DEF c
  <2> QED
    BY <1>1, <1>2, <2>1, <2>2 DEF Full
<1> QED
  BY <1>4, <1>5

LEMMA PhaseTickKeeps ==
  ASSUME WatchInv, active, NEW d \in Displacement, NEW pips,
         PhaseTick(d, pips), active' = active, tradeTicks' = tradeTicks + 1
  PROVE  /\ phase' \in Phase \ {"WAITING"} /\ conf' \in 0 .. Full
         /\ impulses' \in 0 .. 2 /\ adverses' \in 0 .. 5
         /\ RiskTakesTime' /\ ConfidenceLasts'
<1>1. /\ conf \in 0 .. Full /\ impulses \in 0 .. 2 /\ adverses \in 0 .. 5
      /\ tradeTicks \in Nat /\ adverses <= tradeTicks
      /\ phase = "REVERSAL_RISK" => tradeTicks >= 5
  BY WatchAssumption DEF WatchInv, WatchTypeOK, RiskTakesTime
<1>2. impulses' \in 0 .. 2 /\ adverses' \in 0 .. 5 /\ adverses' <= tradeTicks'
  BY <1>1 DEF PhaseTick, Impulses, Adverses, UpTo
<1>3. /\ phase' \in Phase \ {"WAITING"}
      /\ phase' = "REVERSAL_RISK" => phase = "REVERSAL_RISK" \/ adverses' = 5
  BY PhaseOnward DEF PhaseTick
<1>4. /\ conf' \in 0 .. Full /\ conf' >= conf - 9
      /\ phase' # "REVERSAL_RISK" => conf' >= conf - 6
  BY <1>1, ConfidenceDrops DEF PhaseTick
<1>5. RiskTakesTime'
  BY <1>1, <1>2, <1>3 DEF RiskTakesTime
<1>6. ConfidenceLasts'
  <2>1. phase' = "REVERSAL_RISK" => tradeTicks' >= 5
    BY <1>5 DEF RiskTakesTime
  <2>2. IF tradeTicks <= 4 THEN conf >= 160 - 6 * tradeTicks
                           ELSE conf >= 160 + 12 - 9 * tradeTicks
    BY DEF WatchInv, ConfidenceLasts, Start80
  <2> QED
    BY <1>1, <1>4, <2>1, <2>2 DEF ConfidenceLasts, Full, Start80
<1> QED
  BY <1>2, <1>3, <1>4, <1>5, <1>6

(* An impulse alone does not make a trade fail.                            *)
LEMMA FailsSlowly ==
  ASSUME NEW pips, NEW d, NEW p, NEW r, Failing(pips, d, p, r),
         TradeAge' \in Int
  PROVE  \/ under' > RangeDrawdown \/ under' > TrendDrawdown
         \/ TradeAge' > ShiftAge \/ best' > 10
<1>1. ImpulsePenalty(Energy(d), p) \in {0, 10, 20, 30, 40, 50}
  BY DEF ImpulsePenalty
<1>2. SUFFICES ASSUME ~(under' > RangeDrawdown), ~(under' > TrendDrawdown),
                      ~(TradeAge' > ShiftAge), ~(best' > 10)
               PROVE  FALSE
  OBVIOUS
<1>3. ~(TradeAge' > Stagnation) /\ ~(under' > Limit(r)) /\ ~Shifted(r)
  BY <1>2, WatchAssumption DEF Limit, Shifted
<1>4. SlowPenalty(pips, r) = 0
  BY <1>2, <1>3 DEF SlowPenalty
<1> QED
  BY <1>1, <1>4 DEF Failing

LEMMA WatchKeeps ==
  ASSUME WatchInv, NEW d \in Displacement, NEW pips \in Pips, NEW r \in Regime,
         NEW gap \in Gaps, Watch(d, pips, r, gap)
  PROVE  WatchInv'
<1>1. /\ active /\ active' = active /\ tradeTicks \in 0 .. MaxTicks /\ tradeTicks < MaxTicks
      /\ tradeTicks' = tradeTicks + 1 /\ PhaseTick(d, pips)
      /\ gap \in Int /\ pips \in Int /\ sinceLast \in Int /\ under \in Int /\ best \in Nat
      /\ elapsed \in Nat /\ lead \in Int /\ gap \in Nat /\ WatchGap \in Nat \ {0} /\ MaxTicks \in Nat
      /\ Oldest \in Int /\ Longest \in Int
  BY WatchAssumption DEF Watch, WatchInv, WatchTypeOK, Oldest, Longest
<1>2. /\ phase' \in Phase \ {"WAITING"} /\ conf' \in 0 .. Full
      /\ impulses' \in 0 .. 2 /\ adverses' \in 0 .. 5
      /\ RiskTakesTime' /\ ConfidenceLasts'
  BY <1>1, PhaseTickKeeps
<1>3. elapsed' \in Nat /\ lead' = lead /\ TradeAge' \in Int /\ best' \in Nat
  <2>1. Enough \in Nat /\ elapsed + gap \in Nat
    BY <1>1 DEF Enough
  <2>2. elapsed' \in Nat /\ lead' = lead /\ best' \in Nat
    BY <1>1, <2>1 DEF Watch, UpTo
  <2> QED
    BY <1>1, <2>2 DEF TradeAge
<1>4. against' \in 0 .. 3
  BY DEF Watch, AgainstNow, UpTo, WatchInv, WatchTypeOK
<1>5. Counted(sinceLast + gap) \in Int /\ Counted(sinceLast + gap) <= WatchGap
  BY <1>1 DEF Counted
<1>6. under' \in Int /\ under' <= under + WatchGap
  BY <1>1, <1>5 DEF Watch, UpTo
<1>7. UnderCounted'
  <2>1. under <= tradeTicks * WatchGap
    BY <1>1 DEF WatchInv, UnderCounted
  <2>2. tradeTicks' * WatchGap = tradeTicks * WatchGap + WatchGap
    BY <1>1
  <2>3. tradeTicks * WatchGap \in Int /\ tradeTicks' * WatchGap \in Int
    BY <1>1
  <2> QED
    BY <1>1, <1>6, <2>1, <2>2, <2>3 DEF UnderCounted
<1>8. FailingEarned'
  BY <1>3, FailsSlowly DEF Watch, FailingEarned
<1>9. failing' \in BOOLEAN
  BY DEF Watch, Failing
<1>10. WatchTypeOK'
  BY <1>1, <1>2, <1>3, <1>4, <1>6, <1>9 DEF Watch, WatchInv, WatchTypeOK
<1> QED
  BY <1>2, <1>7, <1>8, <1>10 DEF WatchInv

LEMMA WatchInvHolds == WatchSpec => []WatchInv
<1>1. WatchInv /\ [WatchNext]_watchVars => WatchInv'
  <2> SUFFICES ASSUME WatchInv, [WatchNext]_watchVars PROVE WatchInv'
    OBVIOUS
  <2>1. CASE UNCHANGED watchVars
    BY <2>1 DEF watchVars, WatchInv, WatchTypeOK, RiskTakesTime, ConfidenceLasts, UnderCounted,
                FailingEarned, TradeAge
  <2> QED
    BY <2>1, OpenKeeps, CloseKeeps, WatchKeeps DEF WatchNext
<1> QED
  BY <1>1, WatchInitHolds, PTL DEF WatchSpec

(* The watch's variables keep their types, for any prices, gaps and        *)
(* limits.                                                                 *)
THEOREM WatchTypeCorrect == WatchSpec => []WatchTypeOK
<1>1. WatchInv => WatchTypeOK
  BY DEF WatchInv
<1> QED
  BY <1>1, WatchInvHolds, PTL

(* A verdict on a trade takes ticks, a long drawdown, ten pips given back, *)
(* or an age that is the trade's true one but for what the broker's clock  *)
(* is ahead, for any prices, clocks and limits of drawdown, stagnation and *)
(* age.                                                                    *)
THEOREM VerdictsAreSlow == WatchSpec => []VerdictsTakeTime
<1>1. WatchInv => VerdictsTakeTime
  <2> SUFFICES ASSUME WatchInv PROVE VerdictsTakeTime
    OBVIOUS
  <2>1. conf < Protect => tradeTicks >= 9
    BY WatchAssumption
       DEF WatchInv, WatchTypeOK, ConfidenceLasts, Protect, Full, Start80
  <2>2. TradeAge > ShiftAge => elapsed > ShiftAge - Ahead
    BY WatchAssumption DEF WatchInv, WatchTypeOK, TradeAge, Ahead
  <2> QED
    BY <2>1, <2>2 DEF WatchInv, VerdictsTakeTime, UnderCounted, FailingEarned
<1> QED
  BY <1>1, WatchInvHolds, PTL

-----------------------------------------------------------------------------
(* EntryMachine, for all prices, tick spacings and thresholds.             *)

USE PriceAssumption, StepAssumption, LimitAssumption

-----------------------------------------------------------------------------
(* Type correctness.                                                       *)

LEMMA EntryInitTypeOK == Init => TypeOK
<1> SUFFICES ASSUME Init PROVE TypeOK
  OBVIOUS
<1>1. queued \in BOOLEAN
  BY Zenon DEF Init
<1> QED
  BY <1>1 DEF Init, TypeOK, Resting, Side, NoSide

LEMMA AgedIsNat ==
  ASSUME age \in Nat, NEW dt \in Step PROVE Aged(dt) \in Nat
  BY DEF Aged

LEMMA GrowsType ==
  ASSUME TypeOK, NEW dt \in Step, Grows(dt)
  PROVE  age' \in Nat
  BY AgedIsNat DEF Grows, TypeOK

LEMMA EvaluateType ==
  ASSUME TypeOK, NEW p \in Price, NEW dt \in Step, Evaluate(p, dt)
  PROVE  TypeOK'
<1> USE DEF TypeOK, Resting, Armed, Side, NoSide
<1>1. queued' \in BOOLEAN
  BY Zenon DEF Evaluate
<1>2. ticks' \in 0..3
  BY DEF Evaluate, Least
<1>3. CASE EvaluateIdle(p, dt)
  <2>1. PICK d \in Side \cup {NoSide} :
          \/ state' = "ANOMALY" /\ aprice' = p /\ adir' = d /\ mae' = 0
             /\ age' = 0
          \/ /\ state' = IF state \in Resting THEN state ELSE "INVALIDATED"
             /\ UNCHANGED <<fieldVars, mae>>
             /\ Grows(dt)
    BY <1>3 DEF EvaluateIdle, Expected, Side
  <2>2. age' \in Nat
    BY <2>1, GrowsType
  <2> QED
    BY <1>1, <1>2, <2>1, <2>2 DEF fieldVars
<1>4. CASE EvaluateAnomaly(p, dt)
  <2>1. mae' \in Nat
    BY <1>4 DEF EvaluateAnomaly, Widest, Against
  <2>2. state' \in Resting \cup Armed
    BY <1>4 DEF EvaluateAnomaly
  <2> QED
    BY <1>1, <1>2, <1>4, <2>1, <2>2, GrowsType DEF EvaluateAnomaly, fieldVars
<1>5. CASE EvaluateArming(p, dt)
  <2>1. state' \in Resting \cup Armed
    BY <1>5 DEF EvaluateArming
  <2> QED
    BY <1>1, <1>2, <1>5, <2>1, GrowsType DEF EvaluateArming, fieldVars
<1>6. CASE EvaluateTriggered(dt)
  BY <1>1, <1>2, <1>6, GrowsType DEF EvaluateTriggered, fieldVars
<1> QED
  BY <1>3, <1>4, <1>5, <1>6 DEF Evaluate

LEMMA ResetType == ASSUME TypeOK, Reset PROVE TypeOK'
<1>1. queued' \in BOOLEAN
  BY Zenon DEF Reset
<1> QED
  BY <1>1 DEF Reset, ResetTo, TypeOK, Resting, NoSide

LEMMA EntryTypeStep == TypeOK /\ [Next]_vars => TypeOK'
<1>1. TypeOK /\ UNCHANGED vars => TypeOK'
  BY DEF TypeOK, vars
<1> QED
  BY <1>1, EvaluateType, ResetType DEF Next

(* Type correctness of the machine.                                        *)
THEOREM EntryTypeCorrect == Spec => []TypeOK
<1> QED
  BY EntryInitTypeOK, EntryTypeStep, PTL DEF Spec

-----------------------------------------------------------------------------
(* The timeout and the length of the way to a trigger.                     *)

(* Each state of an entry lies at least one tick after the one before it.  *)
EntryInv ==
  /\ TypeOK
  /\ TriggerFresh
  /\ state \in Armed => ticks >= 1 /\ adir \in Side
  /\ state \in {"ARMING", "TRIGGERED"} => ticks >= 2
  /\ state = "TRIGGERED" => ticks = 3

LEMMA InitEntry == Init => EntryInv
<1> SUFFICES ASSUME Init PROVE EntryInv
  OBVIOUS
<1> QED
  BY EntryInitTypeOK DEF Init, EntryInv, TriggerFresh, Armed

LEMMA EntryStep == EntryInv /\ [Next]_vars => EntryInv'
<1> SUFFICES ASSUME EntryInv, [Next]_vars PROVE EntryInv'
  OBVIOUS
<1>0. TypeOK'
  BY EntryTypeStep DEF EntryInv
<1> USE DEF EntryInv, TypeOK, TriggerFresh, Resting, Armed, Side, NoSide
<1>1. ASSUME NEW p \in Price, NEW dt \in Step, Evaluate(p, dt) PROVE EntryInv'
  <2>1. Aged(dt) \in Nat
    BY AgedIsNat
  <2>2. ticks' = Least(ticks + 1, 3)
    BY <1>1 DEF Evaluate
  <2>3. CASE EvaluateIdle(p, dt)
    <3>1. PICK d \in Side \cup {NoSide} :
            \/ d # NoSide /\ state' = "ANOMALY" /\ adir' = d /\ age' = 0
            \/ state' \in Resting
      BY <2>3 DEF EvaluateIdle, Expected, Side
    <3> QED
      BY <1>0, <2>2, <3>1 DEF Least, Side
  <2>4. CASE EvaluateAnomaly(p, dt)
    <3>1. state' \in {"INVALIDATED", "ARMING", "ANOMALY"}
      BY <2>4 DEF EvaluateAnomaly
    <3>2. Aged(dt) <= Timeout /\ age' = (IF state' \in Armed THEN Aged(dt) ELSE 0)
      BY <2>1, <2>4 DEF EvaluateAnomaly, TimedOut, Grows
    <3> QED
      BY <1>0, <2>2, <2>4, <3>1, <3>2 DEF EvaluateAnomaly, Least, fieldVars
  <2>5. CASE EvaluateArming(p, dt)
    <3>1. state' \in {"INVALIDATED", "ARMING", "TRIGGERED"}
      BY <2>5 DEF EvaluateArming
    <3>2. Aged(dt) <= Timeout /\ age' = (IF state' \in Armed THEN Aged(dt) ELSE 0)
      BY <2>1, <2>5 DEF EvaluateArming, TimedOut, Grows
    <3> QED
      BY <1>0, <2>2, <2>5, <3>1, <3>2 DEF EvaluateArming, Least, fieldVars
  <2>6. CASE EvaluateTriggered(dt)
    <3>1. Aged(dt) <= Timeout /\ age' = (IF state' \in Armed THEN Aged(dt) ELSE 0)
      BY <2>1, <2>6 DEF EvaluateTriggered, TimedOut, Grows
    <3> QED
      BY <1>0, <2>2, <2>6, <3>1 DEF EvaluateTriggered, Least, fieldVars
  <2> QED
    BY <1>1, <2>3, <2>4, <2>5, <2>6 DEF Evaluate
<1>2. CASE Reset
  BY <1>0, <1>2 DEF Reset, ResetTo
<1>3. CASE UNCHANGED vars
  BY <1>0, <1>3 DEF vars
<1> QED
  BY <1>1, <1>2, <1>3 DEF Next

(* On the machine's own clock no armed state, so no entry, outlives the    *)
(* timeout; and after a reset it takes three ticks and a direction of the  *)
(* new anomaly to trigger again.                                           *)
THEOREM EntriesAreFresh == Spec => []EntriesFresh
<1>1. EntryInv => EntriesFresh
  BY DEF EntryInv, EntriesFresh, RetriggerTakesThreeTicks, IsValidEntry, Armed
<1> QED
  BY <1>1, InitEntry, EntryStep, PTL DEF Spec

-----------------------------------------------------------------------------
(* The trap.                                                               *)

LEMMA TrapStep ==
  ASSUME EntryInv, Next, state \in Armed, fieldVars' # fieldVars
  PROVE  \/ state' \in Resting
         \/ state' = "ANOMALY" /\ age' = 0 /\ \E dt \in Step : TimedOut(dt)
<1>1. CASE Reset
  BY <1>1 DEF Reset, ResetTo, Resting
<1>2. ASSUME NEW p \in Price, NEW dt \in Step, Evaluate(p, dt)
      PROVE  state' = "ANOMALY" /\ age' = 0 /\ TimedOut(dt)
  <2>1. EvaluateIdle(p, dt)
    BY <1>2 DEF Evaluate, EvaluateAnomaly, EvaluateArming, EvaluateTriggered
  <2>2. TimedOut(dt)
    BY <2>1 DEF EvaluateIdle, LooksForAnomaly, Armed, Resting
  <2> QED
    BY <2>1, <2>2 DEF EvaluateIdle
<1> QED
  BY <1>1, <1>2 DEF Next

(* Price and direction of an armed machine's anomaly change only with a    *)
(* reset or after a timeout, when the machine starts over.                 *)
THEOREM TrapIsKept == Spec => TrapKept
<1>1. EntryInv /\ [Next]_vars =>
        [(state \in Armed /\ fieldVars' # fieldVars) =>
           \/ state' \in Resting
           \/ state' = "ANOMALY" /\ age' = 0
              /\ \E dt \in Step : TimedOut(dt)]_vars
  BY TrapStep
<1> QED
  BY <1>1, InitEntry, EntryStep, PTL DEF Spec, TrapKept
=============================================================================
