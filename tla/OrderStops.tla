----------------------------- MODULE OrderStops -----------------------------
(***************************************************************************)
(* The stop of a position, from the order that sets it (send_order of      *)
(* trade_executor.py) to the moves that the daemon makes of it             *)
(* (_manage_trailing_stops of daemon.py).  Positions do not affect one     *)
(* another; the model follows one at a time, of the strategy or opened by  *)
(* hand.  Its caps and cooldowns are those of Daemon.  An order is sent at *)
(* the prices of the moment, as in direct mode.                            *)
(*                                                                         *)
(* Prices are in tenths of a pip from some base, and 0 is none; volumes    *)
(* are in hundredths of a lot, and a whole lot gains a unit of money with  *)
(* every tenth of a pip.                                                   *)
(***************************************************************************)
EXTENDS Integers

CONSTANTS
  Quotes,        \* bids
  Widths,        \* spreads
  Slippage,      \* by how much worse than asked an order is filled
  HourlyRange,   \* atr_14_h1 times sl_atr_multiple; 0 is not available
  FallbackRange, \* 0.15 % of the price times the same, in its place
  MinStop,       \* 8 pips
  TargetTimes,   \* placeholder_tp_sl_multiple
  Pip,
  Budget,        \* equity times realtime_risk_pct
  MaxLot,        \* realtime_max_lot
  UsualLot,      \* realtime_default_lot_size
  Sizing,        \* realtime_dry_run, or live with or without realtime_dynamic_sizing
  HandStop,      \* distances from the opening at which stops are set by hand
  Nothing        \* no position, no request, no stop recorded

ASSUME StopsAssumption ==
  /\ Quotes \subseteq Nat \ {0} /\ Widths \subseteq Nat /\ Slippage \subseteq Nat
  /\ HourlyRange \subseteq Nat /\ FallbackRange \in Nat \ {0} /\ MinStop \in Nat \ {0}
  /\ TargetTimes \in Nat /\ Pip \in Nat /\ HandStop \subseteq Int
  /\ Budget \subseteq Nat /\ MaxLot \in Nat \ {0} /\ UsualLot \in Nat
  /\ Sizing \subseteq {"dry_run", "default", "dynamic"}
  /\ Nothing \notin Int
  /\ Nothing \notin [side : {"BUY", "SELL"}, open : Int, sl : Int, tp : Int, lot : Int]

VARIABLES
  quoted, width,  \* the bid and the spread
  sizing,         \* the mode of this process
  held,           \* the position at the broker: [side, open, sl, tp, lot]
  initial,        \* its entry in _active_trade_initial_sl
  enlisted,       \* a trade is registered, so that no tick gets to the stops
  asked,          \* a request under way: [sl, tp, gain]
  nearest,        \* history: the shortest distance that its stop ever had from the opening
  meddled,        \* history: stop or target were set by hand since asked was
  allowed         \* history: the budget of the order, until its stop is set by hand

stopVars == <<quoted, width, sizing, held, initial, enlisted, asked, nearest, meddled,
              allowed>>

Sides == {"BUY", "SELL"}

Position == [side : Sides, open : Int, sl : Int, tp : Int, lot : Int]

StopsTypeOK ==
  /\ quoted \in Quotes /\ width \in Widths /\ sizing \in Sizing
  /\ held = Nothing \/ held \in Position
  /\ initial = Nothing \/ initial \in Int
  /\ enlisted \in BOOLEAN /\ meddled \in BOOLEAN
  /\ asked = Nothing \/ asked \in [sl : Int, tp : Int, gain : Int]
  /\ nearest = Nothing \/ nearest \in Nat \ {0}
  /\ allowed = Nothing \/ allowed \in Budget

(* By how much price is better than base for a position of the side.       *)
Gained(side, price, base) == IF side = "BUY" THEN price - base ELSE base - price
Offset(side, base, distance) == IF side = "BUY" THEN base + distance ELSE base - distance

(* The prices at which a position opens and closes.                        *)
OpensAt(side) == IF side = "BUY" THEN quoted + width ELSE quoted
ClosesAt(side, bid, spread) == IF side = "BUY" THEN bid ELSE bid + spread

Passed(position, bid, spread) ==
  LET price == ClosesAt(position.side, bid, spread)
  IN  \/ position.sl # 0 /\ Gained(position.side, price, position.sl) <= 0
      \/ position.tp # 0 /\ Gained(position.side, price, position.tp) >= 0

Longer(x, y) == IF x < y THEN y ELSE x
Lesser(x, y) == IF x < y THEN x ELSE y

(* The shortest of the distances, when a stop is sl away from the opening. *)
Nearer(distance) ==
  IF distance > 0 /\ (nearest = Nothing \/ distance < nearest) THEN distance ELSE nearest

StopsInit ==
  /\ quoted \in Quotes /\ width \in Widths /\ sizing \in Sizing
  /\ held = Nothing /\ initial = Nothing /\ enlisted = FALSE /\ asked = Nothing
  /\ nearest = Nothing /\ meddled = FALSE /\ allowed = Nothing

-----------------------------------------------------------------------------
(* send_order: distances, spread guard, size.                              *)
UsualRange(atr) == IF atr = 0 THEN FallbackRange ELSE atr
StopDistance(atr) == Longer(UsualRange(atr), MinStop)
TargetDistance(atr) == Longer(UsualRange(atr) * TargetTimes, 2 * MinStop)

SlipTooWide(distance) == width > 2 * distance

(* realtime_max_spread_frac                                                *)
TooWide(distance) == 2 * width > distance

SlipLot(budget, distance) ==
  Lesser(Longer((200 * budget + MinStop) \div (2 * MinStop), 1), MaxLot)

(* round, though to the even neighbour of a half                           *)
Lot(budget, distance) ==
  Lesser(Longer((200 * budget + distance) \div (2 * distance), 1), MaxLot)

Volume(budget, distance) ==
  CASE sizing = "dry_run" -> 100
    [] sizing = "default" -> UsualLot
    [] sizing = "dynamic" -> Lot(budget, distance)

Order(side, atr, budget, worse, told) ==
  LET distance == StopDistance(atr)
      price    == OpensAt(side)
      sl       == Offset(side, price, -distance)
  IN  /\ held = Nothing /\ ~TooWide(distance)
      /\ held' = [side |-> side, open |-> Offset(side, price, worse), sl |-> sl,
                  tp |-> Offset(side, price, TargetDistance(atr)),
                  lot |-> Volume(budget, distance)]
      /\ IF told THEN enlisted' = TRUE /\ initial' = sl ELSE UNCHANGED <<enlisted, initial>>
      /\ nearest' = distance + worse /\ meddled' = FALSE
      /\ allowed' = IF sizing = "dynamic" THEN budget ELSE Nothing
      /\ UNCHANGED <<quoted, width, sizing, asked>>

(* Somebody opens a position, and sets stops or takes them away.           *)
HandOpens(side, sl) ==
  /\ held = Nothing
  /\ held' = [side |-> side, open |-> OpensAt(side), sl |-> sl, tp |-> 0, lot |-> UsualLot]
  /\ ~Passed(held', quoted, width)
  /\ nearest' = IF sl = 0 THEN Nothing ELSE Nearer(Gained(side, OpensAt(side), sl))
  /\ meddled' = FALSE /\ allowed' = Nothing
  /\ UNCHANGED <<quoted, width, sizing, initial, enlisted, asked>>

HandMoves(sl) ==
  /\ held # Nothing
  /\ held' = [held EXCEPT !.sl = sl, !.tp = 0]
  /\ ~Passed(held', quoted, width)
  /\ nearest' = IF sl = 0 THEN nearest ELSE Nearer(Gained(held.side, held.open, sl))
  /\ meddled' = TRUE /\ allowed' = Nothing
  /\ UNCHANGED <<quoted, width, sizing, initial, enlisted, asked>>

(* The market moves, and the broker closes what has reached its stop or    *)
(* target.  What was recorded and asked for its ticket serves no other.    *)
Moves(bid, spread) ==
  /\ quoted' = bid /\ width' = spread
  /\ IF held # Nothing /\ Passed(held, bid, spread)
     THEN /\ held' = Nothing /\ initial' = Nothing /\ asked' = Nothing
          /\ nearest' = Nothing /\ meddled' = FALSE /\ allowed' = Nothing
     ELSE UNCHANGED <<held, initial, asked, nearest, meddled, allowed>>
  /\ UNCHANGED <<sizing, enlisted>>

-----------------------------------------------------------------------------
Known == IF initial = Nothing THEN held.sl ELSE initial
Gain == Gained(held.side, ClosesAt(held.side, quoted, width), held.open)
Breakeven == Offset(held.side, held.open, Pip)

SlipDue == LET risk == Gained(held.side, held.open, Known)
           IN  Known # 0 /\ risk > 0 /\ Gain >= risk

(* The gain has reached the first risk, and the stop is behind breakeven.  *)
Due ==
  LET risk == Gained(held.side, held.open, Known)
  IN  /\ Known # 0 /\ risk > 0 /\ Gain >= risk
      /\ held.sl = 0 \/ Gained(held.side, Breakeven, held.sl) > 0

(* _manage_trailing_stops: the query, a position that is new to the daemon *)
(* and what is asked of the broker.                                        *)
LookAtStops ==
  /\ sizing = "dry_run" /\ ~enlisted /\ held # Nothing /\ asked = Nothing
  /\ initial' = Known
  /\ asked' = IF Due THEN [sl |-> Breakeven, tp |-> held.tp, gain |-> Gain] ELSE Nothing
  /\ meddled' = FALSE
  /\ UNCHANGED <<quoted, width, sizing, held, enlisted, nearest, allowed>>

(* The broker's answer: it refuses a stop that the price has passed.       *)
Answered(done) ==
  /\ asked # Nothing
  /\ LET changed == [held EXCEPT !.sl = asked.sl, !.tp = asked.tp]
     IN  IF done THEN ~Passed(changed, quoted, width) /\ held' = changed
                 ELSE UNCHANGED held
  /\ asked' = Nothing
  /\ UNCHANGED <<quoted, width, sizing, initial, enlisted, nearest, meddled, allowed>>

(* Another process: start() records the stops that it finds, if it can.    *)
StopsRestart(finds) ==
  /\ initial' = IF held # Nothing /\ finds THEN held.sl ELSE Nothing
  /\ enlisted' = FALSE /\ asked' = Nothing /\ meddled' = FALSE
  /\ UNCHANGED <<quoted, width, sizing, held, nearest, allowed>>

StopsNext ==
  \/ \E side \in Sides, atr \in HourlyRange, budget \in Budget, worse \in Slippage,
        told \in BOOLEAN : Order(side, atr, budget, worse, told)
  \/ \E side \in Sides, distance \in HandStop :
       HandOpens(side, Offset(side, OpensAt(side), -distance)) \/ HandOpens(side, 0)
  \/ \E distance \in HandStop :
       held # Nothing /\ HandMoves(Offset(held.side, held.open, -distance))
  \/ HandMoves(0)
  \/ \E bid \in Quotes, spread \in Widths : Moves(bid, spread)
  \/ LookAtStops
  \/ \E done \in BOOLEAN : Answered(done)
  \/ \E finds \in BOOLEAN : StopsRestart(finds)

StopsSpec == StopsInit /\ [][StopsNext]_stopVars

-----------------------------------------------------------------------------
(* The stop guards what the order risked.  No order is closed by the       *)
(* spread that it was sent in.  Sized by risk, it loses at its stop no     *)
(* more than the budget, slippage and half a hundredth of a lot aside, or  *)
(* has the smallest volume.  Whatever was moved by hand, refused, lost or  *)
(* forgotten in a restart, the daemon moves a stop only after a gain as    *)
(* large as some risk that the position had; and always towards the price, *)
(* with the target left alone, unless a hand got between query and answer. *)
StopsGuard ==
  [][ /\ held = Nothing /\ held' # Nothing => ~Passed(held', quoted, width)
      /\ allowed' # Nothing =>
           \/ held'.lot = 1
           \/ \E worse \in Slippage :
                LET risk == Gained(held'.side, held'.open, held'.sl) - worse
                IN  2 * held'.lot * risk <= 200 * allowed' + risk
      /\ asked # Nothing /\ asked' = Nothing /\ held' \notin {Nothing, held} =>
           /\ asked.gain >= nearest
           /\ ~meddled => /\ held.sl = 0 \/ Gained(held.side, held'.sl, held.sl) > 0
                          /\ held'.tp = held.tp
    ]_stopVars
=============================================================================
