------------------------------ MODULE TradeLog ------------------------------
(***************************************************************************)
(* Two logs of the daemon and their readers.  reports/signals.jsonl gets a *)
(* record of every close that the daemon notices, and the dashboard tells  *)
(* the trades from it (get_trades_log of api_server.py); the records of    *)
(* openings in it come from earlier versions, since _log_signal has no     *)
(* caller.  dry_run_session.jsonl gets an entry per order, and             *)
(* generate_session_summary counts them.  A write may fail, or break off   *)
(* anywhere in its line.  Prices are in pips.                              *)
(***************************************************************************)
EXTENDS Integers, Sequences, FiniteSetsExt

CONSTANTS
  Trades,      \* tickets
  Hidden,      \* BLACKLIST_TICKETS
  Deals,       \* what history_deals_get tells: [direction, entry, exit]
  Bid,         \* the price that stands in for an entry that is not known
  Openings,    \* records of openings that the log may start with
  MinuteBars,  \* [high, low] of some minutes, or NoBars
  NoBars,
  Untold,      \* no record
  MaxLines,    \* bound on the lines of the log
  MaxOrders    \* bound on the orders of a dry run

ASSUME LogAssumption ==
  /\ Hidden \subseteq Trades /\ Bid \in Nat /\ NoBars \in MinuteBars
  /\ Deals \subseteq [direction : {"BUY", "SELL"}, entry : Int, exit : Int]
  /\ Openings \subseteq [kind : {"open"}, ticket : Trades, stop : Int]
  /\ MinuteBars \subseteq {NoBars} \cup [high : Int, low : Int]
  /\ MaxLines \in Nat \ {0} /\ MaxOrders \in Nat

VARIABLES
  signals, ragged,  \* lines of signals.jsonl; the last one has no end of line
  kept,             \* history: by trade, the deal of the last record written in full
  dry, dryRagged,   \* dry_run_session.jsonl likewise
  orders,           \* history: orders whose entry was to be logged
  failures,         \* history: entries of orders that failed or broke off
  looping           \* the daemon's event loop runs

logVars == <<signals, ragged, kept, dry, dryRagged, orders, failures, looping>>

(* A line that json.loads refuses, and an entry of the dry run's log.      *)
Junk  == [kind |-> "junk"]
Order == [kind |-> "event_detected"]

(* _check_closed_positions: a close of which no deal is found is logged    *)
(* with an unknown direction and an exit at zero.                          *)
NoHistory == [direction |-> "UNKNOWN", entry |-> Bid, exit |-> 0]

Closing(ticket, deal) == [kind |-> "closed", ticket |-> ticket, deal |-> deal]

Lines ==
  {Junk} \cup Openings \cup {Closing(t, d) : t \in Trades, d \in Deals \cup {NoHistory}}

LogTypeOK ==
  /\ signals \in Seq(Lines) /\ Len(signals) <= MaxLines /\ ragged \in BOOLEAN
  /\ kept \in [Trades -> Deals \cup {NoHistory, Untold}]
  /\ dry \in Seq({Junk, Order}) /\ dryRagged \in BOOLEAN /\ looping \in BOOLEAN
  /\ orders \in 0 .. MaxOrders /\ Len(dry) <= orders /\ failures \in 0 .. orders

LogInit ==
  /\ signals \in {<<>>} \cup {<<line>> : line \in Openings} /\ ragged = FALSE
  /\ kept = [t \in Trades |-> Untold]
  /\ dry = <<>> /\ dryRagged = FALSE /\ orders = 0 /\ failures = 0 /\ looping = TRUE

(* How a write may end: with all of the line, all but its end, a part of   *)
(* it, or nothing.                                                         *)
Ends == {"whole", "unended", "cut", "none"}

(* Opened for appending, a file goes on where it stopped, so that what     *)
(* follows a line without an end makes one line with it.                   *)
Appended(file, open, line, end) ==
  IF end = "none" THEN file
  ELSE IF open THEN [file EXCEPT ![Len(file)] = Junk]
  ELSE Append(file, IF end = "cut" THEN Junk ELSE line)

RaggedAfter(open, end) == IF end = "none" THEN open ELSE end # "whole"

(* _check_closed_positions: an error of the write is logged, and the close *)
(* is dealt with all the same.  A trade is logged again when the broker's  *)
(* answer that took it for closed was wrong.                               *)
LogClose(ticket, deal, end) ==
  /\ Len(signals) < MaxLines
  /\ signals' = Appended(signals, ragged, Closing(ticket, deal), end)
  /\ ragged' = RaggedAfter(ragged, end)
  /\ kept' = IF end = "whole" /\ ~ragged THEN [kept EXCEPT ![ticket] = deal] ELSE kept
  /\ UNCHANGED <<dry, dryRagged, orders, failures, looping>>

(* _log_dry_run_event after an order, in the event loop: nothing stands    *)
(* between its error and the end of the loop.                              *)
LogOrder(end) ==
  /\ looping /\ orders < MaxOrders
  /\ orders' = orders + 1
  /\ dry' = Appended(dry, dryRagged, Order, end)
  /\ dryRagged' = RaggedAfter(dryRagged, end)
  /\ looping' = (end = "whole")
  /\ failures' = IF looping' THEN failures ELSE failures + 1
  /\ UNCHANGED <<signals, ragged, kept>>

(* The daemon is started again, and both files go on.                      *)
LogRestart ==
  /\ ~looping /\ looping' = TRUE
  /\ UNCHANGED <<signals, ragged, kept, dry, dryRagged, orders, failures>>

LogNext ==
  \/ \E t \in Trades, d \in Deals \cup {NoHistory}, end \in Ends : LogClose(t, d, end)
  \/ \E end \in Ends : LogOrder(end)
  \/ LogRestart

LogSpec == LogInit /\ [][LogNext]_logVars

-----------------------------------------------------------------------------
SlipReadable(file) == {i \in DOMAIN file : \A j \in 1 .. i : file[j] # Junk}

(* Both readers pass over the lines that they cannot parse.                *)
Readable(file) == {i \in DOMAIN file : file[i] # Junk}

(* get_trades_log: the last record of a kind that a trade has.             *)
Records(file, kind, ticket) ==
  {i \in Readable(file) : file[i].kind = kind /\ file[i].ticket = ticket}

Last(file, kind, ticket) == file[Max(Records(file, kind, ticket))]

Has(file, kind, ticket) == Records(file, kind, ticket) # {}

Told(file) ==
  {t \in Trades \ Hidden : Has(file, "closed", t) \/ Has(file, "open", t)}

Pips(deal) ==
  CASE deal.direction = "BUY"  -> deal.exit - deal.entry
    [] deal.direction = "SELL" -> deal.entry - deal.exit
    [] OTHER -> 0

Outcome(deal) ==
  IF Pips(deal) > 0 THEN "WIN" ELSE IF Pips(deal) < 0 THEN "LOSS" ELSE "BREAKEVEN"

OutcomeOf(file, t) ==
  IF Has(file, "closed", t) THEN Outcome(Last(file, "closed", t).deal) ELSE "OPEN"

(* compute_drawdown_peak: from the minutes' bars where the terminal or the *)
(* bridge gives any, else an estimate, where the stop of the opening takes *)
(* the place of a loss.  Any direction but BUY counts as SELL.             *)
Floor(x) == IF x > 0 THEN x ELSE 0

Figures(deal, stop, bars) ==
  LET buy    == deal.direction = "BUY"
      below  == deal.entry - (IF bars = NoBars THEN stop ELSE bars.low)
      above  == bars.high - deal.entry
      lost   == Outcome(deal) = "LOSS"
      won    == Outcome(deal) = "WIN"
  IN  IF bars # NoBars
      THEN [drawdown |-> Floor(IF buy THEN below ELSE above),
            peak     |-> Floor(IF buy THEN above ELSE below)]
      ELSE [drawdown |-> IF ~lost THEN 0
                         ELSE IF stop = 0 THEN Floor(-Pips(deal))
                         ELSE Floor(IF buy THEN below ELSE -below),
            peak     |-> IF won THEN Pips(deal) ELSE 0]

(* get_historical_bars of the bridge: when an interval has no bars, and    *)
(* that of a trade without a record of its opening is a single instant,    *)
(* the last bars there are, of whatever time.                              *)
BarsFor(found, last) == IF found = NoBars THEN last ELSE found

StopOf(file, t) == IF Has(file, "open", t) THEN Last(file, "open", t).stop ELSE 0

(* What the dashboard shows of a trade.                                    *)
Shown(file, t, bars) ==
  [outcome |-> OutcomeOf(file, t),
   figures |-> IF Has(file, "closed", t)
               THEN Figures(Last(file, "closed", t).deal, StopOf(file, t), bars)
               ELSE [drawdown |-> 0, peak |-> 0]]

(* generate_session_summary: the orders of all sessions in the file.       *)
EventsDetected == Cardinality(Readable(dry))

-----------------------------------------------------------------------------
(* A trade whose close was written in full is shown with the outcome of    *)
(* its last such record, whatever writes failed before and after: only a   *)
(* record of its own that still lacks its end may be shown instead.  All   *)
(* of its loss or gain shows in its figures, from bars that reach its exit *)
(* or without bars, unless a stop takes the place of the loss.  A failure  *)
(* costs the dry run's summary two orders at most.                         *)
LogsTell ==
  /\ \A t \in Trades \ Hidden :
       kept[t] # Untold /\ ~(ragged /\ Len(signals) \in Records(signals, "closed", t)) =>
         LET deal == kept[t]
             Reaches(bars) == bars = NoBars \/ (bars.low <= deal.exit /\ deal.exit <= bars.high)
         IN  /\ t \in Told(signals)
             /\ \A found, last \in MinuteBars :
                  LET bars  == BarsFor(found, last)
                      shown == Shown(signals, t, bars)
                  IN  /\ shown.outcome = Outcome(deal)
                      /\ Reaches(bars) => shown.figures.peak >= Pips(deal)
                      /\ Reaches(bars) /\ (bars = NoBars => StopOf(signals, t) = 0)
                           => shown.figures.drawdown >= -Pips(deal)
  /\ orders - 2 * failures <= EventsDetected /\ EventsDetected <= orders
=============================================================================
