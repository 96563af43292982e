------------------------------- MODULE TickFeed -------------------------------
(***************************************************************************)
(* TickEngine and its CandleBuilders (tick_engine.py): the thread that     *)
(* polls the terminal's tick tape, repairs quotes, makes up ticks while    *)
(* the feed is stale or the market closed, and folds every tick into the   *)
(* bars of all timeframes.                                                 *)
(*                                                                         *)
(* Times are in units of a fraction of a second.  Ticks of the broker are  *)
(* stamped with its own clock, Lead ahead of UTC; made-up ticks with UTC.  *)
(* Prices are in points.  Random moves of made-up prices are left out.     *)
(***************************************************************************)
EXTENDS Integers, Sequences, FiniteSets

CONSTANTS
  Period,         \* _TF_PERIODS: the lengths of the bars
  Second,         \* units in a second
  StaleAfter,     \* 10 s without a tick
  Lead,           \* the broker's clock less UTC, and offset_hours
  Weekend,        \* broker times at which the market is closed
  Batch,          \* ticks that one copy_ticks_from returns at most
  Market,         \* the price, in points
  InfoSpread,     \* symbol_info.spread, in points
  PointsPerUnit,  \* points in a price unit
  MaxTime, MaxTape,  \* bounds: the clock, broker ticks
  VolCycle           \* bound: volumes are counted modulo this

ASSUME PeriodAssumption == Period \subseteq Nat \ {0}
ASSUME FeedClockAssumption ==
  /\ Second \in Nat \ {0} /\ StaleAfter \in Nat /\ Lead \in Nat /\ Batch \in Nat \ {0}
  /\ MaxTime \in Nat /\ MaxTape \in Nat /\ VolCycle \in Nat \ {0, 1}
ASSUME QuoteAssumption == Market \in Nat /\ InfoSpread \in Nat /\ PointsPerUnit \in Nat

NoBar == [open |-> -1, vol |-> 0]
Start(p, s) == (s \div p) * p

VARIABLES
  now,         \* UTC
  tape,        \* the terminal's ticks, oldest first
  polling,     \* TickEngine.running
  lastMsc,     \* _last_tick_time_msc
  todo,        \* polled ticks still to be processed, in their order
  latest,      \* latest_timestamp
  bid, ask,    \* latest_bid, latest_ask
  goodSpread,  \* _last_valid_spread, 0 before the first
  bar,         \* CandleBuilder.current, by period
  closed,      \* CandleBuilder.history, by period
  fed          \* history: how often a tick of the tape was processed

feedVars == <<now, tape, polling, lastMsc, todo, latest, bid, ask, goodSpread,
              bar, closed, fed>>

BarType == [open : Int, vol : 0 .. VolCycle - 1]

FeedTypeOK ==
  /\ now \in 0 .. MaxTime
  /\ tape \in Seq([stamp : Nat, quote : {"good", "flat"}]) /\ Len(tape) <= MaxTape
  /\ polling \in BOOLEAN
  /\ lastMsc \in Int /\ latest \in Int
  /\ bid \in Int /\ ask \in Int /\ goodSpread \in Nat
  /\ todo \subseteq DOMAIN tape
  /\ bar \in [Period -> BarType]
  /\ closed \in [Period -> Seq(BarType)]
  /\ fed \in [1 .. MaxTape -> Nat]

(* broker_now in run()                                                     *)
BrokerNow == now + Lead

(* __init__ of the engine and of the builders.                             *)
Constructed == polling = TRUE /\ goodSpread = 0 /\ closed = [p \in Period |-> <<>>]

(* _init_mt5 and _preseed_active_candles: the running bars come from the   *)
(* terminal, or are left for the first tick to open.                       *)
FeedInit ==
  /\ now = 0 /\ tape = <<>> /\ todo = {} /\ Constructed
  /\ lastMsc = now + Lead
  /\ latest = now + Lead + Lead
  /\ bid = Market /\ ask = Market + InfoSpread
  /\ \E seeded \in BOOLEAN :
       bar = [p \in Period |-> IF seeded THEN [open |-> Start(p, now + Lead), vol |-> 0]
                                         ELSE NoBar]
  /\ fed = [i \in 1 .. MaxTape |-> 0]

(* The broker: quotes keep coming in its opening hours.                    *)
BrokerTick ==
  /\ Len(tape) < MaxTape /\ now > 0 /\ BrokerNow \notin Weekend
  /\ \E q \in {"good", "flat"} :
       tape' = Append(tape, [stamp |-> BrokerNow, quote |-> q])
  /\ UNCHANGED <<now, polling, lastMsc, todo, latest, bid, ask, goodSpread, bar,
                 closed, fed>>

FeedClock ==
  /\ now < MaxTime
  /\ now' = now + 1
  /\ UNCHANGED <<tape, polling, lastMsc, todo, latest, bid, ask, goodSpread, bar,
                 closed, fed>>

-----------------------------------------------------------------------------
(* _broker_spread_pips is symbol_info's points over the pip unit, and is   *)
(* taken times the pip unit again: points end up as price units.           *)
BrokerSpread == InfoSpread * PointsPerUnit

(* The spread put around a price that comes without one.                   *)
SpreadInUse == IF goodSpread > 0 THEN goodSpread ELSE BrokerSpread

Around(mid) == [bid |-> mid - SpreadInUse \div 2, ask |-> mid + SpreadInUse \div 2]

(* _process_tick on a quote: what it has for latest_bid and latest_ask.    *)
Repaired(q) ==
  IF q.bid > 0 /\ q.ask > 0 /\ q.bid # q.ask THEN q
  ELSE Around(IF q.bid > 0 THEN q.bid
              ELSE IF q.ask > 0 THEN q.ask
              ELSE IF bid > 0 THEN bid ELSE Market)

Quoted(q) ==
  /\ bid' = Repaired(q).bid /\ ask' = Repaired(q).ask
  /\ goodSpread' = IF q.bid > 0 /\ q.ask > q.bid THEN q.ask - q.bid ELSE goodSpread

SlipFolds(p, s) ==
  IF bar[p] = NoBar \/ Start(p, s) # bar[p].open
  THEN [open |-> Start(p, s), vol |-> 1]
  ELSE [bar[p] EXCEPT !.vol = (@ + 1) % VolCycle]

(* feed_tick: a tick of an earlier period stays in the running bar.        *)
Folds(p, s) ==
  IF bar[p] = NoBar \/ Start(p, s) > bar[p].open
  THEN [open |-> Start(p, s), vol |-> 1]
  ELSE [bar[p] EXCEPT !.vol = (@ + 1) % VolCycle]

Closes(p, s) == bar[p] # NoBar /\ Folds(p, s).open # bar[p].open

FeedBars(s) ==
  /\ bar' = [p \in Period |-> Folds(p, s)]
  /\ closed' = [p \in Period |-> IF Closes(p, s) THEN Append(closed[p], bar[p])
                                                  ELSE closed[p]]

Stale == BrokerNow - latest > StaleAfter

(* copy_ticks_from: the first ticks of the tape from a time on.            *)
Reply(from) ==
  LET late == {i \in DOMAIN tape : tape[i].stamp >= from}
  IN  {i \in late : Cardinality({j \in late : j <= i}) <= Batch}

SlipUnseen ==
  LET from == (lastMsc \div Second) * Second
  IN  {i \in DOMAIN tape : tape[i].stamp >= from}

SlipLate ==
  LET from == (lastMsc \div Second + 1) * Second
  IN  {i \in Reply(from) : tape[i].stamp > lastMsc}

(* _poll_ticks asks for whole seconds and drops what it has seen.          *)
Unseen ==
  LET from == (lastMsc \div Second) * Second
  IN  {i \in Reply(from) : tape[i].stamp > lastMsc}

Earliest(ticks) == CHOOSE i \in ticks : \A j \in ticks : i <= j
Newest(ticks)   == CHOOSE i \in ticks : \A j \in ticks : j <= i

Poll ==
  /\ polling /\ todo = {}
  /\ BrokerNow \notin Weekend /\ ~Stale
  /\ Unseen # {}
  /\ todo' = Unseen
  /\ lastMsc' = tape[Newest(Unseen)].stamp
  /\ UNCHANGED <<now, tape, polling, latest, bid, ask, goodSpread, bar, closed,
                 fed>>

(* _process_tick on a tick of the tape.                                    *)
Process ==
  /\ todo # {}
  /\ LET t == tape[Earliest(todo)]
     IN  /\ Quoted([bid |-> Market,
                    ask |-> IF t.quote = "good" THEN Market + InfoSpread ELSE Market])
         /\ latest' = t.stamp + Lead
         /\ FeedBars(t.stamp)
  /\ fed' = [fed EXCEPT ![Earliest(todo)] = @ + 1]
  /\ todo' = todo \ {Earliest(todo)}
  /\ UNCHANGED <<now, tape, polling, lastMsc>>

(* latest_timestamp is set "to avoid locking loop".                        *)
MockTime == now + Lead

(* A made-up tick, on weekends and when the feed is stale.                 *)
Mock ==
  /\ polling /\ todo = {}
  /\ BrokerNow \in Weekend \/ Stale
  /\ Quoted(Around((bid + ask) \div 2))
  /\ latest' = MockTime
  /\ FeedBars(now)
  /\ UNCHANGED <<now, tape, polling, lastMsc, todo, fed>>

(* stop(): a batch that was polled is still worked off.                    *)
FeedStop ==
  /\ polling
  /\ polling' = FALSE
  /\ UNCHANGED <<now, tape, lastMsc, todo, latest, bid, ask, goodSpread, bar,
                 closed, fed>>

FeedNext == BrokerTick \/ FeedClock \/ Poll \/ Process \/ Mock \/ FeedStop

FeedSpec == FeedInit /\ [][FeedNext]_feedVars

(* The thread goes round its loop.                                         *)
FeedFairness == WF_feedVars(Poll) /\ WF_feedVars(Process) /\ WF_feedVars(Mock)

-----------------------------------------------------------------------------
(* No tick of the tape is processed twice, though every poll asks for the  *)
(* whole last second again; one that is passed over shares its millisecond *)
(* with a tick that came through.                                          *)
TicksOnce ==
  \A i \in DOMAIN tape :
    /\ fed[i] <= 1
    /\ tape[i].stamp <= lastMsc /\ fed[i] = 0 =>
         \E j \in DOMAIN tape : /\ tape[j].stamp = tape[i].stamp
                                /\ fed[j] > 0 \/ j \in todo

Ticks(p) ==
  LET Sum[n \in 0 .. Len(closed[p])] ==
        IF n = 0 THEN bar[p].vol ELSE (closed[p][n].vol + Sum[n - 1]) % VolCycle
  IN  Sum[Len(closed[p])]

(* Bars of different lengths tell one story, whatever order broker stamps  *)
(* and made-up stamps come in: a long bar holds the ticks of the short     *)
(* bars that opened inside it, and bars never go back in time.             *)
BarsNest ==
  \A p \in Period :
    /\ \A q \in Period : Ticks(p) = Ticks(q)
    /\ \A i \in DOMAIN closed[p] :
         closed[p][i].open < (IF i = Len(closed[p]) THEN bar[p].open
                                                    ELSE closed[p][i + 1].open)
    /\ \A q \in Period : q % p = 0 /\ bar[p] # NoBar =>
         bar[p].open \in bar[q].open .. bar[q].open + q - 1

(* What the bars say of the tape is true: both of the above.               *)
BarsFaithful == TicksOnce /\ BarsNest

(* A tick on the tape is processed, unless it hides behind its twin, the   *)
(* engine stops or the market closes.                                      *)
TicksArrive ==
  \A i \in 1 .. MaxTape :
    i \in DOMAIN tape ~>
      \/ fed[i] = 1 \/ (i \in DOMAIN tape /\ tape[i].stamp <= lastMsc)
      \/ ~polling \/ BrokerNow \in Weekend
=============================================================================
