# AxonAgent: a TLA+ verification project

AxonAgent is a forex trading program in Python. Its live core is `AxonDaemon`
(`axonai/realtime/daemon.py`): a tick thread turns broker ticks into entry
decisions, a main thread turns decisions into orders, a dashboard may pause or
stop both, and everything about positions is learnt by asking a broker that may
not answer. Beside it runs a data bridge (`windows/mt5_bridge.py`), which feeds
any number of WebSocket clients from one asyncio loop, an execution bridge
(`windows/execution_bridge.py`), which carries out orders, and a dashboard server
(`axonai/realtime/api_server.py`). This directory models these and the engines that work
on every tick, checks them with TLC and proves their most important safety properties with
TLAPS. All source paths are below `src/`, realtime modules below `src/axonai/realtime/`
unless a path says otherwise.

## 1. The system

### 1.1 Components

| Component | State it keeps | Operations | Hard behaviour |
| --- | --- | --- | --- |
| `AxonDaemon` (daemon.py) | `_running`, `paused`, the event queue (100), three cooldown clocks, the book (`_tracked_positions`, `_active_trade_initial_sl`) | `start`, `_on_tick`, `_event_loop`, `_manage_trailing_stops`, `_check_for_closed_positions`, `stop` | two threads without a lock, blocking `put`, checks separated from their use by broker calls, restart |
| `MT5TradeExecutor` (trade_executor.py) | magic number, risk guard | `execute_signal`, `send_order`, `_simulate_fill` | query-then-order; failed queries and lost replies |
| `EntryStateMachine` (entry_state_machine.py) | state, anomaly time, price, direction, excursion | `evaluate` per tick, `reset` by the other thread | timeout against tick gaps, reset during evaluate |
| `RiskGuard` (risk_guard.py) | day's opening equity in memory and in `daily_pnl.json` | `update_equity`, `is_tripped`, load and save | midnight, restart, failed readings |
| `ReversalModel`, `TradeStateEngine` (reversal_model.py, trade_state_engine.py) | engines, the registered trade | `on_tick`, `register_trade` | an exception half way through a tick |
| `TickEngine`, `CandleBuilder` (tick_engine.py) | tick buffers, candles, `running` | `run`, `_poll_ticks`, `_process_tick`, `feed_tick` | stale feed, duplicate ticks, period boundaries |
| Exit engines and entry gate (exit_engine.py, adaptive_exit.py, exit_stats.py, entry_gate.py) | stop levels, exit flags | `evaluate` | without effect here, see section 7 |
| Phase and health (trade_phase.py, trade_health_monitor.py) | trade phase, confidence, impulse counters, drawdown time | `update`, `evaluate`, `register_trade`, `clear_trade` | causes that add up over ticks, two clocks |
| `LiquidityEngine` (liquidity_engine.py) | per level: type, breach, depth, side, verdict | `update`, `sync_levels` | a direction that follows the price, a type that follows the list |
| Velocity, displacement, regime, peaks (velocity_normalizer.py, displacement_engine.py, regime_engine.py, peak_detector.py) | windows, the fading peak, smoothed scores, cooldowns | `update`, `on_tick` | pauses of the feed, hysteresis, several cooldowns that share state |
| MTF, location, tick behaviour, velocity-displacement matrix | windows of ticks and candles | `update` | numerics only |
| `LevelTracker` (level_tracker.py) | approaches to price levels | `on_tick`, `_finalize_approach` | life cycle of an approach |
| `LiveMarketEvidence`, `LiveWorldState` (live_state.py) | levels, session ranges; belief, regimes, the gate | `on_tick`, `on_candle_close` | lists rebuilt under pending touches, fields that are judged anew on some steps only |
| `EventDetector` (event_detector.py) | consumed levels, pending sweeps, cooldowns, queue | `on_tick`, `on_candle_close` | a full queue, gates between detection and delivery |
| Clock and sessions (dataflows/mt5_data.py, daemon.py) | the cached offset of the broker's clock, session ranges | `get_broker_tz_offset`, `_get_regime_payload` | an offset found once; two rules that write one field |
| `DashboardServer` (api_server.py) | clients, message history and its file, lock | endpoints, `broadcast`, hydration, emergency stop | a lock held while joining a thread; async sends; candles read again for one browser; saves that fail or tear the file |
| Trade log (daemon.py, api_server.py) | `signals.jsonl`, `dry_run_session.jsonl` | `_log_trade_closed`, `get_trades_log`, `generate_session_summary` | failed and torn writes |
| Execution client and bridge (execution_client.py, windows/execution_bridge.py) | the account; one socket per command | `positions_get`, `open`, `modify`, `close`, `history_deals_get` | lost replies, `None` read as empty, `success: False` for orders that stand or were filled in part |
| Data bridge (windows/mt5_bridge.py) | the streamed symbol, `latest_state`, `connected_clients` | `broadcast`, `handle_client`, `data_loop` | tasks that interleave at every send, a set changed while it is iterated, switches that overtake one another |
| Data bridge client (mt5_bridge_client.py) | pending requests, running flag, event loop | `_connect_loop`, `request_historical` | reconnection, late answers, keys of one millisecond |
| Legacy pipeline (orchestrator.py, mt5_receiver.py, tick_engine.py, market_state.py, market_context.py, llm_bridge.py, macro_bridge.py, execution.py in the root) | per-symbol machines, rate limit, trades | `_on_signal`, `_execute_llm_decision_flow`, `_poll_loop` | superseded; dead behind the receiver, see section 7 |
| Backtester and optimizer (backtester.py, run_*.py) | simulated account | replays | sequential gates |
| World state, data flows, configuration, command line, mock feeders, scratch, tests | files and caches | retrieval, formatting, launching | none of its own |

### 1.2 How they interact

* `TickEngine.run` (tick thread) calls `AxonDaemon._on_tick` for every tick.
  `_on_tick` calls `ReversalModel.on_tick`, which runs the engines, the entry
  machine and the trade state engine; it puts an entry event on the queue and
  then, in dry-run mode, manages stops and looks for closed positions.
  An exception anywhere in this is swallowed by the tick engine
  (tick_engine.py:422) and ends the tick.
* `AxonDaemon._event_loop` (main thread) takes events, checks pause and
  cooldowns, and calls `MT5TradeExecutor.execute_signal`; after a fill it adds
  the ticket to the book, registers the trade with the engines the tick thread
  is using, and resets the entry machine.
* Both threads talk to the broker, directly or through the execution bridge;
  positions also close at the broker and are opened by hand or by other
  strategies on the same symbol.
* The data bridge is a process of its own on the machine of the terminal. Its
  `data_loop` fetches and broadcasts five kinds of message; a handler per client
  sends what is cached, answers requests, and on `switch_pair` fetches and
  broadcasts the five kinds itself. They share three globals without a lock and
  hand over to one another wherever a send waits for a slow peer.
* The dashboard's HTTP workers flip `paused` and call `stop`; the daemon's threads call its
  `broadcast`, whose messages the dashboard's own asyncio loop sends to the browsers.
* The dashboard asks for historical bars through the data bridge's client, from HTTP
  workers that wait for a future resolved on the client's thread.
* Of the process, `daily_pnl.json`, the dashboard's session file and the logs survive.

### 1.3 What makes it correct

The strategy never holds two positions; orders keep their distance; a loss or a
close holds the next order back; no order goes out without a direction; what is
recorded as closed is closed and what is closed gets recorded; stopping stops;
an entry comes from a fresh anomaly measured from a fixed trap; the drawdown
breaker compares with the day's true opening. Bars are those of the ticks, each counted
once; a verdict on a level or a trade, a reading of speed, a repeated peak, a touch, an announced event is
earned by what the market did and not by pauses, rebuilt lists or full queues. The data
bridge knows exactly the clients that are there, ends with the symbol that was asked for
last, and shows its clients what it has cached; so does the dashboard. A request is given
its own answer, and an answer about the account is backed by it. Each hazard behind these is
listed with its line in `PROJECT.json`.

## 2. Modules

| Module | Models | Notes |
| --- | --- | --- |
| `TradeDesk` | what the daemon promises about its own positions | abstract specification: `Open`, `Close`, `Pass` |
| `Daemon` | daemon, executor's control, entry machine's interleaving, broker account | two threads with program counters, environment, restart |
| `EntryMachine` | the entry machine with thresholds and clocks | one action per handler of `evaluate`, plus `reset` |
| `RiskGuard` | guard, file, the breaker's use in `execute_signal` | market, calendar and restart between the steps |
| `TickFeed` | `TickEngine`, `CandleBuilder` | polled and made-up ticks, bars by period |
| `TradeWatch` | `TradePhaseTracker`, `TradeHealthMonitor` | one action per tick of a registered trade |
| `PriceLevels` | the levels of `LiveMarketEvidence` at one price | touches, flips, renewal by bars |
| `LevelTracker` | `LevelBehaviorTracker` at one level | approaches, attacks, what is told of them |
| `Liquidity` | `LiquidityEngine` at one level | in the order of `ReversalModel.on_tick`: sync, then update |
| `LiveWorld` | `LiveWorldState` and its gate | what is judged on a tick, and on which bar |
| `EventDetector` | events that reach the queue | breaches, sweeps, structure breaks, patterns |
| `Peaks` | `PeakDetector` in both variants | rules A, B, C and their waits |
| `Tempo` | `VelocityNormalizer`, `DisplacementEngine` | the fading peak and the classes of moves |
| `MarketRegime` | `RegimeEngine` | smoothing, bonus, margin |
| `OrderStops` | stop, target and size of an order, and the moves of the stop | one position, opened by the strategy or by hand |
| `BrokerClock` | the broker's offset, the market's closure as told | a week's end |
| `SessionRanges` | the ranges and times of the sessions as told | ticks and bars write the same fields |
| `DataBridge` | the data bridge's tasks, client set, cache and peers | one step from one await to the next |
| `BridgeClient` | the data bridge's client and the trade log's requests | workers, the client's thread, the connection |
| `ExecBridge` | the execution bridge and its callers | calls, commands, partial and late fills, lost answers |
| `Dashboard` | `DashboardServer` | threads, loop, lock, session file and its failed saves, candles read again, emergency stop |
| `TradeLog` | the two logs and what is told from them | failed and torn writes, restarts |
| `Daemon_proofs`, `DataBridge_proofs` | theorems about one module each | section 5 |
| `Trade_proofs`, `Levels_proofs`, `Market_proofs`, `Servers_proofs`, `Engines_proofs` | theorems about the other components; the last two also about `MCServers` and `MCEngines` | section 5 |
| `LeastElements` | lemmas on natural numbers | what the proofs use in place of an induction rule, section 5 |
| `MCDaemon`, `MCDataBridge` | TLC instances of one module each | section 3 |
| `MCDaemonBridge` | both side by side | either the daemon or the bridge moves, section 3 |
| `MCEngines`, `MCServers` | TLC instances of all the others | one component in each behaviour, section 3 |

### 2.1 Daemon

A step is a stretch of code between two points at which the other thread can
change what is read next: broker calls, shared attributes, queue operations.

* `tpc` walks the tick thread: `EvalBranch`, `EvalCommit` and `EvalDecide` are
  `EntryStateMachine.evaluate` cut where `reset` may fall (the fields are
  written before `_transition` writes the state, the direction is read last);
  `Lifecycle` is `TradeStateEngine.on_tick`; `Put` is the blocking queue put;
  `Manage` and `Adopt` are `_manage_trailing_stops`; `CheckQuery`,
  `CheckDetect`, `Record` and `CheckFinish` are `_check_for_closed_positions`,
  whose loop body is one step per ticket; `TickExit` is the loop condition of
  `TickEngine.run`.
* `mpc` walks the main thread: `LoopTop`, `Take` (get, pause, cooldowns),
  `Guard` (everything of `execute_signal` and `send_order` that may refuse, the
  cap's query included), `Send`, `Track`, `Register`, `ResetState`,
  `ResetFields`, `Stamp`.
* The three cooldowns are counted down by `Elapse` instead of subtracting
  timestamps; a clock at 0 is a cooldown that is over.
* `Replies(S)` and `DealReplies(t)` are what a query may answer. With `Faults`
  a failed query reads as empty, which is what the code makes of it.
* `Init` is a freshly constructed daemon on an account that may hold positions
  already; `Restart` is a new process on the account as it is.
* History variables: `sinceOrder` (time since this process's last executed
  order, lost reply or not), `lateClose` (a close was recorded after the current
  order's cooldown check), `restarts`.

Left out on purpose: stop levels and order sizing (no guard reads them; they are in
`OrderStops`), paper mode (no broker is involved), the exit branch of the event loop
(`TradeStateEngine.on_tick` returns `None`, for which the exit engine holds, or
raises), the injection of test events, which the event loop drops, the 5 s join and `mt5_shutdown` of `stop`, and the
dashboard's payloads. Two attribute writes of one cooldown
(`_cooldown_seconds`, `_last_close_time`) are one step.

Which positions the tick thread sees when a trade is registered deserves a
word: `ReversalModel.on_tick` passes `snapshot=None` (reversal_model.py:177)
and `TradeStateEngine.on_tick` reads `snapshot.velocity` (trade_state_engine.py:174),
so with a trade registered every tick ends there. The model takes this as it
is, which is why several properties say "while no trade is registered".

### 2.2 EntryMachine

The thresholds of the code in tenths of a pip, time as the anomaly's age on the
machine's own clock. `Aged` is the gap correction of lines 100 to 105, `TimedOut`
the check of lines 109 to 113, and the four `Evaluate...` actions are the
branches; what the engines report is an input (`\E` over sweep, climax, class,
bias). The check that spares only resting machines means that a machine that
times out looks for an anomaly on the same tick. `Reset` may come any time after
an entry was queued, because it runs after the order on the other thread.

### 2.3 RiskGuard

`Consult`, `Check` and `Sent` are one order attempt; `Market`, `Midnight` and
`Restart` may fall between them. `Consult` has a successful reading and a failed
one. `opening` remembers the equity of the day's first look at the account, by any process,
`read` that of this process's last look. `realized_pnl` stays 0, because nothing in the program
calls `record_trade_result`.

### 2.4 DataBridge

`LoopRefresh`, `LoopSleep` and `LoopWake` are `data_loop`; `Connect`, `HydrateOn`,
`Leave`, `BadRequest`, `Switch`, `SwitchOn` and `SwitchAck` are `handle_client`;
`CastOn(t)` is the next send of the `broadcast` that task `t` is in. A step runs
from one await to the next: it ends with the send it starts. `Refresh` fetches,
stores and starts to broadcast the next kind that is not passed over, with
whatever the global `symbol` is by then, as the code does. `cast[t]` is what
the suspended `for` of task `t` knows: the kind and symbol of its message, the members of the
set when the iteration began, who was written to, who raised. Python ends an
iteration over a set whose size has changed with a `RuntimeError`: `SameSize` and
`Breaks` say so, `SwitchFalls` and `LoopFalls` say what it does to the task.
A cached message and a client's view are abstracted to the symbol they were fetched for.

Abstractions to know about:

* Any send may suspend, because any peer may be slow at any time. A broadcast with
  no client registered does not suspend in the code; in the model others may
  run after it, which adds behaviour and loses none.
* A set that changes and returns to its old size is iterated on; which new
  members the iteration meets is open (the resize of a hash table is not modelled).
* The kinds other than the tick are fetched by `data_loop` at their own
  intervals; in the model they may always be not due.
* `get_historical`, `get_symbols` and `ping` change no state and are left out,
  except for the way a request without its fields ends the handler (`BadRequest`).
* A peer that comes back is another connection. The end of the process, after the exception of
  `data_loop`, is one step.
* The terminal may answer `None` in finitely many steps (`MaxFails`). Without such a
  bound no client could be promised a tick.
* History variables: `behind` (kinds that a switch could not refresh) and
  `disturbed` (kinds whose last broadcasts overlapped or broke off).

### 2.5 The engines on a tick

All of these are sequential: the tick thread calls one after the other, and none reads what
another of these models keeps. What they compute from windows of prices (moving averages,
percentiles, ratios, volumes) is an input of the step, drawn from readings on either side of
every threshold that the control compares it with.

* `TickFeed`: `BrokerTick` appends to the terminal's tape, `Poll` takes what
  `copy_ticks_from` returns and drops what was seen, `Process` works off one tick and folds
  it into the bars, `Mock` makes up a tick on weekends and when the feed is stale,
  `FeedStop` is `stop`. Broker ticks bear the broker's time and made-up ones UTC, as in the code.
* `TradeWatch`: `Open` and `Close` are registration and clearing, `Watch` is one tick: first
  `TradePhaseTracker.update`, then `TradeHealthMonitor.evaluate` in the phase that results.
  The trade is stamped with the system's clock and the ticks with the broker's: `lead` is what the broker's
  is ahead, from `Skews`, and `TradeAge` the age as the code takes it, `elapsed` true time plus `lead`.
* `PriceLevels`: `LevelTick` is `on_tick` with the flips and touches, and `QuarterClose`, `HourClose`
  and `FourHourClose` list the levels anew; `Invalid` drops those that the price has left behind or that were not touched for five days. Levels at one price
  share an entry of `_pending_touches`.
* `LevelTracker`: `Meet` and `Prune` are the level's coming and going, `TrackTick` an update.
* `Liquidity`: `Found` and `Pruned` likewise; `Update` is what `sync_levels` copies on every tick, type and
  direction, and then the judgement. The engine knows a level by its price, so that one whose price two levels of
  the list share may change its type in the middle of a breach, and keeps depth and verdict (liquidity_engine.py:99-103).
* `LiveWorld`: `WorldTick`, `HourBar`, `QuarterBar`, `FiveBar`, each with what it judges anew,
  and nothing else: the gate may rest on a belief that is older than the spread.
* `EventDetector`: `DetectTick` is a tick's call, and one action per timeframe is a bar's call; an
  event goes through the gates and cooldowns (`Passes`) and the queue (`EmitAll`) in the order of the code.
* `Peaks`, `Tempo`, `MarketRegime`: one action, one `update`.
* `OrderStops`: `Order` is `send_order` from the distances on, `LookAtStops` the query of
  `_manage_trailing_stops` and what it asks for, `Answered` the broker's answer, `StopsRestart` what
  `start` records. Hands open positions and move stops (`HandOpens`, `HandMoves`); `Moves` is the
  market, which closes what has reached its stop or target. A registered trade keeps every tick from the
  stops (2.1), so that the daemon moves only those of positions opened by hand, of orders whose
  reply was lost, and of orders of an earlier process.
* `BrokerClock`: `Pass`, `Learn` (the offset, once per process) and `ClockRestart`.
* `SessionRanges`: `RangeTick` (with or without a payload, closing a bar or not) and `HourPasses`.

### 2.6 The servers

* `Dashboard`: a thread of the daemon composes a message (`Compose`), takes the lock, updates
  the cache (`Record`), saves (`Save`) and posts a coroutine to the loop (`Post`). A save may raise before or
  after it has truncated the file; the exception is only logged, and the process runs on with a file that is
  old or torn (api_server.py:747-750). A hydration reads the candles again and writes them into the cache under the lock
  (`CopyHistory`, api_server.py:587-592), and only its own browser is sent them. `ServeStep` is the loop: it sends, hydrates a browser that joined, drops one that left;
  a coroutine may be interrupted at every send, and blocks the loop where it finds
  the lock taken (`LoopBlocks`). `EmergencyStop` holds the lock while it joins the tick thread,
  for at most the join's timeout (`StopReturns`). `Reboot` may come at any point.
* `BridgeClient`: `Ask` leaves a future under the millisecond's key, `SendOut` puts the request
  on the wire, `Answer` may come after `GiveUp` or never, when `Disconnect` took it.
* `ExecBridge`: `CallBridge` opens a connection and sends one command, `ServeCommand` serves
  it and answers in one step (the bridge awaits nothing in between), `LoseCall` breaks the
  connection before or after that, `BrokerCloses` is the broker. `success: False` has three meanings: a retcode
  that refuses (`Refuse`), a close that was filled in part (`PartDone`: closes are sent as
  immediate-or-cancel, execution_bridge.py:179), and no word of the broker, `None` of `order_send` or an order that was only
  placed (`Unsure`), which `LateFill` may carry out after all. A caller can tell the three apart by the retcode only.
* `TradeLog`: `LogClose` and `LogOrder` append records, of which a write may fail or break off
  (`Ends`), `LogRestart` is a new process. `Shown` is `get_trades_log`.

Definitions named `Slip...` are not the code. Each is a plausible mistake in the
definition that follows it; replacing the definition by its slip makes TLC find
the property violated that `PROJECT.json` pairs it with. They show that the
properties are about the code and not about the shape of the model.

## 3. Runs

| Run | Instance | Shows |
| --- | --- | --- |
| `daemon_and_bridge` | `MCDaemonBridge.cfg`: the daemon with an answering broker and no restart, or the data bridge with two clients and two switches | the cap, the spacing, the confinement of false closes, and that `Daemon` implements `TradeDesk`; the bridge's client set is exact, a stale cache entry is on its way out, views agree with the cache |
| `daemon_faults` | `MCDaemonFaults.cfg`: bridge mode, failing calls, one restart at any point | cooldowns and directions survive all of it |
| `daemon_live` | `MCDaemonLive.cfg`: `FairSpec`, one ticket | closures are noticed, a blocked put is released, stop ends the threads |
| `engines` | `MCEngines.cfg`: fifteen components, one in each behaviour | what each of them keeps over every sequence of ticks, gaps, bars and restarts; see 3.3 |
| `servers` | `MCServers.cfg`: five servers, one in each behaviour | switches are answered and clients catch up; browsers show the cache where nothing met on the way to them; the session outlives restarts unless a save failed; an emergency stop lets the loop go on; requests get their own bars; answers are backed by the account; the log tells the closes that were written |
| `cap_under_faults`, `missed_close`, `stuck_put`, `risk_bridge`, `run_through`, `sweeps_wait`, `broadcast_breaks` | violation runs | what comments of the code say and the code does not do; see 3.2 |

`MCDaemonBridge`, `MCEngines` and `MCServers` put components into one run that share no state:
their variable `part` is chosen in the initial state and names the component that moves, while all
the others stand still in one initial state. The states of the run are the sum and not the
product of the components', and every property is checked as in a run of its component's own.

### 3.1 Bounds and why they are enough

* Tickets: two. The cap needs two tickets to be broken, a false close needs one
  ticket in the book and one in flight, and the spacing two orders. Tickets
  are interchangeable and declared symmetric in the safety runs; the liveness
  runs use one ticket and no symmetry.
* `QueueCap = 1` instead of 100: the queue is full after one event, so `Put` blocks
  and a stale event waits behind an order, which are the interesting cases.
* Cooldowns of 1 and 2 instead of 5, 15, 30 and 45 minutes keep their order where
  it matters (a loss blocks longer than a gain); in `daemon_and_bridge` the entry cooldown is
  2, so that spacing is more than one tick of the clock.
* `Side = {"BUY"}`: no guard tells the two directions apart, only whether there is
  one. The proofs hold for any set.
* One restart: it may come at every point, and a process keeps nothing of the
  one before; the theorem of the cap covers any number.
* `EntryMachine`: prices on either side of each threshold, steps of 1 (no gap), 2 and
  5 (gaps), timeout 6, twice what a trigger takes. Ages need no bound: the machine's clock is bounded by its own timeout.
* `RiskGuard`: equities within both limits, beyond one and beyond both; three days and two
  restarts.
* `DataBridge`: two clients (one that switches and one that is overtaken, connects or
  leaves; with the loop, three tasks that broadcast), two switches (so that one can
  overtake the other; one for liveness, which is about a single
  switch against the loop and the other client), three
  symbols of which one does not exist, one failure of the terminal, and two kinds,
  one that may fail and one that never does. Two kinds are enough to have one
  behind and one ahead of a task; the proofs hold for any number.
* `TickFeed`: two broker ticks, two periods of which one divides the other, a batch of three,
  a weekend, a clock of six units with staleness after two: a tick may come before, at and after the
  end of either bar, alone, with another in its millisecond, or after made-up ones.
* `TradeWatch`: nine ticks, which is what it takes to lose confidence; gaps on either side of
  the five seconds; a profit beyond the ten pips that count as given back, and a loss; a broker's clock that is behind
  the host's, and one that is ahead of it by more than the limit of stagnation. The theorem holds for any skew.
* `PriceLevels`: three levels at one price, of the three sorts that the code lists, and two
  visits. `LevelTracker`, `Liquidity`: places inside, at the edge of and outside every zone; gaps on
  either side of every pause. Attacks are counted to four, beyond the third, which changes what is told. A liquidity level
  may be of either type on every tick.
* `LiveWorld`: readings on either side of the thresholds; a base of 60. With a base below
  57 the belief in the Asian session could pass the gate, which is why `Base` is a constant.
* `EventDetector`: two active levels, two swings, four bars (a piercing one, a breaking one,
  a rising one, a distant one), a queue of one.
* `Peaks`: prices within and beyond three pips, pauses of 30 and 90 s against the waits of
  60 and 120 s. `Tempo`: thresholds reduced (3 for 20 ticks, 5 for 50) with their order
  kept; the proofs hold for any. `MarketRegime`: four bars that call for four regimes; eight
  equal bars settle it, and TLC finds that seven do not.
* `BrokerClock`: from Friday 18:00 to Monday 06:00 UTC in half hours, ticks up to
  five and a half hours old. `SessionRanges`: whole days in hours, up to eight hours without
  ticks, one unusual bid a day, all states of the two summer times.
* `OrderStops`: bids 10 pips apart; a spread within and one beyond half the stops of 8 and 9.5
  pips; budgets that end in the smallest volume, in the largest and in between; stops set by hand behind and within
  the gain of 10 pips, and beyond breakeven.
* `Dashboard`: two parts. In `dashboard` one browser (`FirstTab`), the tick thread and another, a saved kind and
  candles, two versions, one reboot: two threads are needed for broadcasts to meet. In `tabs` two
  browsers and the thread beside the tick thread, which broadcasts candles: what one browser's hydration does to the
  other. The theorems hold for any number of either. `BridgeClient`: three requests in two milliseconds, one lost connection.
  `ExecBridge`: two callers, two tickets of which one is open when the bridge starts, two calls, so that the second may meet what the
  first has left adrift. `TradeLog`: two trades, three lines, two orders.
* `DataBridge` in `servers` has one switch: liveness is about a single switch against the
  loop and the other client.
* Deadlock is not checked for the daemon, which really stops, for the bridge,
  which ends when its loop falls, and for the bounded clocks and logs of the other components.

### 3.2 Violation runs

* `cap_under_faults`: a failed positions query reads as "no position", and an
  order whose reply was lost counts as refused; the entry cooldown passes and a
  second position of the same magic number is opened (trade_executor.py:134).
* `missed_close`: after a trade is registered no tick reaches the
  closed-position check (daemon.py:1397, trade_state_engine.py:140). A restart is what
  clears it.
* `stuck_put`: `stop` ends the reader of the queue; a tick thread blocked in
  `put` is then never released (daemon.py:43).
* `risk_bridge`: in bridge mode the guard is never told the equity
  (risk_guard.py:17, trade_executor.py:68).
* `run_through`: the liquidity engine copies the direction that the price has just given
  the level, so that a major level that price runs through counts as swept as soon as
  the price is two pips beyond it (liquidity_engine.py:233).
* `sweeps_wait`: a swept level goes on pending for three bars, but only the first of them is asked for the
  reversal (`candles_since == 1`, event_detector.py:389), where the docstring has each subsequent bar checked and a
  comment has the code "keep waiting (up to 3 total)" (event_detector.py:371, 399). The counterexample is a bar that closes in
  the direction of the reversal two bars after the sweep and confirms nothing.
* `broadcast_breaks`: a client that connects or leaves while a broadcast waits for a
  slow peer ends the iteration (mt5_bridge.py:448, 454). Clients later in the set get
  nothing, and when the broadcast was `data_loop`'s, the exception ends the service.

Three more disagreements are visible in the models without a run of their
own. A position that the main thread opens between the tick thread's query and
its comparison is recorded as closed; `FalseCloseOnlyInFlight` says that nothing else
is. An order may leave inside a post-trade cooldown when the close is recorded
after the cooldown check; `CooldownRespected` says that this is the only way.
And `EntrySpacing` holds per process only: a restart forgets
the last order (`_last_execution_time` starts at `datetime.min`), which is why its
theorem assumes no restart.

### 3.3 What the properties of `engines` and `servers` say

| Property | Says |
| --- | --- |
| `EntriesFresh`, `TrapKept` | an entry comes of a fresh anomaly, at least three ticks after the last, measured from a fixed trap |
| `OrderWithinDrawdown`, `OpeningKept` | no order beyond the day's limits, which are those of the day's true opening |
| `BarsFaithful` | no tick of the tape is folded in twice, all periods hold the same ticks, a long bar holds the short ones, and bars never go back, although the stamps do |
| `TicksArrive` | a tick that the terminal has is processed, unless it hides behind its twin of the same millisecond, the engine stops or the market closes |
| `VerdictsTakeTime` | confidence fails after nine ticks at the least, and health after a long drawdown, ten pips given back or an age; the age is true time, but for what the broker's clock is ahead of the host's, and where that is beyond the limit nothing is claimed of it; a pause of the feed is no drawdown |
| `TouchesAreVisits` | touches of levels at one price are at most the price's visits, however often the levels are listed anew |
| `AttacksAccounted` | an attack has one outcome: rejected, closed for its age, or still open; and what is told of a level (a strong defence, a test, pressure) has seen the attacks it speaks of |
| `BreaksAreMinor` | no tick on which a level is of a major type finds it broken, and a level keeps its first verdict through all its breaches and types |
| `ShutOutsideHours` | the gate is shut in the rollover, and in the Asian session where that is suppressed |
| `EventsEarned` | a sweep that is reported was made by one of the three bars before, never by the bar that reports it; a level is not announced twice before it is reset |
| `ReadingsEarned` | no decay, exhaustion, impulse or compression out of a pause or of too short a memory |
| `RepeatsEarned` | rule B repeats a peak within its cooldown only in two cases |
| `RegimeSettles` | equal bars end in one regime |
| `StopsGuard` | an order is not closed by the spread it is sent in and risks no more than its budget; the daemon moves a stop only after a gain as large as a risk that the position had, and always towards the price, unless a hand gets in between |
| `PayloadTrusted` | what the dashboard is told of market hours, of sessions and of their ranges, and when it may be wrong |
| `SwitchAnswered`, `ClientsCatchUp` | liveness of the data bridge |
| `ViewsCurrent` | every browser that stays shows what the cache holds, except kinds whose broadcasts met (or met a hydration), and candles that were read again for another browser |
| `SessionKept` | a restart loses nothing of the saved kinds, unless the process died within a save or its last save failed |
| `StopAnswered` | an emergency stop gives the lock back |
| `AnswersMatch` | a request gets its own bars unless two share a millisecond |
| `AnswersBacked` | success, whole or in part, means done at the position named; a refusing retcode means never; positions that are listed were there at one moment of the call; no call is carried out twice. Nothing follows from an empty list, and from `success: False` alone only that |
| `LogsTell` | a trade is told with the outcome and the figures of its last whole record |

### 3.4 Disagreements without a run

Reading the code for the models brought up more; none of these has a run.

* Clock: an offset found on a tick between half an hour and five hours old is wrong
  and kept for the life of the process; a change of summer time makes it stale; the resumption is told
  an hour late in summer. `PayloadTrusted` says when the offset can be relied on.
* Sessions: 7 to 8 UTC belongs to Asia for ticks and to London for bars in summer; New York's
  bars have fixed hours while its ticks follow New York's clock; it is told nine hours
  long and closes after eight; no session is told for up to two hours before Sydney.
* Trade log: openings are never logged (`_log_signal` has no caller), so that entry time is exit
  time; a torn line swallows the next record; the session's summary sums all sessions.
* Stops: `_manage_trailing_stops` knows a position's first risk only as the stop that it has when the
  daemon first sees it, so that after a restart another gain than the order's risk moves it. The spread guard of
  bridge mode looks at 1.1000 and 1.1005 when it has no prices. A volume is at least the smallest, whatever the budget.
* Paper mode: simulated tickets are never found at the broker and each paper trade is
  "closed" at the next check. A close without deal history counts as BREAKEVEN.
* `LevelTracker`: the reset of the consecutive attacks never takes effect. "If pullback was large enough, reset
  consecutive attacks" (level_tracker.py:377; line 250 counts attacks "without full pullback") is asked only when an approach
  ends, of how much nearer to the level the price is than the peak; but the peak is within the outer zone of 5 pips,
  and the pullback would have to be more than 10. `CountIsTotal` proves that the two counts are the same for all zones with
  `OuterZone <= PullbackReset`. The velocity of a rejection outlives later approaches; lingering adds
  an attack every 120 s. `Peaks`: a confirmed peak that is held back restarts the cooldown.
* `TradeHealthMonitor`: a trade's age is the tick's time, by the broker's clock, less `datetime.now()` at
  registration (trade_health_monitor.py:166). With the broker two or three hours ahead of the host the age is beyond the 2700 s of
  stagnation on the first tick, and a trade that has not moved fails at once; behind it the limit comes hours late.
* `LiquidityEngine`: a level that was broken under a minor type stays broken when a major one takes its price.
* `DashboardServer`: browsers that are connected are not told of candles that are read again for another one; a save
  that fails in `json.dump` leaves a torn file, with which the next start has lost the session.
* Execution bridge: a caller that takes `success: False` for a refusal may send a second order, or keep in its book
  a position that was closed in part.
* `EventDetector`: a level is consumed although its event was suppressed; bars of all timeframes count as "next".
* `LiveWorldState`: the belief is "recomputed after any field update" by its docstring, but not by
  the volume's.
* `ReversalModel.on_tick` passes no snapshot, so that with a registered trade every tick ends in an
  exception (the run `missed_close`); `close_trade` has no caller.

## 4. Fairness

`FairSpec` has weak fairness of `TickStep` and `MainStep`: both are running Python
threads, the main loop polls its queue every second, and `TickEngine.run` makes a
tick of its own when the feed is stale (tick_engine.py:459), so the tick thread is
never starved of ticks. It has strong fairness of `TickExit`: a poll
returns a finite batch of ticks, so the thread is at its loop condition again and again,
and cannot pass it once `running` is false. Nothing is assumed of
the broker, the clock, the operator or the process. That TickEngine cannot start
without a terminal and that a broker call may hang are outside the model.

`BridgeFairSpec` of the data bridge has weak fairness of `LoopStep` and of every `HandlerStep(c)`:
asyncio runs every task that is ready, and a send that waits for its peer ends when the
peer reads or, at the latest, when the keepalive of the WebSocket library closes the
connection. Nothing is assumed of the peers: they may connect, ask and leave or not.

`TickFeed` has weak fairness of `Poll`, of `Process` and of `Mock`: `run` is a loop that polls,
works off its batch and sleeps, on a thread that nothing else blocks. `Dashboard` has weak fairness of every
thread of the daemon, of the loop, of the bounded join of the emergency stop and of the
tick thread's turn. No fairness is assumed of browsers, of the data bridge's client, of callers
of the execution bridge (which has no timeout: a call that is never answered stays) or of
the market. In the composed runs the fairness of a component holds in the behaviours in which
it is the part that moves.

## 5. Proofs

Every invariant that a passing run checks is a theorem, and so are six action
properties (`TrapKept`, `StopsGuard`, `EventsEarned`, `BreaksAreMinor`, `RepeatsEarned`, `SessionKept`) and the
refinement of `TradeDesk`.

| Theorem | Statement | Assumes |
| --- | --- | --- |
| `Daemon_proofs!TypeCorrect` | `Spec => []TypeOK` | |
| `OnePosition` | `Spec => []OnePositionPerMagic` | `Faults = FALSE` |
| `OrdersSpaced` | `Spec => []EntrySpacing` | `MaxRestarts = 0` |
| `CooldownsRespected` | `Spec => []CooldownRespected` | |
| `EntriesDirected` | `Spec => []DirectedEntries` | |
| `FalseClosesOnlyInFlight` | `Spec => []FalseCloseOnlyInFlight` | `Faults = FALSE` |
| `ImplementsTradeDesk` | `Spec => DeskImplemented` | `Faults = FALSE`, `MaxRestarts = 0` |
| `DataBridge_proofs!BridgeTypeCorrect` | `BridgeSpec => []BridgeTypeOK` | |
| `RegistryKept`, `StaleCaught`, `ViewsKept` | `BridgeSpec => []RegistryExact`, `[]StaleOnItsWay`, `[]ViewsAgree` | |
| `Trade_proofs!OrdersWithinDrawdown`, `OpeningIsKept` | `GuardSpec => []OrderWithinDrawdown`, `[]OpeningKept` | direct mode, the file can be written |
| `StopsAreGuarded` | `StopsSpec => StopsGuard` | |
| `VerdictsAreSlow` | `WatchSpec => []VerdictsTakeTime` | |
| `EntriesAreFresh`, `TrapIsKept` | `Spec => []EntriesFresh`, `Spec => TrapKept` of `EntryMachine` | |
| `Levels_proofs!MajorsDoNotBreak` | `LiquiditySpec => BreaksAreMinor` | |
| `AttacksAreAccounted` | `TrackerSpec => []AttacksAccounted` | `OuterZone <= PullbackReset` |
| `CountIsTotal` | `TrackerSpec => [](consecutive = total)` | `OuterZone <= PullbackReset` (defaults 5 and 10) |
| `TouchesAreEarned` | `LevelsSpec => []TouchesAreVisits` | |
| `Market_proofs!ReadingsAreEarned` | `TempoSpec => []ReadingsEarned` | |
| `GateShutOutsideHours` | `WorldSpec => []ShutOutsideHours` | `Base >= 57` (default 60; false below, see 3.1) |
| `EventsAreEarned` | `DetectorSpec => EventsEarned` | levels, swings and bars are finite sets |
| `RepeatsAreEarned` | `PeaksSpec => RepeatsEarned` | |
| `Engines_proofs!BarsAreFaithful` | `FeedSpec => []BarsFaithful` | |
| `ClockIsTrusted`, `RangesAreTold` | `ClockSpec => []ClockTrusted`, `RangesSpec => []RangesTold` | one weekend in the stretch of hours |
| `EnginesTypeCorrect`, `PayloadsAreTrusted` | `MCSpec => []EnginesTypeOK`, `[]PayloadTrusted` of `MCEngines` | |
| `Servers_proofs!AnswersAreBacked` | `ExecSpec => []AnswersBacked` | |
| `RequestsGetTheirOwn` | `ClientSpec => []AnswersMatch` | |
| `SessionIsKept`, `ViewsAreCurrent` | `DashSpec => SessionKept`, `[]ViewsCurrent` | |
| `LogsAreTold` | `LogSpec => []LogsTell` | |
| `ServersTypeCorrect` | `MCSpec => []ServersTypeOK` of `MCServers` | |

Each component also has a theorem `...TypeCorrect` of its type invariant; the two of the composed
specifications follow from them, because every step of a composition is a step or a stutter of
each of its components.

All hold for every value of the constants that the named assumptions of
the modules allow: any number of tickets, any queue capacity, any cooldowns, any number of
connections, symbols and kinds of message, any prices, spreads, gaps, zones and timeframes.
The bounds of the models (`MaxTime`, `MaxTape`, `MaxVisits`, `MaxTicks`, `MaxCalls` and the
others) are constants too, so that no theorem depends on how far TLC looked.

The invariants are not inductive as they stand. The strengthenings:

* `CapInv`: at `send` the strategy holds nothing. Only the main thread opens
  positions of its magic number, so nothing can come between the query and the
  order; the environment's opens are of other strategies.
* `SpacingInv`: `entryLeft` and `sinceOrder` always add up to at least the cooldown, except
  between `Send` and `Stamp`, when no event is being taken.
* `CooldownInv`: past the check, the close clocks are 0 until a `Record` step
  sets `lateClose`.
* `DirectedInv`: `tdir` can only be empty once `reset` has begun, hence after
  `Register`; then `trade` is set, `Lifecycle` kills the tick before its put, and
  no step clears `trade` within a process.
* `CloseInv`: between query and detection `open` shrinks or gains tickets that the
  book does not know, except for the one in `mticket`.
* `DeskInv` joins the first two for the refinement: `Send` is `Open` or a stutter,
  `BrokerClose` is `Close` or a stutter, `Elapse` is `Pass` or a stutter, all else stutters.
* `RegistryInv`: members that a broadcast found dead have closed sockets, so taking them
  out loses nobody, and a connection with a handler cannot connect again.
* `StaleOnItsWay` is inductive with the two before it: a switch that has not reached a kind
  vouches for it, and one that ends or falls hands the rest to `behind`.
* `ViewInv`: for an undisturbed kind there is at most one broadcast, it carries what the
  cache holds, and a client has that message or it is `Due`: still ahead of its
  hydration, or of the broadcast. A kind never fetched was never sent, and a handler
  broadcasts only in a switch.
* `BookInv` (`RiskGuard`): the file, the memory and the history agree on today's opening.
* `StopsInv` (`OrderStops`): the stop that is recorded was the position's at some time, so that it is no
  nearer to the opening than `nearest`; what is asked for was earned by a gain as large; and until
  a hand meddles, the request leaves the target alone.
* `WatchInv` (`TradeWatch`): a tick costs three points of confidence at most, and one and a half more
  only after five adverse ticks have put the trade at risk, so that nine are needed to leave the protected zone;
  and the time under water grows by `WatchGap` a tick at most. `FailingEarned` names the causes in the code's age; the theorem turns
  that into true time.
* `EntryInv`: age, direction and the tick count in each state of the machine.
* `DeepIsJudged`, `OneVerdict` (`Liquidity`): a tick that carries the price eight pips beyond a level judges it, as swept if it
  is of a major type and as one or the other if not, so that no later tick, of whatever type, finds a deep breach undecided.
* `OneOutcome` (`LevelTracker`): the open attack is neither rejected nor closed for its age. `PeakInZone`: while an approach lasts, its peak is in the zone, so that
  it cannot end nearer to the level than its peak by the pullback that would reset the count.
* `VisitsShared` (`PriceLevels`): two levels have counted no visit in common, the one
  that is open included, which neither has counted yet.
* `PeakEarned`, `TicksEarned` (`Tempo`): the peak, faded or not, is at most the fastest speed since
  the last pause, and the ticks counted since a peak were all ticks since that pause.
* `WorldInv` (`LiveWorld`): `ShutOutsideHours` needs nothing but the types. What is shown is that in a session to be avoided the
  sum of the weights cannot reach the lowest threshold, which the gate takes in a trend
  and high volatility, from the bounds of each score.
* `AgeIsKnown` (`EventDetector`): a pending sweep that is so many bars old is among those that the bar of that age has
  pierced, whatever was swept and freed since.
* `PeaksInv` (`Peaks`): while the cooldown of the told peak lasts, the peak confirmed last is the
  one told, so that the check of the confirmed one stands for the told one.
* `TapeInv` (`TickFeed`): the tape is in the order of its stamps, what was polled is not processed
  yet, and `_last_tick_time_msc` is the stamp of a tick that came through or will. A reply that the batch cuts
  short still is a prefix of what was asked for, so that no tick is passed over but for a twin.
* `StoryInv` (`TickFeed`): there is one time by which every running bar of every timeframe has
  opened; a tick moves it on or, with a stamp of the past, leaves it. That bars hold the same
  ticks follows by adding up volumes: closing a bar and adding a tick to a running one both add one.
* `ClockInv` (`BrokerClock`): an offset found on a fresh tick, or on none, is the broker's.
* `RangesInv` (`SessionRanges`): what the closed bars hold of a session's window is what was seen of it;
  a settled session is over; while hours pass without a tick the open bar is empty.
* `Numbered`, `Queued`, `SeesAccount`, `Answered` (`ExecBridge`): commands have one number each and one is
  carried out when it is taken; a caller that waits has its command on the way and has seen the
  account; what was answered is on the way no more, and adrift only if the answer says so.
* `ClientInv` (`BridgeClient`): a key holds the future of a request that was given it; a request is on
  one leg of its way; a request whose future was replaced has a twin.
* `SessionCurrent` (`Dashboard`): between saves, and unless the last one failed, the file holds the saved kinds of the cache.
* `DashViews` (`Dashboard`): nothing is shown, copied or on its way of a kind that the cache does not
  have; what is on its way to a browser that cannot miss it (`mixed`) is what the cache holds; and every such browser that is served
  has it or is `Promised` it.
* `KeptIsLast` (`TradeLog`): what is kept of a trade is its last whole record; and `OrdersCounted`: each failure
  has cost the line that tore and the one written onto it, at most.

No induction rule of the library can be used (it takes an operator as a parameter), and yet some of
these properties are about recursive functions: the volumes of all closed bars, and the
smoothed scores. `LeastElements` derives what they need from the well-foundedness of the natural numbers,
about sets instead of predicates: a set has a least element (`LeastOf`, `GreatestOf`), a set that
holds 0 and with each number the next holds all of them (`ReachesAll`), and a
recursive function over an interval exists and has its type (`Recursion`).

Only model-checked: the liveness properties (`ClosureNoticed`, `PutReleased`, `StopEndsThreads`, `TicksArrive`,
`SwitchAnswered`, `ClientsCatchUp`, `StopAnswered`; liveness under fairness is out of the
prover's reach); `RegimeSettles`, which does not hold for all readings (two regimes whose scores differ by just the
margin take turns in the model, where the code's rounding decides); and, of course, the violations.

## 6. What could come next

* `RegimeSettles` for all readings without a tie on the margin.
* `TradeWatch` and `OrderStops` against an abstract specification of an open trade, as `Daemon`
  against `TradeDesk`.
* The composition of `Daemon` with `ExecBridge` instead of a broker whose calls may fail.
* The replay loop of the backtester, once it gets past the tick after its first entry.

## 7. Not modelled

Numeric content of the analysis engines (floating-point statistics; their
results are inputs here) and the engines that keep nothing else: location, multi-timeframe
bias, velocity-displacement matrix, tick behaviour. RSI, MACD, trend and currency figures
of the live state. Data flows and world state (retrieval and formatting), alerts and analytics
(output only), configuration endpoints, news, command line and launchers, mock
feeders, scratch scripts and tests.

Without effect in this program, and left out for that reason: `entry_gate.py` has no caller but its
tests; `ExitEngine.evaluate` reads an attribute that the trade state lacks and is reached only behind the
exception of `TradeStateEngine`; `adaptive_exit.py` and `exit_stats.py` have no working caller. The
backtester raises on the tick after its first entry, and `run_bridge_backtest.py` (line
480) uses an attribute that its engine does not have.

`EventDetector` is modelled although the daemon does not construct it: it is what the
tests and the documentation describe, and its queue and gates are self-contained.

The legacy pipeline (orchestrator, receiver, market state, LLM and macro bridges,
execution in the root) is left out for another reason: `MarketStateMachine.update`
reads `signal.imbalance` (market_state.py:67), which the `SignalState` of the root's
tick_engine.py (lines 37 to 56) does not have. The receiver logs the exception of every
tick as a callback error and goes on, so no transition, query or order ever follows.
