------------------------------- MODULE Daemon -------------------------------
(***************************************************************************)
(* The order path of AxonDaemon: the tick thread that runs the entry state *)
(* machine and watches positions, the main thread that consumes the event  *)
(* queue and sends orders, the broker account they share, the cooldown     *)
(* clocks, the dashboard's pause and stop, and a restart of the process.   *)
(*                                                                         *)
(* A step is a stretch of code between two points where the other thread   *)
(* can change what it reads: a broker or bridge call, a shared attribute,  *)
(* a queue operation.  Prices, lot sizes and stop levels are left out; a   *)
(* market condition is a nondeterministic choice.                          *)
(***************************************************************************)
EXTENDS Integers, Sequences, FiniteSets

CONSTANTS
  Side,               \* "BUY" and "SELL", which nothing here tells apart
  NoSide,             \* the empty direction of a machine that was reset
  Ticket,             \* tickets the broker can hand out
  NoTicket,           \* "no trade registered"
  QueueCap,           \* queue.Queue(maxsize=100)
  EntryCooldown,      \* realtime_cooldown_seconds        (5 min)
  WinCooldown,        \* post-trade cooldown, profit >= 0 (15 min)
  LossCloseCooldown,  \* post-trade cooldown, profit < 0  (45 min)
  LossCooldown,       \* realtime_loss_cooldown_minutes   (30 min)
  Bridge,             \* realtime_execution_mode = "bridge"
  DryRun,             \* realtime_dry_run
  Faults,             \* may broker calls fail and replies get lost?
  MaxRestarts         \* bound on process restarts

ASSUME TicketAssumption == NoTicket \notin Ticket
ASSUME SideAssumption == NoSide \notin Side /\ "none" \notin Side
ASSUME QueueAssumption == QueueCap \in Nat \ {0}
ASSUME CooldownAssumption ==
  /\ EntryCooldown \in Nat \ {0}
  /\ WinCooldown \in Nat \ {0}
  /\ LossCloseCooldown \in Nat \ {0}
  /\ LossCooldown \in Nat
ASSUME ModeAssumption ==
  /\ Bridge \in BOOLEAN
  /\ DryRun \in BOOLEAN
  /\ Faults \in BOOLEAN
  /\ MaxRestarts \in Nat

EntryState == {"IDLE", "ANOMALY", "ARMING", "TRIGGERED", "INVALIDATED"}
Resting == {"IDLE", "INVALIDATED"}
Outcome == {"none", "gain", "loss"}

VARIABLES
  \* the broker account
  open, own, deal,
  \* attributes of AxonDaemon
  running, paused, queue, entryLeft, postLeft, lossLeft, tracked, slKnown,
  \* TradeStateEngine._state, EntryStateMachine
  trade, entry, dir, clockSet,
  \* the tick thread and its local variables
  tpc, pend, tdir, seen, closedSet,
  \* the main thread and its local variables
  mpc, mticket,
  \* history
  sinceOrder, lateClose, restarts

brokerVars == <<open, own, deal>>
clockVars == <<entryLeft, postLeft, lossLeft>>
bookVars == <<tracked, slKnown>>
entryVars == <<entry, dir, clockSet>>
tickVars == <<tpc, pend, tdir, seen, closedSet>>
mainVars == <<mpc, mticket>>
vars == <<open, own, deal, running, paused, queue, entryLeft, postLeft,
          lossLeft, tracked, slKnown, trade, entry, dir, clockSet, tpc, pend,
          tdir, seen, closedSet, mpc, mticket, sinceOrder, lateClose, restarts>>

TickPC == {"wait", "commit", "decide", "lifecycle", "put", "manage", "adopt",
           "query", "detect", "record", "finish", "done"}
MainPC == {"loop", "take", "guard", "send", "track", "register", "reset",
           "fields", "stamp", "done"}

TypeOK ==
  /\ open \in SUBSET Ticket
  /\ own \in SUBSET Ticket
  /\ deal \in [Ticket -> Outcome]
  /\ running \in BOOLEAN
  /\ paused \in BOOLEAN
  /\ queue \in Seq(Side \cup {NoSide})
  /\ Len(queue) <= QueueCap
  /\ entryLeft \in 0..EntryCooldown
  /\ postLeft \in 0..LossCloseCooldown \cup 0..WinCooldown
  /\ lossLeft \in 0..LossCooldown
  /\ tracked \in SUBSET Ticket
  /\ slKnown \in SUBSET Ticket
  /\ trade \in Ticket \cup {NoTicket}
  /\ entry \in EntryState
  /\ dir \in Side \cup {NoSide}
  /\ clockSet \in BOOLEAN
  /\ tpc \in TickPC
  /\ pend \in EntryState \cup {"keep"}
  /\ tdir \in Side \cup {NoSide, "none"}
  /\ tpc = "put" => tdir # "none"
  /\ seen \in SUBSET Ticket
  /\ closedSet \in SUBSET Ticket
  /\ mpc \in MainPC
  /\ mticket \in Ticket \cup {NoTicket}
  /\ mpc \in {"track", "register"} => mticket \in Ticket
  /\ sinceOrder \in 0..EntryCooldown
  /\ lateClose \in BOOLEAN
  /\ restarts \in 0..MaxRestarts

(* Tickets never used: not open and with no deal in the history.           *)
Fresh == {t \in Ticket : t \notin open /\ deal[t] = "none"}

(* What a positions_get call may answer: a failed call reads as empty.     *)
Replies(S) == IF Faults THEN {S, {}} ELSE {S}

(* What history_deals_get may answer for a ticket.                         *)
DealReplies(t) == IF Faults THEN {deal[t], "none"} ELSE {deal[t]}

Dec(n) == IF n > 0 THEN n - 1 ELSE 0

(* Definitions named Slip... are not the code: each is a mistake that      *)
(* could be made in the definition after it, kept to show that a property  *)
(* would notice.                                                           *)

(* A freshly constructed daemon on any account.  start() fills the book    *)
(* from the account, or from nothing if the query failed.                  *)
Init ==
  /\ open \in SUBSET Ticket
  /\ own \in {{}} \cup {{t} : t \in open}
  /\ deal = [t \in Ticket |-> "none"]
  /\ running = TRUE /\ paused = FALSE /\ queue = <<>>
  /\ entryLeft = 0 /\ postLeft = 0 /\ lossLeft = 0
  /\ tracked \in Replies(open) /\ slKnown = tracked
  /\ trade = NoTicket
  /\ entry = "IDLE" /\ dir = NoSide /\ clockSet = FALSE
  /\ tpc = "wait" /\ pend = "keep" /\ tdir = "none"
  /\ seen = {} /\ closedSet = {}
  /\ mpc = "loop" /\ mticket = NoTicket
  /\ sinceOrder = EntryCooldown /\ lateClose = FALSE
  /\ restarts = 0

-----------------------------------------------------------------------------
(* The tick thread: AxonDaemon._on_tick, called from TickEngine.           *)

(* _evaluate_idle: a sweep or a climax writes the anomaly's fields; the    *)
(* state itself is written by the transition that follows.                 *)
FindAnomaly(s) ==
  /\ s \in Resting
  /\ \E d \in Side : dir' = d
  /\ clockSet' = TRUE
  /\ pend' = "ANOMALY"

(* The transitions of _evaluate_anomaly and _evaluate_arming.              *)
Moves == {<<"ANOMALY", "ARMING">>, <<"ANOMALY", "INVALIDATED">>,
          <<"ARMING", "TRIGGERED">>, <<"ARMING", "INVALIDATED">>}

(* A trigger needs a move away from the trap in the anomaly's direction.   *)
Advances(s) ==
  {n \in EntryState : <<s, n>> \in Moves /\ (n = "TRIGGERED" => dir \in Side)}

NoAnomaly(s) ==
  /\ pend' \in Advances(s) \cup {"keep"}
  /\ UNCHANGED <<dir, clockSet>>

(* evaluate() begins: the timeout check, then the branch on the state.  An *)
(* anomaly time that reset() has zeroed has always timed out.  A batch of  *)
(* polled ticks is worked off even after a stop.                           *)
EvalBranch ==
  /\ tpc = "wait"
  /\ \E s \in {entry} \cup (IF entry \in Resting THEN {} ELSE {"INVALIDATED"}) :
       /\ (entry \notin Resting /\ ~clockSet) => s = "INVALIDATED"
       /\ entry' = s
       /\ FindAnomaly(s) \/ NoAnomaly(s)
  /\ tpc' = "commit"
  /\ UNCHANGED <<brokerVars, running, paused, queue, clockVars, bookVars,
                 trade, tdir, seen, closedSet, mainVars, sinceOrder, lateClose,
                 restarts>>

(* _transition, then is_trigger is read back from the machine.             *)
EvalCommit ==
  /\ tpc = "commit"
  /\ entry' = IF pend = "keep" THEN entry ELSE pend
  /\ pend' = "keep"
  /\ tpc' = IF entry' = "TRIGGERED" THEN "decide" ELSE "lifecycle"
  /\ UNCHANGED <<brokerVars, running, paused, queue, clockVars, bookVars,
                 trade, dir, clockSet, tdir, seen, closedSet, mainVars,
                 sinceOrder, lateClose, restarts>>

(* The EntryDecision of a triggered machine reads the anomaly direction.   *)
EvalDecide ==
  /\ tpc = "decide"
  /\ tdir' = dir
  /\ tpc' = "lifecycle"
  /\ UNCHANGED <<brokerVars, running, paused, queue, clockVars, bookVars,
                 trade, entryVars, pend, seen, closedSet, mainVars, sinceOrder,
                 lateClose, restarts>>

AfterEntry == IF DryRun THEN "manage" ELSE "wait"

(* TradeStateEngine.on_tick: with a trade registered it reads              *)
(* snapshot.velocity of the None that ReversalModel.on_tick passes, and    *)
(* TickEngine swallows the exception: the rest of the tick is lost.        *)
Lifecycle ==
  /\ tpc = "lifecycle"
  /\ IF trade # NoTicket
     THEN tpc' = "wait" /\ tdir' = "none"
     ELSE /\ tpc' = IF tdir = "none" THEN AfterEntry ELSE "put"
          /\ UNCHANGED tdir
  /\ UNCHANGED <<brokerVars, running, paused, queue, clockVars, bookVars,
                 trade, entryVars, pend, seen, closedSet, mainVars, sinceOrder,
                 lateClose, restarts>>

SlipRoom == Len(queue) <= QueueCap

(* event_queue.put blocks while the queue is full.                         *)
HasRoom == Len(queue) < QueueCap

Put ==
  /\ tpc = "put"
  /\ HasRoom
  /\ queue' = Append(queue, tdir)
  /\ tdir' = "none"
  /\ tpc' = AfterEntry
  /\ UNCHANGED <<brokerVars, running, paused, clockVars, bookVars, trade,
                 entryVars, pend, seen, closedSet, mainVars, sinceOrder,
                 lateClose, restarts>>

SlipOnSymbol == open \cap own

(* The positions both checks ask for: all on the symbol, of any strategy   *)
(* and opened by hand too.                                                 *)
OnSymbol == open

(* _manage_trailing_stops up to its positions query; the bridge path is    *)
(* throttled to one a second and skips an empty book.                      *)
Manage ==
  /\ tpc = "manage"
  /\ \/ Bridge /\ tpc' = "query" /\ UNCHANGED seen
     \/ /\ Bridge => tracked # {}
        /\ seen' \in Replies(OnSymbol)
        /\ tpc' = "adopt"
  /\ UNCHANGED <<brokerVars, running, paused, queue, clockVars, bookVars,
                 trade, entryVars, pend, tdir, closedSet, mainVars, sinceOrder,
                 lateClose, restarts>>

(* Positions without a recorded stop are taken into the book; the moves of *)
(* their stops are left out.                                               *)
Adopt ==
  /\ tpc = "adopt"
  /\ tracked' = tracked \cup (seen \ slKnown)
  /\ slKnown' = slKnown \cup seen
  /\ seen' = {}
  /\ tpc' = "query"
  /\ UNCHANGED <<brokerVars, running, paused, queue, clockVars, trade,
                 entryVars, pend, tdir, closedSet, mainVars, sinceOrder,
                 lateClose, restarts>>

(* _check_for_closed_positions up to its own positions query.              *)
CheckQuery ==
  /\ tpc = "query"
  /\ \/ /\ IF Bridge THEN tracked = {} ELSE Faults
        /\ tpc' = "wait"
        /\ UNCHANGED seen
     \/ /\ Bridge => tracked # {}
        /\ seen' \in Replies(OnSymbol)
        /\ tpc' = "detect"
  /\ UNCHANGED <<brokerVars, running, paused, queue, clockVars, bookVars,
                 trade, entryVars, pend, tdir, closedSet, mainVars, sinceOrder,
                 lateClose, restarts>>

SlipMissing == seen \ tracked

Missing == tracked \ seen

CheckDetect ==
  /\ tpc = "detect"
  /\ closedSet' = Missing
  /\ IF closedSet' = {}
     THEN tracked' = tracked \cup seen /\ seen' = {} /\ tpc' = "wait"
     ELSE tpc' = "record" /\ UNCHANGED <<tracked, seen>>
  /\ UNCHANGED <<brokerVars, running, paused, queue, clockVars, slKnown, trade,
                 entryVars, pend, tdir, mainVars, sinceOrder, lateClose,
                 restarts>>

(* One pass of the loop over the closed tickets: deal history, cooldowns,  *)
(* the book.  Without an exit deal the profit stays 0.                     *)
Record(t) ==
  /\ tpc = "record"
  /\ t \in closedSet
  /\ \E o \in DealReplies(t) :
       /\ postLeft' = IF o = "loss" THEN LossCloseCooldown ELSE WinCooldown
       /\ lossLeft' = IF o = "loss" THEN LossCooldown ELSE lossLeft
  /\ tracked' = tracked \ {t}
  /\ slKnown' = slKnown \ {t}
  /\ closedSet' = closedSet \ {t}
  /\ tpc' = IF closedSet' = {} THEN "finish" ELSE "record"
  /\ lateClose' = (lateClose \/ mpc \in {"guard", "send"})
  /\ UNCHANGED <<brokerVars, running, paused, queue, entryLeft, trade,
                 entryVars, pend, tdir, seen, mainVars, sinceOrder, restarts>>

(* The book is replaced by the tickets the query returned.                 *)
CheckFinish ==
  /\ tpc = "finish"
  /\ tracked' = seen
  /\ seen' = {}
  /\ tpc' = "wait"
  /\ UNCHANGED <<brokerVars, running, paused, queue, clockVars, slKnown, trade,
                 entryVars, pend, tdir, closedSet, mainVars, sinceOrder,
                 lateClose, restarts>>

(* TickEngine.run leaves its loop between two batches of ticks.            *)
TickExit ==
  /\ tpc = "wait" /\ ~running
  /\ tpc' = "done"
  /\ UNCHANGED <<brokerVars, running, paused, queue, clockVars, bookVars,
                 trade, entryVars, pend, tdir, seen, closedSet, mainVars,
                 sinceOrder, lateClose, restarts>>

TickStep ==
  \/ EvalBranch \/ EvalCommit \/ EvalDecide \/ Lifecycle \/ Put
  \/ Manage \/ Adopt \/ CheckQuery \/ CheckDetect
  \/ \E t \in Ticket : Record(t)
  \/ CheckFinish \/ TickExit

-----------------------------------------------------------------------------
(* The main thread: AxonDaemon._event_loop.                                *)

SlipLoops == TRUE

Loops == running

LoopTop ==
  /\ mpc = "loop"
  /\ mpc' = IF Loops THEN "take" ELSE "done"
  /\ UNCHANGED <<brokerVars, running, paused, queue, clockVars, bookVars,
                 trade, entryVars, tickVars, mticket, sinceOrder, lateClose,
                 restarts>>

SlipNoEntryClock == postLeft > 0 \/ lossLeft > 0
SlipNoCloseClock == entryLeft > 0 \/ lossLeft > 0

(* _seconds_until_ready                                                    *)
CoolingDown == entryLeft > 0 \/ postLeft > 0 \/ lossLeft > 0

SlipReady == queue # <<>> /\ ~paused

Ready == queue # <<>>

(* event_queue.get(timeout=1.0), then the pause and the cooldown checks.   *)
Take ==
  /\ mpc = "take"
  /\ \/ queue = <<>> /\ mpc' = "loop" /\ UNCHANGED <<queue, lateClose>>
     \/ /\ Ready
        /\ queue' = Tail(queue)
        /\ mpc' = IF paused \/ CoolingDown THEN "loop" ELSE "guard"
        /\ lateClose' = FALSE
  /\ UNCHANGED <<brokerVars, running, paused, clockVars, bookVars, trade,
                 entryVars, tickVars, mticket, sinceOrder, restarts>>

SlipCapReached(held) == Cardinality(held) > 1

(* "enforce cap of maximum 1 open position per strategy"                   *)
CapReached(held) == held # {}

(* execute_signal and send_order up to the order itself: the circuit       *)
(* breaker, the connection, symbol and spread checks may refuse; the cap   *)
(* of one position per magic number reads the account.                     *)
Guard ==
  /\ mpc = "guard"
  /\ \/ mpc' = "stamp"
     \/ \E held \in Replies(open \cap own) :
          mpc' = IF CapReached(held) THEN "stamp" ELSE "send"
  /\ UNCHANGED <<brokerVars, running, paused, queue, clockVars, bookVars,
                 trade, entryVars, tickVars, mticket, sinceOrder, lateClose,
                 restarts>>

Fill(t) ==
  /\ open' = open \cup {t}
  /\ own' = own \cup {t}
  /\ sinceOrder' = 0

(* The order: filled, refused, or filled with its reply lost.              *)
Send ==
  /\ mpc = "send"
  /\ \/ \E t \in Fresh : Fill(t) /\ mticket' = t /\ mpc' = "track"
     \/ mpc' = "stamp" /\ UNCHANGED <<open, own, sinceOrder, mticket>>
     \/ \E t \in Fresh : Faults /\ Fill(t) /\ mpc' = "stamp" /\ UNCHANGED mticket
  /\ UNCHANGED <<deal, running, paused, queue, clockVars, bookVars, trade,
                 entryVars, tickVars, lateClose, restarts>>

(* The filled ticket enters the book.                                      *)
Track ==
  /\ mpc = "track"
  /\ tracked' = tracked \cup {mticket}
  /\ slKnown' = slKnown \cup {mticket}
  /\ mpc' = "register"
  /\ UNCHANGED <<brokerVars, running, paused, queue, clockVars, trade,
                 entryVars, tickVars, mticket, sinceOrder, lateClose, restarts>>

SlipRegister ==
  /\ mpc = "register"
  /\ mpc' = "reset"
  /\ UNCHANGED <<brokerVars, running, paused, queue, clockVars, bookVars,
                 trade, entryVars, tickVars, mticket, sinceOrder, lateClose,
                 restarts>>

(* trade_state_engine.register_trade and the models of                     *)
(* reversal_model.register_trade.                                          *)
Register ==
  /\ mpc = "register"
  /\ trade' = mticket
  /\ mpc' = "reset"
  /\ UNCHANGED <<brokerVars, running, paused, queue, clockVars, bookVars,
                 entryVars, tickVars, mticket, sinceOrder, lateClose, restarts>>

(* EntryStateMachine.reset writes the state first ...                      *)
ResetState ==
  /\ mpc = "reset"
  /\ entry' = "IDLE"
  /\ mpc' = "fields"
  /\ UNCHANGED <<brokerVars, running, paused, queue, clockVars, bookVars,
                 trade, dir, clockSet, tickVars, mticket, sinceOrder,
                 lateClose, restarts>>

(* ... and then the anomaly's fields.                                      *)
ResetFields ==
  /\ mpc = "fields"
  /\ dir' = NoSide
  /\ clockSet' = FALSE
  /\ mpc' = "stamp"
  /\ UNCHANGED <<brokerVars, running, paused, queue, clockVars, bookVars,
                 trade, entry, tickVars, mticket, sinceOrder, lateClose,
                 restarts>>

(* _last_execution_time is set after every attempt, successful or not.     *)
Stamp ==
  /\ mpc = "stamp"
  /\ entryLeft' = EntryCooldown
  /\ mpc' = "loop"
  /\ UNCHANGED <<brokerVars, running, paused, queue, postLeft, lossLeft,
                 bookVars, trade, entryVars, tickVars, mticket, sinceOrder,
                 lateClose, restarts>>

MainStep ==
  \/ LoopTop \/ Take \/ Guard \/ Send \/ Track \/ Register
  \/ ResetState \/ ResetFields \/ Stamp

-----------------------------------------------------------------------------
(* The environment.                                                        *)

(* The wall clock: every cooldown is a difference of datetime.now().       *)
Elapse ==
  /\ CoolingDown \/ sinceOrder < EntryCooldown
  /\ entryLeft' = Dec(entryLeft)
  /\ postLeft' = Dec(postLeft)
  /\ lossLeft' = Dec(lossLeft)
  /\ sinceOrder' = IF sinceOrder < EntryCooldown THEN sinceOrder + 1 ELSE sinceOrder
  /\ UNCHANGED <<brokerVars, running, paused, queue, bookVars, trade,
                 entryVars, tickVars, mainVars, lateClose, restarts>>

(* Stop loss, take profit, stop out or a close by hand.                    *)
BrokerClose(t) ==
  /\ t \in open
  /\ open' = open \ {t}
  /\ \E o \in {"gain", "loss"} : deal' = [deal EXCEPT ![t] = o]
  /\ UNCHANGED <<own, running, paused, queue, clockVars, bookVars, trade,
                 entryVars, tickVars, mainVars, sinceOrder, lateClose, restarts>>

(* A position of another strategy or opened by hand on the same symbol.    *)
ManualOpen(t) ==
  /\ t \in Fresh
  /\ open' = open \cup {t}
  /\ UNCHANGED <<own, deal, running, paused, queue, clockVars, bookVars, trade,
                 entryVars, tickVars, mainVars, sinceOrder, lateClose, restarts>>

(* The dashboard's pause endpoint.                                         *)
TogglePause ==
  /\ running
  /\ paused' = ~paused
  /\ UNCHANGED <<brokerVars, running, queue, clockVars, bookVars, trade,
                 entryVars, tickVars, mainVars, sinceOrder, lateClose, restarts>>

(* AxonDaemon.stop, from a signal or the emergency-stop endpoint.          *)
Stop ==
  /\ running
  /\ running' = FALSE
  /\ UNCHANGED <<brokerVars, paused, queue, clockVars, bookVars, trade,
                 entryVars, tickVars, mainVars, sinceOrder, lateClose, restarts>>

(* The process ends, at any point, and a new one starts on the account.    *)
Restart ==
  /\ restarts < MaxRestarts
  /\ restarts' = restarts + 1
  /\ running' = TRUE /\ paused' = FALSE /\ queue' = <<>>
  /\ entryLeft' = 0 /\ postLeft' = 0 /\ lossLeft' = 0
  /\ tracked' \in Replies(open) /\ slKnown' = tracked'
  /\ trade' = NoTicket
  /\ entry' = "IDLE" /\ dir' = NoSide /\ clockSet' = FALSE
  /\ tpc' = "wait" /\ pend' = "keep" /\ tdir' = "none"
  /\ seen' = {} /\ closedSet' = {}
  /\ mpc' = "loop" /\ mticket' = NoTicket
  /\ lateClose' = FALSE
  /\ UNCHANGED <<brokerVars, sinceOrder>>

Environment ==
  \/ Elapse \/ TogglePause \/ Stop \/ Restart
  \/ \E t \in Ticket : BrokerClose(t) \/ ManualOpen(t)

Next == TickStep \/ MainStep \/ Environment

Spec == Init /\ [][Next]_vars

(* Both threads are live Python threads: the main loop polls every second, *)
(* and TickEngine.run makes a tick of its own when the feed is stale.  A   *)
(* batch of ticks is finite, so the tick thread gets to its loop condition *)
(* again.                                                                  *)
FairSpec ==
  Spec /\ WF_vars(TickStep) /\ WF_vars(MainStep) /\ SF_vars(TickExit)

-----------------------------------------------------------------------------
(* Safety.                                                                 *)

(* At most one position of the strategy's magic number is ever open: the   *)
(* cap of send_order, across the gap between its query and the order, and  *)
(* across restarts.                                                        *)
OnePositionPerMagic == Cardinality(open \cap own) <= 1

(* No event reaches the main thread without a direction (the event loop    *)
(* would sell): the tick thread may read the direction of a machine that   *)
(* the main thread is resetting, but then a trade is already registered    *)
(* and the tick dies before its put.                                       *)
DirectedEntries == \A i \in 1..Len(queue) : queue[i] \in Side

(* When an order may be executed, the entry cooldown has passed since the  *)
(* last executed order of this process, whatever became of that order.     *)
EntrySpacing == mpc = "send" => sinceOrder = EntryCooldown

(* An order leaves inside a post-trade or loss cooldown only if the tick   *)
(* thread recorded a close after the order's event passed the cooldown     *)
(* check.                                                                  *)
CooldownRespected ==
  mpc \in {"guard", "send"} /\ ~lateClose => postLeft = 0 /\ lossLeft = 0

(* With an answering broker, a ticket reported closed while its position   *)
(* is open can only be the one the main thread opened between the tick     *)
(* thread's query and its comparison with the book.                        *)
FalseCloseOnlyInFlight == closedSet \cap open \subseteq {mticket}

(* The account is run as TradeDesk says.                                   *)
Desk == INSTANCE TradeDesk WITH Cooldown <- EntryCooldown,
                                held <- open \cap own,
                                sinceOrder <- sinceOrder
DeskImplemented == Desk!DeskSpec

-----------------------------------------------------------------------------
(* Liveness.                                                               *)

(* While no trade is registered, a tracked position that the broker has    *)
(* closed leaves the book: _check_for_closed_positions notices it.         *)
ClosureNoticed ==
  \A t \in Ticket :
    (t \in tracked /\ t \notin open) ~>
      (t \notin tracked \/ trade # NoTicket \/ ~running)

(* A tick thread blocked on a full queue is released by the main loop,     *)
(* paused or not.                                                          *)
PutReleased == (tpc = "put" /\ running) ~> (tpc # "put" \/ ~running)

(* After stop() the main loop ends, and so does the tick thread unless it  *)
(* is blocked on the queue that nobody reads any more.                     *)
StopEndsThreads ==
  ~running ~> \/ running
             \/ /\ mpc = "done"
                /\ (tpc = "put" /\ ~HasRoom) \/ tpc = "done"

-----------------------------------------------------------------------------
(* What comments of the code say and the code does not do.                 *)

(* daemon.py:1397, "Detect closed positions": each one, trade or no trade. *)
ClosedDetected ==
  \A t \in Ticket :
    (t \in tracked /\ t \notin open) ~> (t \notin tracked \/ ~running)

(* daemon.py:43, "On shutdown: gracefully stop threads".                   *)
StopEndsTickThread == ~running ~> (running \/ tpc = "done")
=============================================================================
