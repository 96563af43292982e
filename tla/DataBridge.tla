----------------------------- MODULE DataBridge -----------------------------
(***************************************************************************)
(* The MT5 data bridge (windows/mt5_bridge.py): one asyncio loop runs      *)
(* data_loop and one handle_client task per WebSocket.  They share the     *)
(* symbol, the cache latest_state and the set connected_clients, and       *)
(* may interleave wherever a send awaits a slow peer.                      *)
(*                                                                         *)
(* A step is what a task does from one await to the next.  What the cache  *)
(* and the clients hold is abstracted to the symbol it was fetched for.    *)
(***************************************************************************)
EXTENDS Naturals, FiniteSets

CONSTANTS
    Clients,      \* WebSocket connections; a peer that comes back is another one
    Loop,         \* the data_loop task
    Symbols,      \* symbols that clients ask for
    Good,         \* those for which ensure_symbol succeeds
    Home,         \* the symbol of the command line
    None,         \* an empty cache entry
    LastKind,     \* kinds of message, 1 to LastKind
    MaxSwitches,  \* bound on switch_pair requests
    MaxFails      \* bound on steps in which the terminal answers None

ASSUME LoopAssumption   == Loop \notin Clients
ASSUME SymbolAssumption == Good \subseteq Symbols /\ Home \in Good /\ None \notin Symbols
ASSUME KindAssumption   == LastKind \in Nat \ {0}
ASSUME BoundAssumption  == MaxSwitches \in Nat /\ MaxFails \in Nat

Tasks == Clients \cup {Loop}

\* In the order of the code: tick, regime, account, candles, levels.
Kinds   == 1 .. LastKind
Tick    == 1
Regime  == 2
Account == 3
Candles == 4
Levels  == 5

VARIABLES
    alive,      \* the process runs
    symbol,     \* global symbol
    latest,     \* latest_state
    connected,  \* connected_clients
    sock,       \* each connection's socket: "new", "open", "closed"
    pc,         \* where each task is
    kpos,       \* the next kind a task sends, refreshes or fetches
    cast,       \* each task's running broadcast
    view,       \* what each connected client was last sent of each kind
    switches,   \* switch_pair requests so far
    fails,      \* steps with a terminal that answers None so far
    behind,     \* history: kinds that a switch could not refresh
    disturbed   \* history: kinds whose broadcasts overlapped or broke off

bridgeVars == <<alive, symbol, latest, connected, sock, pc, kpos, cast, view,
          switches, fails, behind, disturbed>>

Unseen == [k \in Kinds |-> None]

NoCast == [kind |-> 0, sym |-> None, members |-> {}, seen |-> {}, dead |-> {}]

Broadcast == [kind : Kinds, sym : Symbols, members : SUBSET Clients,
              seen : SUBSET Clients, dead : SUBSET Clients]

Open == {c \in Clients : sock[c] = "open"}
Live == {c \in Clients : pc[c] \in {"hydrate", "listen", "switch"}}

BridgeTypeOK ==
    /\ alive \in BOOLEAN
    /\ symbol \in Symbols
    /\ latest \in [Kinds -> Symbols \cup {None}]
    /\ connected \subseteq Clients
    /\ sock \in [Clients -> {"new", "open", "closed"}]
    /\ pc \in [Tasks -> {"new", "hydrate", "listen", "switch", "done", "round", "sleep"}]
    /\ kpos \in [Tasks -> 1 .. LastKind + 1]
    /\ cast \in [Tasks -> {NoCast} \cup Broadcast]
    /\ view \in [Clients -> [Kinds -> Symbols \cup {None}]]
    /\ switches \in 0 .. MaxSwitches
    /\ fails \in 0 .. MaxFails
    /\ behind \subseteq Kinds
    /\ disturbed \subseteq Kinds

\* Kinds whose getter returns None when the terminal does not answer.
Fallible == {Tick, Account, Candles}

\* data_loop's first lines run before any client is served.
BridgeInit ==
    /\ alive = TRUE
    /\ symbol = Home
    /\ \E lost \in SUBSET (Fallible \cap Kinds) :
         /\ fails = IF lost = {} THEN 0 ELSE 1
         /\ fails \in 0 .. MaxFails
         /\ latest = [k \in Kinds |-> IF k \in lost THEN None ELSE Home]
    /\ connected = {}
    /\ sock = [c \in Clients |-> "new"]
    /\ pc = [t \in Tasks |-> IF t = Loop THEN "round" ELSE "new"]
    /\ kpos = [t \in Tasks |-> 1]
    /\ cast = [t \in Tasks |-> NoCast]
    /\ view = [c \in Clients |-> Unseen]
    /\ switches = 0
    /\ behind = {}
    /\ disturbed = {}

-----------------------------------------------------------------------------
(* broadcast *)

\* Slip: a task goes on with the symbol it read before its last await.
SlipCurrent(t) == IF cast[t] = NoCast THEN symbol' ELSE cast[t].sym

\* The symbol a task fetches for: the global one, read again for every kind.
Current(t) == symbol'

\* Every member that has not left has been written to: the iteration is over.
AllSeen(t) == cast[t].members \cap connected \subseteq cast[t].seen

\* A Python set that changed its size ends its iteration with a RuntimeError.
SameSize(t) == Cardinality(connected) = Cardinality(cast[t].members)

\* The task's broadcast, if any, is through; the loop falls out of its for.
Through(t) == cast[t] = NoCast \/ (SameSize(t) /\ AllSeen(t))

\* Slip: the survivors of the iteration replace the set.
SlipRegistry(t) == IF cast[t] = NoCast THEN connected ELSE cast[t].members \ cast[t].dead

\* connected_clients -= dead
Registry(t) == connected \ cast[t].dead

Running(t, k) == cast[t].kind = k

\* Slip: a client that is still being sent the cache is left out.
SlipWrite(c, k, s) ==
    view' = IF c \in Open /\ pc[c] # "hydrate" THEN [view EXCEPT ![c][k] = s] ELSE view

\* The message is written before the send awaits; a closed socket raises.
Write(c, k, s) ==
    view' = IF c \in Open THEN [view EXCEPT ![c][k] = s] ELSE view

\* json.dumps and the first send; with nobody registered there is none.
StartCast(t, k) ==
    /\ connected' = Registry(t)
    /\ \/ /\ Registry(t) = {}
          /\ cast' = [cast EXCEPT ![t] = NoCast]
          /\ UNCHANGED view
       \/ \E c \in Registry(t) :
            /\ cast' = [cast EXCEPT ![t] =
                          [kind |-> k, sym |-> Current(t), members |-> Registry(t),
                           seen |-> {c}, dead |-> {c} \ Open]]
            /\ Write(c, k, Current(t))
    /\ disturbed' = IF \E u \in Tasks \ {t} : Running(u, k)
                    THEN disturbed \cup {k} ELSE disturbed \ {k}

\* The next send of the for loop.
CastOn(t) ==
    /\ alive
    /\ cast[t] # NoCast
    /\ SameSize(t)
    /\ \E c \in connected \ cast[t].seen :
         /\ cast' = [cast EXCEPT ![t].seen = @ \cup {c},
                                 ![t].dead = @ \cup ({c} \ Open)]
         /\ Write(c, cast[t].kind, cast[t].sym)
    /\ UNCHANGED <<alive, symbol, latest, connected, sock, pc, kpos, switches,
                   fails, behind, disturbed>>

\* The for loop raises.
Breaks(t) ==
    /\ alive
    /\ cast[t] # NoCast
    /\ ~SameSize(t)

\* A broadcast that breaks off leaves members without the message.
Broken(t) ==
    IF AllSeen(t) THEN disturbed ELSE disturbed \cup {cast[t].kind}

-----------------------------------------------------------------------------
(* Fetching: what data_loop and a switch do with one kind after the other *)

\* Without a valid symbol MT5 has no tick and no candles; the regime and
\* the levels are then told from defaults.
Answers(k) == symbol' \in Good \/ k \in {Regime, Account, Levels}

\* Slip: data_loop sends nothing that it has sent before.
SlipPassed(t, k, down) ==
    \/ t = Loop /\ (k # Tick \/ latest[k] = symbol')
    \/ ~Answers(k)
    \/ down /\ k \in Fallible

\* A kind that is passed over: not due, no such symbol, or no answer.
Passed(t, k, down) ==
    \/ t = Loop /\ k # Tick
    \/ ~Answers(k)
    \/ down /\ k \in Fallible

Outage(down) ==
    /\ down => fails < MaxFails
    /\ fails' = IF down THEN fails + 1 ELSE fails

\* Slip: one kind too many.
SlipAhead(i) == i .. LastKind + 1

\* The kinds still to come.
Ahead(i) == i .. LastKind

\* Fetch, store and broadcast the next kind from i on that is not passed over.
Refresh(t, i, skipped) ==
    \E k \in Ahead(i), down \in BOOLEAN :
        /\ Outage(down)
        /\ \A j \in i .. k - 1 : Passed(t, j, down)
        /\ Answers(k)
        /\ latest' = [latest EXCEPT ![k] = Current(t)]
        /\ StartCast(t, k)
        /\ kpos' = [kpos EXCEPT ![t] = k + 1]
        /\ behind' = (IF t = Loop THEN skipped ELSE skipped \cup (i .. k - 1)) \ {k}

\* No kind from i on is refreshed.
NothingLeft(t, i) ==
    \E down \in BOOLEAN :
        /\ Outage(down)
        /\ \A j \in Ahead(i) : Passed(t, j, down)

-----------------------------------------------------------------------------
(* data_loop *)

LoopRefresh ==
    /\ alive
    /\ pc[Loop] = "round"
    /\ Through(Loop)
    /\ UNCHANGED symbol
    /\ Refresh(Loop, kpos[Loop], behind)
    /\ UNCHANGED <<alive, sock, pc, switches>>

\* asyncio.sleep(UPDATE_INTERVAL)
LoopSleep ==
    /\ alive
    /\ pc[Loop] = "round"
    /\ Through(Loop)
    /\ UNCHANGED symbol
    /\ NothingLeft(Loop, kpos[Loop])
    /\ connected' = Registry(Loop)
    /\ cast' = [cast EXCEPT ![Loop] = NoCast]
    /\ pc' = [pc EXCEPT ![Loop] = "sleep"]
    /\ kpos' = [kpos EXCEPT ![Loop] = 1]
    /\ UNCHANGED <<alive, latest, sock, view, switches, behind, disturbed>>

LoopWake ==
    /\ alive
    /\ pc[Loop] = "sleep"
    /\ pc' = [pc EXCEPT ![Loop] = "round"]
    /\ UNCHANGED <<alive, symbol, latest, connected, sock, kpos, cast, view,
                   switches, fails, behind, disturbed>>

\* The RuntimeError leaves gather, the server closes and the process ends.
LoopFalls ==
    /\ Breaks(Loop)
    /\ alive' = FALSE
    /\ connected' = {}
    /\ sock' = [c \in Clients |-> IF c \in Open THEN "closed" ELSE sock[c]]
    /\ pc' = [t \in Tasks |-> "done"]
    /\ cast' = [t \in Tasks |-> NoCast]
    /\ kpos' = [t \in Tasks |-> 1]
    /\ view' = [c \in Clients |-> Unseen]
    /\ disturbed' = Broken(Loop)
    /\ UNCHANGED <<symbol, latest, switches, fails, behind>>

-----------------------------------------------------------------------------
(* handle_client *)

\* Send the cached kinds from i on, one send a step; then listen.
Hydrate(c, i) ==
    \/ \E k \in i .. LastKind :
         /\ latest[k] # None
         /\ \A j \in i .. k - 1 : latest[j] = None
         /\ view' = [view EXCEPT ![c][k] = latest[k]]
         /\ kpos' = [kpos EXCEPT ![c] = k + 1]
         /\ pc' = [pc EXCEPT ![c] = "hydrate"]
    \/ /\ \A j \in i .. LastKind : latest[j] = None
       /\ pc' = [pc EXCEPT ![c] = "listen"]
       /\ kpos' = [kpos EXCEPT ![c] = 1]
       /\ UNCHANGED view

Connect(c) ==
    /\ alive
    /\ sock[c] = "new"
    /\ sock' = [sock EXCEPT ![c] = "open"]
    /\ connected' = connected \cup {c}
    /\ Hydrate(c, 1)
    /\ UNCHANGED <<alive, symbol, latest, cast, switches, fails, behind, disturbed>>

HydrateOn(c) ==
    /\ alive
    /\ pc[c] = "hydrate"
    /\ c \in Open
    /\ Hydrate(c, kpos[c])
    /\ UNCHANGED <<alive, symbol, latest, connected, sock, cast, switches, fails,
                   behind, disturbed>>

\* finally: connected_clients.discard(websocket)
Unregister(c, registry) ==
    /\ connected' = registry \ {c}
    /\ sock' = [sock EXCEPT ![c] = "closed"]
    /\ pc' = [pc EXCEPT ![c] = "done"]
    /\ kpos' = [kpos EXCEPT ![c] = 1]
    /\ view' = [view EXCEPT ![c] = Unseen]

\* A send to a closed peer raises; the async for over its messages ends.
Leave(c) ==
    /\ alive
    /\ pc[c] \in {"hydrate", "listen"}
    /\ c \notin Open
    /\ Unregister(c, connected)
    /\ UNCHANGED <<alive, symbol, latest, cast, switches, fails, behind, disturbed>>

\* A request that lacks a field is no JSONDecodeError: the handler ends.
BadRequest(c) ==
    /\ alive
    /\ pc[c] = "listen"
    /\ Unregister(c, connected)
    /\ UNCHANGED <<alive, symbol, latest, cast, switches, fails, behind, disturbed>>

\* Slip: the send to a peer that has gone waits for it.
SlipAcknowledge(c, registry) ==
    /\ c \in Open
    /\ connected' = registry
    /\ pc' = [pc EXCEPT ![c] = "listen"]
    /\ kpos' = [kpos EXCEPT ![c] = 1]
    /\ UNCHANGED <<sock, view>>

\* switch_ack, and back to the messages unless the peer has gone.
Acknowledge(c, registry) ==
    IF c \in Open
    THEN /\ connected' = registry
         /\ pc' = [pc EXCEPT ![c] = "listen"]
         /\ kpos' = [kpos EXCEPT ![c] = 1]
         /\ UNCHANGED <<sock, view>>
    ELSE Unregister(c, registry)

\* switch_pair: from here to the acknowledgement everything reads the global
\* symbol, which another handler may set meanwhile.
Switch(c, s) ==
    /\ alive
    /\ pc[c] = "listen"
    /\ switches < MaxSwitches
    /\ switches' = switches + 1
    /\ symbol' = s
    /\ \/ /\ s \in Good
          /\ Refresh(c, 1, {})
          /\ pc' = [pc EXCEPT ![c] = "switch"]
          /\ UNCHANGED sock
       \/ /\ s \in Good
          /\ NothingLeft(c, 1)
          /\ behind' = Kinds
          /\ Acknowledge(c, connected)
          /\ UNCHANGED <<latest, cast, disturbed>>
       \/ /\ s \notin Good
          /\ behind' = Kinds
          /\ Acknowledge(c, connected)
          /\ UNCHANGED <<latest, cast, fails, disturbed>>
    /\ UNCHANGED alive

SwitchOn(c) ==
    /\ alive
    /\ pc[c] = "switch"
    /\ Through(c)
    /\ UNCHANGED symbol
    /\ Refresh(c, kpos[c], behind)
    /\ UNCHANGED <<alive, sock, pc, switches>>

SwitchAck(c) ==
    /\ alive
    /\ pc[c] = "switch"
    /\ Through(c)
    /\ UNCHANGED symbol
    /\ NothingLeft(c, kpos[c])
    /\ behind' = behind \cup (kpos[c] .. LastKind)
    /\ cast' = [cast EXCEPT ![c] = NoCast]
    /\ Acknowledge(c, Registry(c))
    /\ UNCHANGED <<alive, latest, switches, disturbed>>

\* The RuntimeError ends the handler; the server closes its connection.
SwitchFalls(c) ==
    /\ Breaks(c)
    /\ Unregister(c, connected)
    /\ cast' = [cast EXCEPT ![c] = NoCast]
    /\ behind' = behind \cup (kpos[c] .. LastKind)
    /\ disturbed' = Broken(c)
    /\ UNCHANGED <<alive, symbol, latest, switches, fails>>

\* The peer hangs up, or the keepalive gives up on it.
Close(c) ==
    /\ alive
    /\ c \in Open
    /\ sock' = [sock EXCEPT ![c] = "closed"]
    /\ view' = [view EXCEPT ![c] = Unseen]
    /\ UNCHANGED <<alive, symbol, latest, connected, pc, kpos, cast, switches,
                   fails, behind, disturbed>>

LoopStep ==
    LoopRefresh \/ LoopSleep \/ LoopWake \/ LoopFalls \/ CastOn(Loop)

HandlerStep(c) ==
    HydrateOn(c) \/ Leave(c) \/ SwitchOn(c) \/ SwitchAck(c) \/ SwitchFalls(c) \/ CastOn(c)

Peer(c) ==
    Connect(c) \/ Close(c) \/ BadRequest(c) \/ \E s \in Symbols : Switch(c, s)

BridgeNext == LoopStep \/ \E c \in Clients : HandlerStep(c) \/ Peer(c)

BridgeSpec == BridgeInit /\ [][BridgeNext]_bridgeVars

BridgeFairSpec ==
    /\ BridgeSpec
    /\ WF_bridgeVars(LoopStep)
    /\ \A c \in Clients : WF_bridgeVars(HandlerStep(c))

-----------------------------------------------------------------------------
(* Properties *)

\* Whoever is registered has a handler, and a client with a handler and an open
\* socket is registered: no exception path leaks or loses a client.
RegistryExact ==
    /\ connected \subseteq Live
    /\ Live \cap Open \subseteq connected

\* A cached message of another symbol is about to be replaced by a running
\* switch, unless that kind could not be refreshed: however the switches of
\* several clients interleave, the cache ends with the symbol that is streamed.
StaleOnItsWay ==
    alive => \A k \in Kinds :
                \/ latest[k] \in {symbol, None}
                \/ k \in behind
                \/ \E c \in Clients : pc[c] = "switch" /\ kpos[c] <= k

\* Where no broadcast overlapped another or broke off, every client has last
\* seen of each kind what the cache holds, whenever it connected.
ViewsAgree ==
    \A k \in Kinds \ disturbed :
        (\A t \in Tasks : ~Running(t, k)) =>
            \A c \in Live \cap Open :
                \/ pc[c] = "hydrate" /\ kpos[c] <= k
                \/ view[c][k] = latest[k]

\* A broadcast ends when it has reached all clients that stayed ("Send JSON
\* message to all connected clients.", windows/mt5_bridge.py:448).
BroadcastReachesAll ==
    [][\A t \in Tasks :
         cast[t].kind # 0 /\ cast'[t].kind # cast[t].kind =>
             cast[t].members \cap connected \cap Open \subseteq cast[t].seen]_bridgeVars

\* A switch request is answered, or its handler ends with an exception.
SwitchAnswered ==
    \A c \in Clients : pc[c] = "switch" ~> pc[c] # "switch"

\* A client that stays gets the tick of the symbol that is streamed, even if an
\* overlapping broadcast had shown it an older one last.
ClientsCatchUp ==
    \A c \in Clients :
        alive /\ c \in Open ~>
            \/ view[c][Tick] = symbol
            \/ symbol \notin Good
            \/ c \notin Open
=============================================================================
