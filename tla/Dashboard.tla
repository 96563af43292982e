------------------------------ MODULE Dashboard ------------------------------
(***************************************************************************)
(* DashboardServer (api_server.py): threads of the daemon call broadcast,  *)
(* an asyncio loop serves the browsers' WebSockets, and an HTTP worker may *)
(* stop the daemon.  All of them share one lock that is not reentrant, the *)
(* cache history, which is also the session file, and the set of           *)
(* connections.                                                            *)
(*                                                                         *)
(* A message is its kind and the version of what it shows.  A coroutine of *)
(* the loop may be interrupted wherever a send waits for a slow browser;   *)
(* where it finds the lock taken, it blocks the whole loop.                *)
(***************************************************************************)
EXTENDS Naturals, Sequences

CONSTANTS
  Browsers,     \* WebSocket connections
  Threads,      \* threads that broadcast
  TickThread,   \* the one that emergency_stop joins
  LastDashKind,     \* kinds of message, 1 to LastDashKind in the order of hydration
  Saved,        \* those that are saved to the session file
  Fetched,      \* candles, which a hydration reads from the daemon again
  Torn,         \* a session file that json.load refuses
  MaxVersion,   \* bound: messages
  MaxReboots    \* bound: restarts of the process

ASSUME ThreadsAssumption == TickThread \in Threads /\ "free" \notin Threads
                            /\ "stop" \notin Threads
ASSUME DashBoundAssumption ==
  LastDashKind \in Nat \ {0} /\ MaxVersion \in Nat /\ MaxReboots \in Nat
ASSUME SavedAssumption ==
  /\ Saved \subseteq 1 .. LastDashKind
  /\ Fetched \subseteq (1 .. LastDashKind) \ Saved
  /\ Torn \notin [1 .. LastDashKind -> 0 .. MaxVersion]

Kind == 1 .. LastDashKind
Version == 0 .. MaxVersion   \* 0: nothing yet
Message == [kind : Kind, ver : Version]
NoMessage == [kind |-> 0, ver |-> 0]
Nothing == [k \in Kind |-> 0]

VARIABLES
  world,    \* how often what the messages show has changed
  lock,     \* _lock: "free", a thread's, or emergency_stop's
  cached,   \* history
  session,  \* .axon_session.json
  cpc,      \* where a thread stands in broadcast
  msg,      \* its message
  pending,  \* _async_broadcast coroutines that have not started
  sending,  \* those that have, with the targets left
  conns,    \* active_connections
  peer,     \* the browser's side of a connection
  bpc,      \* where its websocket_endpoint stands
  copied,   \* the copy of history that _hydrate_client sends
  upto,     \* next kind it sends
  shown,     \* what the browser has been sent last
  blocked,  \* the loop waits for the lock
  halt,     \* where emergency_stop stands
  ticker,   \* where the tick thread's polling loop stands
  reboots,
  \* history
  unsaved,  \* the last save of this process failed
  mixed     \* what a browser may miss: kinds whose last broadcast met another
            \* one or a hydration, or that were read for another browser

callVars == <<world, cached, session, cpc, msg>>
loopVars == <<pending, sending, conns, bpc, copied, upto, shown>>
dashVars == <<callVars, loopVars, lock, peer, blocked, halt, ticker, reboots,
              unsaved, mixed>>

DashTypeOK ==
  /\ world \in Version
  /\ lock \in Threads \cup {"free", "stop"}
  /\ cached \in [Kind -> Version]
  /\ session \in [Kind -> Version] \cup {Torn}
  /\ cpc \in [Threads -> {"idle", "call", "save", "post"}]
  /\ msg \in [Threads -> Message \cup {NoMessage}]
  /\ pending \in Seq(Message)
  /\ sending \subseteq [kind : Kind, ver : Version, left : SUBSET Browsers]
  /\ conns \subseteq Browsers
  /\ peer \in [Browsers -> {"new", "open", "closed"}]
  /\ bpc \in [Browsers -> {"new", "accepted", "joined", "hydrate", "listen",
                         "asked", "done"}]
  /\ copied \in [Browsers -> [Kind -> Version]]
  /\ upto \in [Browsers -> 1 .. LastDashKind + 1]
  /\ shown \in [Browsers -> [Kind -> Version]]
  /\ blocked \in BOOLEAN
  /\ halt \in {"no", "joining", "halted"}
  /\ ticker \in {"poll", "tick", "ended"}
  /\ reboots \in 0 .. MaxReboots
  /\ unsaved \in BOOLEAN /\ mixed \subseteq Browsers \X Kind

DashInit ==
  /\ world = 0 /\ lock = "free" /\ cached = Nothing /\ session = Nothing
  /\ cpc = [t \in Threads |-> "idle"] /\ msg = [t \in Threads |-> NoMessage]
  /\ pending = <<>> /\ sending = {} /\ conns = {}
  /\ peer = [b \in Browsers |-> "new"] /\ bpc = peer
  /\ copied = [b \in Browsers |-> Nothing] /\ shown = copied
  /\ upto = [b \in Browsers |-> 1]
  /\ blocked = FALSE /\ halt = "no" /\ ticker = "poll" /\ reboots = 0
  /\ unsaved = FALSE /\ mixed = {}

-----------------------------------------------------------------------------
(* broadcast *)

(* The caller reads what the message shows; the tick thread does so only   *)
(* within a tick.  (A tick inside the throttle interval goes no further.)  *)
Compose(t, k) ==
  /\ cpc[t] = "idle"
  /\ t = TickThread => ticker = "tick"
  /\ world < MaxVersion
  /\ world' = world + 1
  /\ msg' = [msg EXCEPT ![t] = [kind |-> k, ver |-> world']]
  /\ cpc' = [cpc EXCEPT ![t] = "call"]
  /\ UNCHANGED <<loopVars, lock, cached, session, peer, blocked, halt, ticker,
                 reboots, unsaved, mixed>>

(* A message of the kind is on its way.                                    *)
OnItsWay(k) ==
  \/ \E t \in Threads : cpc[t] \in {"save", "post"} /\ msg[t].kind = k
  \/ \E i \in 1 .. Len(pending) : pending[i].kind = k
  \/ \E m \in sending : m.kind = k

(* A message meets one of its kind, or a browser that is still to be sent  *)
(* the kind from a copy of the cache.                                      *)
Meets(k) ==
  \/ OnItsWay(k)
  \/ \E b \in Browsers : bpc[b] = "hydrate" /\ upto[b] <= k

(* Nobody to send to ends the call.                                        *)
Onwards(t) ==
  /\ cpc' = [cpc EXCEPT ![t] = IF conns = {} THEN "idle" ELSE "post"]
  /\ msg' = IF conns = {} THEN [msg EXCEPT ![t] = NoMessage] ELSE msg

(* Definitions named Slip... are not the code: each is a mistake that      *)
(* could be made in the definition after it, kept to show that a property  *)
(* would notice.                                                           *)
SlipSaves(k) == k \in Saved /\ conns = {}

Saves(k) == k \in Saved

Record(t) ==
  /\ cpc[t] = "call" /\ lock = "free"
  /\ LET k == msg[t].kind IN
     /\ cached' = [cached EXCEPT ![k] = msg[t].ver]
     /\ mixed' = IF Meets(k) THEN mixed \cup (Browsers \X {k})
                ELSE mixed \ (Browsers \X {k})
     /\ IF Saves(k)
        THEN lock' = t /\ cpc' = [cpc EXCEPT ![t] = "save"] /\ UNCHANGED msg
        ELSE UNCHANGED lock /\ Onwards(t)
  /\ UNCHANGED <<loopVars, world, session, peer, blocked, halt, ticker, reboots, unsaved>>

(* _save_session, still under the lock.  What it raises, before or after   *)
(* open("w") has truncated the file, is only logged.                       *)
Save(t) ==
  /\ cpc[t] = "save"
  /\ \/ /\ session' = [k \in Kind |-> IF k \in Saved THEN cached[k] ELSE 0]
        /\ unsaved' = FALSE
     \/ session' \in {session, Torn} /\ unsaved' = TRUE
  /\ lock' = "free"
  /\ Onwards(t)
  /\ UNCHANGED <<loopVars, world, cached, peer, blocked, halt, ticker, reboots, mixed>>

(* run_coroutine_threadsafe, after the lock has been released.             *)
Post(t) ==
  /\ cpc[t] = "post"
  /\ pending' = Append(pending, msg[t])
  /\ cpc' = [cpc EXCEPT ![t] = "idle"]
  /\ msg' = [msg EXCEPT ![t] = NoMessage]
  /\ UNCHANGED <<world, cached, session, lock, sending, conns, bpc, copied, upto,
                 shown, peer, blocked, halt, ticker, reboots, unsaved, mixed>>

-----------------------------------------------------------------------------
(* The asyncio loop *)

(* A step that needs the lock; if the loop had blocked on it, it goes on.  *)
Locked == lock = "free" /\ blocked' = FALSE

Unlocked == ~blocked /\ UNCHANGED blocked

(* A send writes at once; one to a closed socket raises, which drops the   *)
(* connection, under the lock.                                             *)
SendTo(b, k, v) ==
  \/ /\ peer[b] = "open"
     /\ shown' = [shown EXCEPT ![b][k] = v]
     /\ UNCHANGED conns
  \/ /\ peer[b] # "open"
     /\ conns' = conns \ {b}
     /\ UNCHANGED shown

InFlight(m, left) ==
  IF left = {} THEN {} ELSE {[kind |-> m.kind, ver |-> m.ver, left |-> left]}

SlipTargets == {b \in conns : bpc[b] # "hydrate"}

Targets == conns

(* A coroutine copies the set of connections and sends to the first.       *)
StartBroadcast ==
  /\ Locked
  /\ pending # <<>>
  /\ pending' = Tail(pending)
  /\ \/ /\ Targets = {}
        /\ UNCHANGED <<sending, shown, conns>>
     \/ \E b \in Targets :
          /\ SendTo(b, Head(pending).kind, Head(pending).ver)
          /\ sending' = sending \cup InFlight(Head(pending), Targets \ {b})
  /\ UNCHANGED <<callVars, lock, bpc, copied, upto, peer, halt, ticker, reboots,
                 unsaved, mixed>>

(* It sends to the next.                                                   *)
Send(m, b) ==
  /\ b \in m.left
  /\ IF peer[b] = "open" THEN Unlocked ELSE Locked
  /\ SendTo(b, m.kind, m.ver)
  /\ sending' = (sending \ {m}) \cup InFlight(m, m.left \ {b})
  /\ UNCHANGED <<callVars, lock, pending, bpc, copied, upto, peer, halt, ticker,
                 reboots, unsaved, mixed>>

Accept(b) ==
  /\ bpc[b] = "new" /\ Unlocked
  /\ peer' = [peer EXCEPT ![b] = "open"]
  /\ bpc' = [bpc EXCEPT ![b] = "accepted"]
  /\ UNCHANGED <<callVars, lock, pending, sending, conns, copied, upto, shown, halt,
                 ticker, reboots, unsaved, mixed>>

Join(b) ==
  /\ bpc[b] = "accepted" /\ Locked
  /\ conns' = conns \cup {b}
  /\ bpc' = [bpc EXCEPT ![b] = "joined"]
  /\ UNCHANGED <<callVars, lock, pending, sending, copied, upto, shown, peer, halt,
                 ticker, reboots, unsaved, mixed>>

(* Of the copy c, the next kind from i on that has a message is sent.  A   *)
(* send that raises ends the hydration, not the handler.                   *)
HydrateFrom(b, c, i) ==
  \/ \E k \in i .. LastDashKind :
       /\ peer[b] = "open"
       /\ c[k] # 0 /\ \A j \in i .. k - 1 : c[j] = 0
       /\ shown' = [shown EXCEPT ![b][k] = c[k]]
       /\ copied' = [copied EXCEPT ![b] = c]
       /\ upto' = [upto EXCEPT ![b] = k + 1]
       /\ bpc' = [bpc EXCEPT ![b] = "hydrate"]
  \/ /\ peer[b] # "open" \/ \A k \in i .. LastDashKind : c[k] = 0
     /\ copied' = [copied EXCEPT ![b] = Nothing]
     /\ upto' = [upto EXCEPT ![b] = 1]
     /\ bpc' = [bpc EXCEPT ![b] = "listen"]
     /\ UNCHANGED shown

(* _hydrate_client reads the candles again, each unless that raises, and   *)
(* copies the cache, under the lock; the other browsers are not told ...   *)
CopyHistory(b) ==
  /\ bpc[b] = "joined" /\ Locked
  /\ \E fresh \in SUBSET Fetched :
       /\ fresh # {} => world < MaxVersion
       /\ world' = IF fresh = {} THEN world ELSE world + 1
       /\ cached' = [k \in Kind |-> IF k \in fresh THEN world' ELSE cached[k]]
       /\ mixed' = {e \in mixed : ~(e[1] = b /\ e[2] \in fresh)}
                      \cup ((Browsers \ {b}) \X fresh)
                      \cup {<<b, k>> : k \in {j \in fresh : OnItsWay(j)}}
  /\ HydrateFrom(b, cached', 1)
  /\ UNCHANGED <<session, cpc, msg, lock, pending, sending, conns, peer, halt, ticker,
                 reboots, unsaved>>

(* ... and sends the copy without it.                                      *)
SendCopy(b) ==
  /\ bpc[b] = "hydrate" /\ Unlocked
  /\ HydrateFrom(b, copied[b], upto[b])
  /\ UNCHANGED <<callVars, lock, pending, sending, conns, peer, halt, ticker, reboots,
                 unsaved, mixed>>

(* A switch_pair request arrives.                                          *)
AskSwitch(b) ==
  /\ bpc[b] = "listen" /\ peer[b] = "open" /\ Unlocked
  /\ bpc' = [bpc EXCEPT ![b] = "asked"]
  /\ UNCHANGED <<callVars, lock, pending, sending, conns, copied, upto, shown, peer,
                 halt, ticker, reboots, unsaved, mixed>>

(* To the pair that the daemon trades the browser is hydrated again; of    *)
(* another pair it is only warned.                                         *)
SwitchBack(b) ==
  /\ bpc[b] = "asked" /\ Locked
  /\ \E next \in {"joined", "listen"} : bpc' = [bpc EXCEPT ![b] = next]
  /\ UNCHANGED <<callVars, lock, pending, sending, conns, copied, upto, shown, peer,
                 halt, ticker, reboots, unsaved, mixed>>

Depart(b) ==
  /\ bpc[b] = "listen" /\ peer[b] = "closed" /\ Locked
  /\ conns' = conns \ {b}
  /\ bpc' = [bpc EXCEPT ![b] = "done"]
  /\ UNCHANGED <<callVars, lock, pending, sending, copied, upto, shown, peer, halt,
                 ticker, reboots, unsaved, mixed>>

(* A coroutine asks for the lock while it is held.                         *)
LoopBlocks ==
  /\ lock # "free" /\ ~blocked
  /\ \/ pending # <<>>
     \/ \E b \in Browsers : bpc[b] \in {"accepted", "joined", "asked"}
     \/ \E b \in Browsers : bpc[b] = "listen" /\ peer[b] = "closed"
     \/ \E m \in sending : \E b \in m.left : peer[b] # "open"
  /\ blocked' = TRUE
  /\ UNCHANGED <<callVars, loopVars, lock, peer, halt, ticker, reboots, unsaved, mixed>>

CloseTab(b) ==
  /\ peer[b] = "open"
  /\ peer' = [peer EXCEPT ![b] = "closed"]
  /\ shown' = [shown EXCEPT ![b] = Nothing]
  /\ UNCHANGED <<callVars, pending, sending, conns, bpc, copied, upto, lock, blocked,
                 halt, ticker, reboots, unsaved, mixed>>

-----------------------------------------------------------------------------
(* emergency_stop: the worker holds the lock while daemon.stop joins the   *)
(* tick thread for at most 5 seconds.                                      *)

EmergencyStop ==
  /\ halt = "no" /\ lock = "free"
  /\ lock' = "stop"
  /\ halt' = "joining"
  /\ UNCHANGED <<callVars, loopVars, peer, blocked, ticker, reboots, unsaved, mixed>>

SlipJoinEnds == ticker = "ended"

(* A tick takes less than 5 seconds unless it waits for the lock.          *)
JoinEnds == ticker = "ended" \/ cpc[TickThread] = "call"

StopReturns ==
  /\ halt = "joining"
  /\ JoinEnds
  /\ lock' = "free"
  /\ halt' = "halted"
  /\ UNCHANGED <<callVars, loopVars, peer, blocked, ticker, reboots, unsaved, mixed>>

TickTurn ==
  /\ cpc[TickThread] = "idle"
  /\ \/ ticker = "poll" /\ halt = "no" /\ ticker' = "tick"
     \/ ticker = "poll" /\ halt # "no" /\ ticker' = "ended"
     \/ ticker = "tick" /\ ticker' = "poll"
  /\ UNCHANGED <<callVars, loopVars, lock, peer, blocked, halt, reboots, unsaved, mixed>>

-----------------------------------------------------------------------------
SlipLoaded(f) == Nothing

SlipUnchecked(f) == f

(* _load_session; what it fails to read is left empty.                     *)
LoadedSession(f) == IF f = Torn THEN Nothing ELSE f

(* The process dies and is started again.  open("w") has truncated the     *)
(* file of a save that it interrupts.                                      *)
Reboot ==
  /\ reboots < MaxReboots
  /\ reboots' = reboots + 1
  /\ session' \in {session} \cup (IF \E t \in Threads : cpc[t] = "save"
                                  THEN {Torn} ELSE {})
  /\ cached' = LoadedSession(session')
  /\ lock' = "free"
  /\ cpc' = [t \in Threads |-> "idle"] /\ msg' = [t \in Threads |-> NoMessage]
  /\ pending' = <<>> /\ sending' = {} /\ conns' = {}
  /\ peer' = [b \in Browsers |-> "new"] /\ bpc' = peer'
  /\ copied' = [b \in Browsers |-> Nothing] /\ shown' = copied'
  /\ upto' = [b \in Browsers |-> 1]
  /\ blocked' = FALSE /\ halt' = "no" /\ ticker' = "poll"
  /\ unsaved' = FALSE /\ mixed' = {}
  /\ UNCHANGED world

ThreadStep(t) == Record(t) \/ Save(t) \/ Post(t)

Handler(b) ==
  Join(b) \/ CopyHistory(b) \/ SendCopy(b) \/ SwitchBack(b) \/ Depart(b)

ServeStep ==
  \/ StartBroadcast
  \/ \E m \in sending : \E b \in m.left : Send(m, b)
  \/ \E b \in Browsers : Handler(b)

DashNext ==
  \/ \E t \in Threads : ThreadStep(t) \/ \E k \in Kind : Compose(t, k)
  \/ ServeStep \/ LoopBlocks
  \/ \E b \in Browsers : Accept(b) \/ AskSwitch(b) \/ CloseTab(b)
  \/ EmergencyStop \/ StopReturns \/ TickTurn \/ Reboot

DashSpec == DashInit /\ [][DashNext]_dashVars

(* Threads and loop are scheduled, and a join ends.                        *)
DashFairness ==
  /\ \A t \in Threads : WF_dashVars(ThreadStep(t))
  /\ WF_dashVars(ServeStep)
  /\ WF_dashVars(StopReturns)
  /\ WF_dashVars(TickTurn)

-----------------------------------------------------------------------------
(* With no message of a kind on its way and the kind hydrated, every       *)
(* browser that stays shows what the cache holds, whenever it joined and   *)
(* whoever joined or left meanwhile.  An older message may stay only where *)
(* a broadcast met another one or a hydration, and older candles also in   *)
(* every browser but the one that they were read again for: until the next *)
(* broadcast of the kind they differ from the cache, and nobody is told.   *)
ViewsCurrent ==
  \A k \in Kind, b \in Browsers :
    /\ <<b, k>> \notin mixed
    /\ peer[b] = "open"
    /\ bpc[b] \in {"listen", "asked"} \/ (bpc[b] = "hydrate" /\ upto[b] > k)
    /\ \A t \in Threads : ~(cpc[t] \in {"save", "post"} /\ msg[t].kind = k)
    /\ \A i \in 1 .. Len(pending) : pending[i].kind # k
    /\ \A m \in sending : ~(m.kind = k /\ b \in m.left)
    =>
    shown[b][k] = cached[k]

(* A restart loses nothing of the saved kinds, unless the process died     *)
(* within a save or the last save had failed: one that succeeds makes up   *)
(* for all that failed before, and one that fails may cost all of them,    *)
(* whichever kind it was for.                                              *)
SessionKept ==
  [][reboots' # reboots /\ ~unsaved /\ (\A t \in Threads : cpc[t] # "save")
       => \A k \in Saved : cached'[k] = cached[k]]_dashVars

(* emergency_stop answers, although the tick thread it joins may be        *)
(* waiting for the lock it holds; and the loop, blocked on that lock with  *)
(* all its connections, gets it.                                           *)
StopAnswered == (halt = "joining" ~> halt # "joining") /\ (blocked ~> ~blocked)
=============================================================================
