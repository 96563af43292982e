----------------------------- MODULE BridgeClient -----------------------------
(***************************************************************************)
(* BridgeClient (mt5_bridge_client.py) and the requests that the trade log *)
(* of api_server.py sends through it.  HTTP workers leave a future under a *)
(* millisecond key and wait 1.5 s; the client's thread relays messages,    *)
(* resolves futures and reconnects.                                        *)
(***************************************************************************)
EXTENDS Naturals

CONSTANTS
  Requests,   \* historical requests of the trade log
  NoRequest,  \* no future under a key
  MaxMs,      \* bound: milliseconds
  MaxDrops    \* bound: lost connections

ASSUME RequestsAssumption == NoRequest \notin Requests
ASSUME ClientBoundAssumption == MaxMs \in Nat /\ MaxDrops \in Nat

Key == 0 .. MaxMs

VARIABLES
  ms,       \* time.time() in milliseconds
  link,     \* _ws: "down", "up"
  rpc,      \* where the worker of a request stands
  rkey,     \* its request_id
  futures,  \* _pending_historical: whose future a key holds
  sends,    \* _ws_send coroutines that have not run
  wire,     \* requests at the bridge, or their answers on the way back
  got,      \* whose bars a request was given
  charted,  \* requests whose bars were broadcast as a candle chart
  drops

clientVars == <<ms, link, rpc, rkey, futures, sends, wire, got, charted, drops>>

ClientTypeOK ==
  /\ ms \in Key
  /\ link \in {"down", "up"}
  /\ rpc \in [Requests -> {"new", "waiting", "answered", "timed out"}]
  /\ rkey \in [Requests -> Key]
  /\ futures \in [Key -> Requests \cup {NoRequest}]
  /\ sends \subseteq Requests
  /\ wire \subseteq Requests
  /\ got \in [Requests -> Requests \cup {NoRequest}]
  /\ charted \subseteq Requests
  /\ drops \in 0 .. MaxDrops

ClientInit ==
  /\ ms = 0 /\ link = "down"
  /\ rpc = [r \in Requests |-> "new"]
  /\ rkey = [r \in Requests |-> 0]
  /\ futures = [k \in Key |-> NoRequest]
  /\ sends = {} /\ wire = {} /\ charted = {} /\ drops = 0
  /\ got = [r \in Requests |-> NoRequest]

Clock ==
  /\ ms < MaxMs
  /\ ms' = ms + 1
  /\ UNCHANGED <<link, rpc, rkey, futures, sends, wire, got, charted, drops>>

(* _connect_loop                                                           *)
Reconnect ==
  /\ link = "down"
  /\ link' = "up"
  /\ UNCHANGED <<ms, rpc, rkey, futures, sends, wire, got, charted, drops>>

(* What is on the connection is lost with it; futures stay.                *)
Disconnect ==
  /\ link = "up" /\ drops < MaxDrops
  /\ link' = "down"
  /\ drops' = drops + 1
  /\ wire' = {}
  /\ UNCHANGED <<ms, rpc, rkey, futures, sends, got, charted>>

(* compute_drawdown_peak and request_historical: a future of the same      *)
(* millisecond is overwritten.                                             *)
Ask(r) ==
  /\ rpc[r] = "new" /\ link = "up"
  /\ rkey' = [rkey EXCEPT ![r] = ms]
  /\ futures' = [futures EXCEPT ![ms] = r]
  /\ sends' = sends \cup {r}
  /\ rpc' = [rpc EXCEPT ![r] = "waiting"]
  /\ UNCHANGED <<ms, link, wire, got, charted, drops>>

(* _ws_send drops a message while there is no connection.                  *)
SendOut(r) ==
  /\ r \in sends
  /\ sends' = sends \ {r}
  /\ wire' = IF link = "up" THEN wire \cup {r} ELSE wire
  /\ UNCHANGED <<ms, link, rpc, rkey, futures, got, charted, drops>>

SlipOwner(r) == CHOOSE q \in Requests : \E k \in Key : futures[k] = q

(* The future that an answer resolves.                                     *)
Owner(r) == futures[rkey[r]]

(* _handle_messages, "historical": an answer whose key has gone is taken   *)
(* for a chart that somebody asked for.                                    *)
Answer(r) ==
  /\ r \in wire
  /\ wire' = wire \ {r}
  /\ IF futures[rkey[r]] # NoRequest
     THEN /\ futures' = [futures EXCEPT ![rkey[r]] = NoRequest]
          /\ IF rpc[Owner(r)] = "waiting"
             THEN /\ rpc' = [rpc EXCEPT ![Owner(r)] = "answered"]
                  /\ got' = [got EXCEPT ![Owner(r)] = r]
             ELSE UNCHANGED <<rpc, got>>
          /\ UNCHANGED charted
     ELSE /\ charted' = charted \cup {r}
          /\ UNCHANGED <<futures, rpc, got>>
  /\ UNCHANGED <<ms, link, rkey, sends, drops>>

(* fut.result(timeout=1.5) gives up; the future stays where it is.         *)
GiveUp(r) ==
  /\ rpc[r] = "waiting"
  /\ rpc' = [rpc EXCEPT ![r] = "timed out"]
  /\ UNCHANGED <<ms, link, rkey, futures, sends, wire, got, charted, drops>>

ClientNext ==
  \/ Clock \/ Reconnect \/ Disconnect
  \/ \E r \in Requests : Ask(r) \/ SendOut(r) \/ Answer(r) \/ GiveUp(r)

ClientSpec == ClientInit /\ [][ClientNext]_clientVars

-----------------------------------------------------------------------------
Twins(r) == {q \in Requests \ {r} : rpc[q] # "new" /\ rkey[q] = rkey[r]}

(* However answers are delayed, lost with their connection or come after   *)
(* the worker has given up, a request is given its own bars, and no bars   *)
(* turn up as a chart, unless two requests fell into one millisecond.      *)
AnswersMatch ==
  /\ \A r \in Requests : got[r] \notin {r, NoRequest} => got[r] \in Twins(r)
  /\ \A r \in charted : Twins(r) # {}
=============================================================================
