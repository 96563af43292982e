------------------------------ MODULE MCServers ------------------------------
(* The servers of the system, one in each behaviour: part names the one    *)
(* that moves, and the others stand still.  They are processes or threads  *)
(* that share no state, so that one run checks what a run of each would.   *)
EXTENDS DataBridge, Dashboard, BridgeClient, ExecBridge, TradeLog

CONSTANT FirstTab   \* the browser of part "dashboard"

VARIABLE part
serversVars == <<part, bridgeVars, dashVars, clientVars, execVars, logVars>>

Deal(direction, entry, exit) == [direction |-> direction, entry |-> entry, exit |-> exit]

(* A gain and a loss.                                                      *)
MCDeals == {Deal("BUY", 40, 50), Deal("SELL", 40, 46)}
MCOpenings == {[kind |-> "open", ticket |-> 1, stop |-> 45]}
MCBars == {NoBars, [high |-> 50, low |-> 36]}

(* The dashboard moves in two ways: for one browser, with every thread,    *)
(* emergency_stop and restarts; and for all browsers, with the candles     *)
(* that a thread broadcasts beside the tick thread.                        *)
Dashboards == {"dashboard", "tabs"}

WithinPart ==
  /\ part = "dashboard" => \A b \in Browsers \ {FirstTab} : peer[b] = "new"
  /\ part = "tabs" => /\ cpc[TickThread] = "idle" /\ ticker = "poll"
                      /\ halt = "no" /\ reboots = 0
                      /\ \A t \in Threads : msg[t].kind \notin Saved

(* A component that stands still starts in one state only.                 *)
MCInit ==
  /\ part \in {"bridge", "client", "exec", "log"} \cup Dashboards
  /\ BridgeInit /\ (part # "bridge" => fails = 0)
  /\ DashInit
  /\ ClientInit
  /\ ExecInit
  /\ LogInit /\ (part # "log" => signals = <<>>)

MCNext ==
  /\ UNCHANGED part
  /\ part # "bridge" => UNCHANGED bridgeVars
  /\ part \notin Dashboards => UNCHANGED dashVars
  /\ part # "client" => UNCHANGED clientVars
  /\ part # "exec" => UNCHANGED execVars
  /\ part # "log" => UNCHANGED logVars
  /\ \/ part = "bridge" /\ BridgeNext
     \/ part \in Dashboards /\ DashNext /\ WithinPart'
     \/ part = "client" /\ ClientNext
     \/ part = "exec" /\ ExecNext
     \/ part = "log" /\ LogNext

(* The fairness of BridgeFairSpec of DataBridge and DashFairness of        *)
(* Dashboard, of the part that moves.                                      *)
MCSpec ==
  /\ MCInit /\ [][MCNext]_serversVars
  /\ WF_bridgeVars(part = "bridge" /\ LoopStep)
  /\ \A c \in Clients : WF_bridgeVars(part = "bridge" /\ HandlerStep(c))
  /\ \A t \in Threads : WF_dashVars(part = "dashboard" /\ ThreadStep(t))
  /\ WF_dashVars(part = "dashboard" /\ ServeStep)
  /\ WF_dashVars(part = "dashboard" /\ StopReturns)
  /\ WF_dashVars(part = "dashboard" /\ TickTurn)

(* The variables of all components stay in their types.                    *)
ServersTypeOK ==
  BridgeTypeOK /\ DashTypeOK /\ ClientTypeOK /\ ExecTypeOK /\ LogTypeOK
=============================================================================
