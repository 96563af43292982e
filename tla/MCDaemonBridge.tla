--------------------------- MODULE MCDaemonBridge ---------------------------
(* The daemon and the data bridge, one in each behaviour: part names the   *)
(* one that moves, and the other stands still.  They are processes that    *)
(* share no state, so that one run checks what a run of each would.        *)
EXTENDS MCDaemon, MCDataBridge

VARIABLE part

(* The part that stands still starts in one state only.                    *)
PartInit ==
  /\ part \in {"daemon", "bridge"}
  /\ Init /\ (part = "bridge" => open = {})
  /\ BridgeInit /\ (part = "daemon" => fails = 0)

PartNext ==
  /\ UNCHANGED part
  /\ \/ part = "daemon" /\ Next /\ UNCHANGED bridgeVars
     \/ part = "bridge" /\ BridgeNext /\ UNCHANGED vars

PartSpec == PartInit /\ [][PartNext]_<<part, vars, bridgeVars>>

(* No behaviour tells tickets, or connections of the bridge, apart.        *)
Interchangeable == TicketSymmetry \cup Peers
=============================================================================
