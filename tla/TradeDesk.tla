----------------------------- MODULE TradeDesk -----------------------------
(***************************************************************************)
(* What the trading daemon promises about the positions of its own         *)
(* strategy, with the threads, the queue, the entry machine and the broker *)
(* queries left out: never two positions at once, and never two orders     *)
(* closer together than the entry cooldown.  Daemon.tla is shown to        *)
(* implement this specification.                                           *)
(***************************************************************************)
EXTENDS Integers

CONSTANTS
  Ticket,      \* the tickets a broker can hand out
  Cooldown     \* least time between two orders

VARIABLES
  held,        \* tickets of the strategy's open positions
  sinceOrder   \* time since the last executed order, capped at Cooldown

deskVars == <<held, sinceOrder>>

DeskTypeOK ==
  /\ held \in SUBSET Ticket
  /\ sinceOrder \in 0..Cooldown

(* A process may come up while its predecessor's position is still open.   *)
DeskInit ==
  /\ held \in {{}} \cup {{t} : t \in Ticket}
  /\ sinceOrder = Cooldown

(* MT5TradeExecutor.send_order, seen from the account.                     *)
Open(t) ==
  /\ held = {}
  /\ sinceOrder = Cooldown
  /\ held' = {t}
  /\ sinceOrder' = 0

(* Stop loss, take profit or a manual close at the broker.                 *)
Close(t) ==
  /\ t \in held
  /\ held' = held \ {t}
  /\ UNCHANGED sinceOrder

Pass ==
  /\ sinceOrder < Cooldown
  /\ sinceOrder' = sinceOrder + 1
  /\ UNCHANGED held

DeskNext == Pass \/ \E t \in Ticket : Open(t) \/ Close(t)

DeskSpec == DeskInit /\ [][DeskNext]_deskVars
=============================================================================
