------------------------------ MODULE ExecBridge ------------------------------
(***************************************************************************)
(* The execution bridge (windows/execution_bridge.py) and the client by    *)
(* which the daemon's threads call it (execution_client.py): every call    *)
(* opens a connection, sends one command and waits for the one answer,     *)
(* with no timeout.  The bridge is one asyncio loop: between taking a      *)
(* command and having its answer it awaits nothing.                        *)
(*                                                                         *)
(* Prices, volumes and profits are left out, so that a close filled in     *)
(* part leaves the position where it was; so are ping, the answer to an    *)
(* unknown action and the health page, which touch no state.               *)
(***************************************************************************)
EXTENDS Naturals

CONSTANTS
  Callers,    \* threads of the daemon that call the bridge
  Tickets,    \* tickets that the broker can hand out
  Held,       \* those of the positions that are open when the bridge starts
  Absent,     \* no ticket, no command, no answer
  MaxCalls    \* bound: calls made

ASSUME ExecAssumption ==
  MaxCalls \in Nat /\ Absent \notin Tickets /\ Held \subseteq Tickets

VARIABLES
  account,   \* tickets of the open positions
  spent,     \* tickets handed out so far
  sent,      \* commands sent and not yet served
  adrift,    \* those served without the broker's word, which it may carry out yet
  asked,     \* of each caller: the command whose answer it waits for
  answer,    \* of each caller: its last answer
  calls,     \* calls made
  done,      \* history: the calls that the broker carried out, with the ticket
  saw       \* history, of each caller: the accounts there were since it called

execVars == <<account, spent, sent, adrift, asked, answer, calls, done, saw>>

Actions == {"open", "close", "modify", "positions_get", "history_deals_get",
            "account_info"}

(* The actions that name a position.                                       *)
Named == {"close", "modify", "history_deals_get"}

Commands == [kind : Actions, ticket : Tickets \cup {Absent}, by : Callers,
             id : 1 .. MaxCalls]

ASSUME AbsentAssumption == Absent \notin Commands

(* {"success": True ..}; of {"success": False ..}, the retcode tells a      *)
(* refusal, a close that was filled in part, and no word of the broker (a   *)
(* timeout, an order only placed, or None of order_send); the last is the   *)
(* client's own bridge_connection_error.                                    *)
Verdicts == {"success", "refused", "partial", "unsure", "lost"}

ExecTypeOK ==
  /\ account \subseteq spent /\ spent \subseteq Tickets
  /\ \A c \in sent \cup adrift :
       c \in Commands /\ (c.kind \in Named => c.ticket \in Tickets)
  /\ \A p \in Callers : asked[p] # Absent => asked[p] \in Commands
  /\ \A p \in Callers :
       /\ answer[p] # Absent => /\ answer[p].verdict \in Verdicts
                                 /\ answer[p].to \in Commands
                                 /\ answer[p].tickets \subseteq Tickets
       /\ saw[p] \subseteq SUBSET Tickets
  /\ calls \in 0 .. MaxCalls /\ done \subseteq (1 .. MaxCalls) \X Tickets

ExecInit ==
  /\ account = Held /\ spent = Held /\ sent = {} /\ adrift = {}
  /\ asked = [p \in Callers |-> Absent] /\ answer = [p \in Callers |-> Absent]
  /\ calls = 0 /\ done = {} /\ saw = [p \in Callers |-> {}]

(* The account changes, under the eyes of those who wait.                  *)
Becomes(new) ==
  /\ account' = new
  /\ saw' = [p \in Callers |-> IF asked[p] # Absent THEN saw[p] \cup {new}
                                ELSE saw[p]]

(* send_execution_command: connect, send and wait.                         *)
CallBridge(p, kind, t) ==
  LET c == [kind |-> kind, ticket |-> t, by |-> p, id |-> calls + 1]
  IN  /\ asked[p] = Absent /\ calls < MaxCalls
      /\ IF kind \in Named THEN t \in spent ELSE t = Absent
      /\ calls' = calls + 1
      /\ sent' = sent \cup {c}
      /\ asked' = [asked EXCEPT ![p] = c]
      /\ answer' = [answer EXCEPT ![p] = Absent]
      /\ saw' = [saw EXCEPT ![p] = {account}]
      /\ UNCHANGED <<account, spent, adrift, done>>

Tell(p, verdict, tickets) ==
  /\ answer' = [answer EXCEPT ![p] = [verdict |-> verdict, to |-> asked[p],
                                      tickets |-> tickets]]
  /\ asked' = [asked EXCEPT ![p] = Absent]

(* The connection cannot be opened, or breaks while the caller waits: the  *)
(* command may be gone, or be served all the same.                         *)
LoseCall(p) ==
  /\ asked[p] # Absent
  /\ Tell(p, "lost", {})
  /\ sent' \in {sent, sent \ {asked[p]}}
  /\ UNCHANGED <<account, spent, adrift, calls, done, saw>>

(* handle_client sends its answer, which only a caller that still waits    *)
(* on this connection reads.                                               *)
Respond(c, verdict, tickets) ==
  IF asked[c.by] = c THEN Tell(c.by, verdict, tickets)
  ELSE UNCHANGED <<answer, asked>>

Orders == {"open", "close", "modify"}

SlipRefuse(c) ==
  /\ c.kind \in Orders \cup {"account_info"}
  /\ Respond(c, IF c.kind = "close" THEN "success" ELSE "refused", {})
  /\ UNCHANGED <<account, spent, adrift, done, saw>>

(* A retcode that refuses the order, or no account.                        *)
Refuse(c) ==
  /\ c.kind \in Orders \cup {"account_info"}
  /\ Respond(c, "refused", {})
  /\ UNCHANGED <<account, spent, adrift, done, saw>>

(* order_send returned None, or a retcode that leaves the order open.      *)
Unsure(c) ==
  /\ c.kind \in Orders
  /\ adrift' = adrift \cup {c}
  /\ Respond(c, "unsure", {})
  /\ UNCHANGED <<account, spent, done, saw>>

(* The broker carries out a command, at the position t.                    *)
Fill(c, t) ==
  /\ done' = done \cup {<<c.id, t>>}
  /\ \/ /\ c.kind = "open" /\ t \notin spent
        /\ Becomes(account \cup {t}) /\ spent' = spent \cup {t}
     \/ /\ c.kind = "close" /\ t = c.ticket /\ t \in account
        /\ Becomes(account \ {t}) /\ UNCHANGED spent
     \/ /\ c.kind = "modify" /\ t = c.ticket /\ t \in account
        /\ UNCHANGED <<account, spent, saw>>

(* An open is filled or killed, but a close may be filled in part.         *)
FillPart(c, t) ==
  /\ c.kind = "close" /\ t = c.ticket /\ t \in account
  /\ done' = done \cup {<<c.id, t>>}
  /\ UNCHANGED <<account, spent, saw>>

OrderDone(c, t) == Fill(c, t) /\ Respond(c, "success", {t}) /\ UNCHANGED adrift

PartDone(c, t) == FillPart(c, t) /\ Respond(c, "partial", {t}) /\ UNCHANGED adrift

(* What was answered without the broker's word is carried out after all.   *)
LateFill(c, t) ==
  /\ c \in adrift /\ adrift' = adrift \ {c}
  /\ Fill(c, t) \/ FillPart(c, t)
  /\ UNCHANGED <<sent, asked, answer, calls>>

(* positions_get, history_deals_get and account_info; the terminal's None  *)
(* to the first two is answered like an empty list.                        *)
Query(c) ==
  /\ \/ c.kind = "positions_get" /\ \E ts \in {account, {}} : Respond(c, "success", ts)
     \/ c.kind = "history_deals_get" /\ \E ts \in {{c.ticket}, {}} : Respond(c, "success", ts)
     \/ c.kind = "account_info" /\ Respond(c, "success", {})
  /\ UNCHANGED <<account, spent, adrift, done, saw>>

(* handle_client: one command, of whichever connection the loop turns to.  *)
ServeCommand(c) ==
  /\ c \in sent /\ sent' = sent \ {c}
  /\ \/ Refuse(c) \/ Unsure(c) \/ Query(c)
     \/ \E t \in Tickets : OrderDone(c, t) \/ PartDone(c, t)
  /\ UNCHANGED calls

(* Stop loss, take profit, or a hand at the terminal.                      *)
BrokerCloses(t) ==
  /\ t \in account
  /\ Becomes(account \ {t})
  /\ UNCHANGED <<spent, sent, adrift, asked, answer, calls, done>>

ExecNext ==
  \/ \E p \in Callers :
       \/ LoseCall(p)
       \/ \E kind \in Actions, t \in Tickets \cup {Absent} : CallBridge(p, kind, t)
  \/ \E c \in sent : ServeCommand(c)
  \/ \E c \in adrift, t \in Tickets : LateFill(c, t)
  \/ \E t \in Tickets : BrokerCloses(t)

ExecSpec == ExecInit /\ [][ExecNext]_execVars

-----------------------------------------------------------------------------
(* What the daemon may conclude from an answer, whatever the other thread, *)
(* the broker and the connection did meanwhile: an order answered with     *)
(* success, or with a part, was carried out at the position that is named; *)
(* one that a retcode refused was not and never will be; and positions     *)
(* that are listed were all there at one moment of the call.  "success":   *)
(* False is no refusal: a close may have been filled in part, and what was *)
(* left without a word, or lost, may be carried out at any time, though    *)
(* never twice.  From an empty list nothing follows.                       *)
Backed(p) ==
  LET a == answer[p]
      c == a.to
  IN  /\ c.kind \in Orders /\ a.verdict \in {"success", "partial"}
           => a.tickets # {} /\ {c.id} \X a.tickets \subseteq done
      /\ a.verdict = "refused" => /\ c \notin sent \cup adrift
                                  /\ \A t \in Tickets : <<c.id, t>> \notin done
      /\ c.kind = "positions_get" /\ a.tickets # {} => a.tickets \in saw[p]

AnswersBacked ==
  /\ \A p \in Callers : answer[p] # Absent => Backed(p)
  /\ \A d, e \in done : d[1] = e[1] => d = e
=============================================================================
