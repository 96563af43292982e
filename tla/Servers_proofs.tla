--------------------------- MODULE Servers_proofs ---------------------------
(* Theorems about the servers of the system: the execution bridge, the     *)
(* client of the data bridge, the dashboard and the files of the trade     *)
(* log, and about all of them side by side.                                *)
EXTENDS MCServers, DataBridge_proofs, SequenceTheorems, FiniteSetTheorems

-----------------------------------------------------------------------------
(* ExecBridge, for any number of callers, tickets and calls. The invariant *)
(* says that no two commands share a number, that a caller waits for a     *)
(* command that is still to be served, and that a command which was        *)
(* answered will not be served again, nor carried out unless the broker    *)
(* gave no word of it.                                                     *)

Indexed ==
  /\ asked = [p \in Callers |-> asked[p]] /\ answer = [p \in Callers |-> answer[p]]
  /\ saw = [p \in Callers |-> saw[p]]

(* Numbers are given once, and what is sent or adrift was not carried out. *)
Numbered ==
  /\ \A c \in sent \cup adrift : c.id <= calls /\ \A t \in Tickets : <<c.id, t>> \notin done
  /\ \A c, d \in sent \cup adrift : c.id = d.id => c = d
  /\ sent \cap adrift = {}
  /\ \A e \in done : e[1] <= calls

Queued == \A p \in Callers : asked[p] # Absent => asked[p] \in sent /\ asked[p].by = p

SeesAccount == \A p \in Callers : asked[p] # Absent => account \in saw[p]

(* What was answered by the bridge is not in sent any more, and adrift only *)
(* if the answer says so.                                                  *)
Answered ==
  \A p \in Callers : answer[p] # Absent =>
    /\ answer[p].to.id <= calls
    /\ answer[p].verdict # "lost" => \A c \in sent : c.id # answer[p].to.id
    /\ answer[p].verdict \notin {"lost", "unsure"}
         => \A c \in adrift : c.id # answer[p].to.id

ExecInv ==
  /\ ExecTypeOK /\ Indexed /\ Numbered /\ Queued /\ SeesAccount /\ Answered
  /\ AnswersBacked

LEMMA CommandFields ==
  ASSUME NEW c \in Commands
  PROVE  c.by \in Callers /\ c.id \in 1 .. MaxCalls /\ c.id \in Nat /\ c.kind \in Actions
BY ExecAssumption DEF Commands

(* How an answer changes what the callers have.                            *)
LEMMA Responds ==
  ASSUME Indexed, NEW c \in Commands, NEW v, NEW ts, Respond(c, v, ts)
  PROVE  /\ asked' = [p \in Callers |-> asked'[p]]
         /\ answer' = [p \in Callers |-> answer'[p]]
         /\ \A q \in Callers :
              \/ answer'[q] = answer[q] /\ asked'[q] = asked[q]
              \/ /\ q = c.by /\ asked[q] = c /\ asked'[q] = Absent
                 /\ answer'[q] = [verdict |-> v, to |-> c, tickets |-> ts]
<1>1. c.by \in Callers
  BY CommandFields
<1>2. CASE asked[c.by] = c
  <2>1. /\ answer' = [answer EXCEPT ![c.by] = [verdict |-> v, to |-> c, tickets |-> ts]]
        /\ asked' = [asked EXCEPT ![c.by] = Absent]
    BY <1>2 DEF Respond, Tell
  <2>2. answer' = [p \in Callers |-> IF p = c.by THEN [verdict |-> v, to |-> c, tickets |-> ts]
                                     ELSE answer[p]]
    BY <1>1, <2>1 DEF Indexed
  <2>3. asked' = [p \in Callers |-> IF p = c.by THEN Absent ELSE asked[p]]
    BY <1>1, <2>1 DEF Indexed
  <2> QED
    BY <1>2, <2>2, <2>3
<1>3. CASE asked[c.by] # c
  BY <1>3 DEF Respond, Indexed
<1> QED
  BY <1>2, <1>3

LEMMA ExecInitHolds == ExecInit => ExecInv
<1> SUFFICES ASSUME ExecInit PROVE ExecInv
  OBVIOUS
<1>1. ExecTypeOK
  BY ExecAssumption DEF ExecInit, ExecTypeOK
<1>2. Indexed
  BY DEF ExecInit, Indexed
<1>3. Numbered /\ Queued /\ SeesAccount /\ Answered /\ AnswersBacked
  BY DEF ExecInit, Numbered, Queued, SeesAccount, Answered, AnswersBacked
<1> QED
  BY <1>1, <1>2, <1>3 DEF ExecInv

(* What the broker does when it carries out a command.                     *)
LEMMA FillShape ==
  ASSUME ExecInv, NEW c, NEW t \in Tickets, Fill(c, t) \/ FillPart(c, t)
  PROVE  /\ done' = done \cup {<<c.id, t>>} /\ account' \subseteq spent' /\ spent' \subseteq Tickets
         /\ Becomes(account') \/ UNCHANGED <<account, saw>>
         /\ c.kind # "positions_get"
<1>1. account \subseteq spent /\ spent \subseteq Tickets
  BY DEF ExecInv, ExecTypeOK
<1>2. CASE Fill(c, t)
  BY <1>1, <1>2 DEF Fill, Becomes
<1>3. CASE FillPart(c, t)
  BY <1>1, <1>3 DEF FillPart
<1> QED
  BY <1>2, <1>3

(* A command is served, carried out at the positions of new and answered;  *)
(* whatever it does to the account, those who wait see it.                 *)
LEMMA ServedKeeps ==
  ASSUME ExecInv, NEW c \in sent, sent' = sent \ {c}, calls' = calls,
         NEW v \in Verdicts \ {"lost"}, NEW ts \in SUBSET Tickets, NEW new \in SUBSET ts,
         Respond(c, v, ts),
         done' = done \cup ({c.id} \X new),
         \A t, u \in new : t = u,
         c.kind \in Orders /\ v \in {"success", "partial"} => new = ts /\ ts # {},
         v = "refused" => new = {},
         IF v = "unsure" THEN new = {} /\ adrift' = adrift \cup {c} ELSE adrift' = adrift,
         c.kind = "positions_get" => ts \in {account, {}},
         account' \subseteq spent', spent' \subseteq Tickets,
         Becomes(account') \/ UNCHANGED <<account, saw>>
  PROVE  ExecInv'
<1>1. /\ c \in Commands /\ c.by \in Callers /\ c.id \in 1 .. MaxCalls /\ c.id \in Nat
      /\ calls \in Nat /\ \A d \in sent \cup adrift : d \in Commands /\ d.id \in Nat
  BY CommandFields, ExecAssumption DEF ExecInv, ExecTypeOK
<1>2. /\ asked' = [p \in Callers |-> asked'[p]]
      /\ answer' = [p \in Callers |-> answer'[p]]
      /\ \A q \in Callers :
           \/ answer'[q] = answer[q] /\ asked'[q] = asked[q]
           \/ /\ q = c.by /\ asked[q] = c /\ asked'[q] = Absent
              /\ answer'[q] = [verdict |-> v, to |-> c, tickets |-> ts]
  BY <1>1, Responds DEF ExecInv
<1>3. \A q \in Callers : asked'[q] # Absent => asked'[q] = asked[q] /\ asked[q] # c
  <2> SUFFICES ASSUME NEW q \in Callers, asked'[q] # Absent
               PROVE  asked'[q] = asked[q] /\ asked[q] # c
    OBVIOUS
  <2>1. asked'[q] = asked[q] /\ answer'[q] = answer[q]
    BY <1>2
  <2>2. asked[q] = c => q = c.by
    BY <2>1 DEF ExecInv, Queued
  <2>3. asked[c.by] = c => asked'[c.by] = Absent
    BY <1>1 DEF Respond, Tell, ExecInv, Indexed
  <2> QED
    BY <2>1, <2>2, <2>3
<1>4. Indexed' /\ SeesAccount'
  <2>1. CASE Becomes(account')
    <3>1. saw' = [p \in Callers |-> IF asked[p] # Absent THEN saw[p] \cup {account'} ELSE saw[p]]
      BY <2>1 DEF Becomes
    <3> QED
      BY <1>2, <1>3, <3>1 DEF Indexed, SeesAccount
  <2>2. CASE UNCHANGED <<account, saw>>
    BY <1>2, <1>3, <2>2 DEF Indexed, SeesAccount, ExecInv
  <2> QED
    BY <2>1, <2>2
<1>5. \A q \in Callers : /\ saw[q] \subseteq saw'[q] /\ saw'[q] \subseteq SUBSET Tickets
                         /\ asked[q] = Absent => saw'[q] = saw[q]
  BY DEF Becomes, ExecInv, ExecTypeOK, Indexed
<1>6. ExecTypeOK'
  <2>1. \A d \in sent' \cup adrift' :
          d \in Commands /\ (d.kind \in Named => d.ticket \in Tickets)
    BY DEF ExecInv, ExecTypeOK
  <2>2. \A q \in Callers : asked'[q] # Absent => asked'[q] \in Commands
    BY <1>3 DEF ExecInv, ExecTypeOK
  <2>3. \A q \in Callers : answer'[q] # Absent =>
          /\ answer'[q].verdict \in Verdicts
          /\ answer'[q].to \in Commands /\ answer'[q].tickets \subseteq Tickets
    <3> SUFFICES ASSUME NEW q \in Callers, answer'[q] # Absent
                 PROVE  /\ answer'[q].verdict \in Verdicts
                        /\ answer'[q].to \in Commands /\ answer'[q].tickets \subseteq Tickets
      OBVIOUS
    <3>1. CASE answer'[q] = answer[q]
      BY <3>1 DEF ExecInv, ExecTypeOK
    <3>2. CASE answer'[q] = [verdict |-> v, to |-> c, tickets |-> ts]
      BY <1>1, <3>2
    <3> QED
      BY <1>2, <3>1, <3>2
  <2>4. calls' \in 0 .. MaxCalls /\ done' \subseteq (1 .. MaxCalls) \X Tickets
    BY <1>1 DEF ExecInv, ExecTypeOK
  <2> QED
    BY <1>5, <2>1, <2>2, <2>3, <2>4 DEF ExecTypeOK
<1>7. Numbered'
  <2>1. \A d \in sent' : d \in sent /\ d # c /\ d.id # c.id
    BY <1>1 DEF ExecInv, Numbered
  <2>2. \A d \in adrift : d # c /\ d.id # c.id
    BY <1>1 DEF ExecInv, Numbered
  <2>3. \A d \in adrift' : d \in adrift \/ (d = c /\ new = {})
    OBVIOUS
  <2>4. \A d \in sent' \cup adrift' : d \in sent \cup adrift
    BY <2>1, <2>3
  <2>5. ASSUME NEW d \in sent' \cup adrift', NEW t \in Tickets PROVE <<d.id, t>> \notin done'
    <3>1. <<d.id, t>> \notin done
      BY <2>4 DEF ExecInv, Numbered
    <3>2. d.id # c.id \/ new = {}
      BY <2>1, <2>2, <2>3
    <3>3. <<d.id, t>> \notin {c.id} \X new
      BY <3>2
    <3> QED
      BY <3>1, <3>3
  <2>6. \A e \in done' : e[1] <= calls
    <3>1. \A e \in {c.id} \X new : e[1] = c.id
      OBVIOUS
    <3> QED
      BY <3>1 DEF ExecInv, Numbered
  <2>7. sent' \cap adrift' = {}
    BY <2>1, <2>3 DEF ExecInv, Numbered
  <2> QED
    BY <1>1, <2>4, <2>5, <2>6, <2>7 DEF ExecInv, Numbered
<1>8. Queued'
  BY <1>3 DEF ExecInv, Queued
<1>9. Answered'
  <2> SUFFICES ASSUME NEW q \in Callers, answer'[q] # Absent
               PROVE  /\ answer'[q].to.id <= calls'
                      /\ answer'[q].verdict # "lost" => \A d \in sent' : d.id # answer'[q].to.id
                      /\ answer'[q].verdict \notin {"lost", "unsure"}
                           => \A d \in adrift' : d.id # answer'[q].to.id
    BY DEF Answered
  <2>3. \A d \in adrift' : d \in adrift \/ d = c
    OBVIOUS
  <2>1. CASE answer'[q] = answer[q]
    BY <2>1, <2>3 DEF ExecInv, Answered
  <2>2. CASE answer'[q] = [verdict |-> v, to |-> c, tickets |-> ts]
    BY <1>1, <2>2, <2>3 DEF ExecInv, Numbered
  <2> QED
    BY <1>2, <2>1, <2>2
<1>10. \A t \in Tickets : <<c.id, t>> \notin done
  BY DEF ExecInv, Numbered
<1>11. AnswersBacked'
  <2>1. \A d, e \in done' : d[1] = e[1] => d = e
    <3>1. ASSUME NEW d \in done PROVE d[1] # c.id
      <4>1. d = <<d[1], d[2]>> /\ d[2] \in Tickets
        BY DEF ExecInv, ExecTypeOK
      <4> QED
        BY <1>10, <4>1
    <3>2. \A d \in {c.id} \X new : d = <<c.id, d[2]>> /\ d[2] \in new /\ d[1] = c.id
      OBVIOUS
    <3>3. \A d, e \in done : d[1] = e[1] => d = e
      BY DEF ExecInv, AnswersBacked
    <3>4. \A d, e \in {c.id} \X new : d = e
      BY <3>2
    <3> QED
      BY <3>1, <3>2, <3>3, <3>4
  <2>2. ASSUME NEW q \in Callers, answer'[q] # Absent PROVE Backed(q)'
    <3>1. CASE answer'[q] = answer[q] /\ asked'[q] = asked[q]
      <4>1. Backed(q) /\ answer[q] # Absent /\ answer[q].to \in Commands
        BY <2>2, <3>1 DEF ExecInv, AnswersBacked, ExecTypeOK
      <4>2. answer[q].verdict = "refused" => answer[q].to.id # c.id
        BY <4>1 DEF ExecInv, Answered
      <4>3. ASSUME answer[q].verdict = "refused", NEW t \in Tickets
            PROVE  <<answer[q].to.id, t>> \notin done'
        <5>1. <<answer[q].to.id, t>> \notin done
          BY <4>1, <4>3 DEF Backed
        <5>2. <<answer[q].to.id, t>> \notin {c.id} \X new
          BY <4>2, <4>3
        <5> QED
          BY <5>1, <5>2
      <4>4. answer[q].verdict = "refused" => answer[q].to \notin sent' \cup adrift'
        BY <4>1, <4>2 DEF Backed
      <4>5. answer[q].to.kind = "positions_get" /\ answer[q].tickets # {}
              => answer[q].tickets \in saw'[q]
        BY <1>5, <4>1 DEF Backed
      <4> QED
        BY <3>1, <4>1, <4>3, <4>4, <4>5 DEF Backed
    <3>2. CASE asked[q] = c /\ answer'[q] = [verdict |-> v, to |-> c, tickets |-> ts]
      <4>1. asked[q] # Absent
        BY <1>1, <3>2, AbsentAssumption
      <4>2. c.kind = "positions_get" /\ ts # {} => ts \in saw'[q]
        BY <1>5, <3>2, <4>1 DEF ExecInv, SeesAccount
      <4>3. c.kind \in Orders /\ v \in {"success", "partial"}
              => ts # {} /\ {c.id} \X ts \subseteq done'
        OBVIOUS
      <4>4. v = "refused" => /\ c \notin sent' \cup adrift'
                             /\ \A t \in Tickets : <<c.id, t>> \notin done'
        <5>1. v = "refused" => done' = done /\ adrift' = adrift /\ sent' = sent \ {c}
          OBVIOUS
        <5>2. c \notin adrift
          BY DEF ExecInv, Numbered
        <5> QED
          BY <1>10, <5>1, <5>2
      <4> QED
        BY <3>2, <4>2, <4>3, <4>4 DEF Backed
    <3> QED
      BY <1>2, <3>1, <3>2
  <2> QED
    BY <2>1, <2>2 DEF AnswersBacked
<1> QED
  BY <1>4, <1>6, <1>7, <1>8, <1>9, <1>11 DEF ExecInv

(* handle_client: each of its outcomes.                                    *)
LEMMA ServeKeeps ==
  ASSUME ExecInv, NEW c \in sent, ServeCommand(c)
  PROVE  ExecInv'
<1>1. /\ account \subseteq spent /\ spent \subseteq Tickets /\ c \in Commands
      /\ sent' = sent \ {c} /\ calls' = calls
  BY DEF ExecInv, ExecTypeOK, ServeCommand
<1>2. CASE Refuse(c)
  <2>1. Respond(c, "refused", {}) /\ UNCHANGED <<account, spent, adrift, done, saw>>
    BY <1>2 DEF Refuse
  <2>2. c.kind # "positions_get" /\ done' = done \cup ({c.id} \X {})
    BY <1>2, <2>1 DEF Refuse, Orders
  <2>3. "refused" \in Verdicts \ {"lost"}
    BY DEF Verdicts
  <2> QED
    BY <1>1, <2>1, <2>2, <2>3, ServedKeeps
<1>3. CASE Unsure(c)
  <2>1. /\ Respond(c, "unsure", {}) /\ adrift' = adrift \cup {c} /\ c.kind \in Orders
        /\ UNCHANGED <<account, spent, done, saw>>
    BY <1>3 DEF Unsure
  <2>2. c.kind # "positions_get" /\ done' = done \cup ({c.id} \X {})
    BY <2>1 DEF Orders
  <2>3. "unsure" \in Verdicts \ {"lost"}
    BY DEF Verdicts
  <2> QED
    BY <1>1, <2>1, <2>2, <2>3, ServedKeeps
<1>4. CASE Query(c)
  <2>1. PICK ts \in SUBSET Tickets :
          /\ Respond(c, "success", ts)
          /\ c.kind = "positions_get" => ts \in {account, {}}
    <3>1. CASE c.kind = "positions_get"
      BY <1>1, <1>4, <3>1 DEF Query
    <3>2. CASE c.kind = "history_deals_get"
      <4>1. c.ticket \in Tickets
        BY <3>2 DEF ExecInv, ExecTypeOK, Named
      <4> QED
        BY <1>4, <3>2, <4>1 DEF Query
    <3>3. CASE c.kind = "account_info"
      BY <1>4, <3>3 DEF Query
    <3> QED
      BY <1>4, <3>1, <3>2, <3>3 DEF Query
  <2>2. c.kind \notin Orders /\ UNCHANGED <<account, spent, adrift, done, saw>>
    BY <1>4 DEF Query, Orders
  <2>3. "success" \in Verdicts \ {"lost"} /\ done' = done \cup ({c.id} \X {})
    BY <2>2 DEF Verdicts
  <2>4. {} \in SUBSET ts /\ "success" \notin {"unsure", "refused"}
    OBVIOUS
  <2>5. c.kind = "positions_get" => ts \in {account, {}}
    BY <2>1
  <2>6. Respond(c, "success", ts) /\ adrift' = adrift
    BY <2>1, <2>2
  <2> QED
    BY <1>1, <2>2, <2>3, <2>4, <2>5, <2>6, ServedKeeps
<1>5. ASSUME NEW t \in Tickets, OrderDone(c, t) \/ PartDone(c, t) PROVE ExecInv'
  <2>1. PICK v \in {"success", "partial"} :
          Respond(c, v, {t}) /\ adrift' = adrift /\ (Fill(c, t) \/ FillPart(c, t))
    BY <1>5 DEF OrderDone, PartDone
  <2>2. /\ done' = done \cup {<<c.id, t>>} /\ account' \subseteq spent' /\ spent' \subseteq Tickets
        /\ Becomes(account') \/ UNCHANGED <<account, saw>>
        /\ c.kind # "positions_get"
    BY <1>1, <2>1, FillShape
  <2>3. done' = done \cup ({c.id} \X {t})
    BY <2>2
  <2> QED
    BY <1>1, <2>1, <2>2, <2>3, ServedKeeps DEF Verdicts
<1> QED
  BY <1>2, <1>3, <1>4, <1>5 DEF ServeCommand

LEMMA CallKeeps ==
  ASSUME ExecInv, NEW p \in Callers, NEW kind \in Actions, NEW t \in Tickets \cup {Absent},
         CallBridge(p, kind, t)
  PROVE  ExecInv'
<1> DEFINE c == [kind |-> kind, ticket |-> t, by |-> p, id |-> calls + 1]
<1>1. /\ calls \in Nat /\ calls < MaxCalls /\ MaxCalls \in Nat
      /\ \A d \in sent \cup adrift : d \in Commands /\ d.id <= calls /\ d.id \in Nat
  BY CommandFields, ExecAssumption DEF ExecInv, ExecTypeOK, Numbered, CallBridge
<1>2. c \in Commands
  BY <1>1 DEF Commands
<1>3. /\ calls' = calls + 1 /\ sent' = sent \cup {c}
      /\ asked' = [q \in Callers |-> IF q = p THEN c ELSE asked[q]]
      /\ answer' = [q \in Callers |-> IF q = p THEN Absent ELSE answer[q]]
      /\ saw' = [q \in Callers |-> IF q = p THEN {account} ELSE saw[q]]
      /\ UNCHANGED <<account, spent, adrift, done>>
  BY DEF CallBridge, ExecInv, Indexed
<1>4. ExecTypeOK'
  <2>1. kind \in Named => t \in Tickets
    BY DEF CallBridge, ExecInv, ExecTypeOK
  <2> QED
    BY <1>1, <1>2, <1>3, <2>1 DEF ExecInv, ExecTypeOK
<1>5. Indexed' /\ SeesAccount'
  BY <1>3 DEF ExecInv, Indexed, SeesAccount
<1>6. Numbered'
  <2>1. \A e \in done : e[1] \in Nat /\ e[1] <= calls
    BY DEF ExecInv, Numbered, ExecTypeOK
  <2>2. ASSUME NEW u \in Tickets PROVE <<c.id, u>> \notin done
    BY <1>1, <2>1
  <2>3. \A d \in sent' \cup adrift' : d \in sent \cup adrift \/ d = c
    BY <1>3
  <2>4. \A d \in sent \cup adrift : d.id # c.id /\ d # c
    BY <1>1
  <2> QED
    BY <1>1, <1>3, <2>1, <2>2, <2>3, <2>4 DEF ExecInv, Numbered
<1>7. Queued'
  BY <1>3 DEF ExecInv, Queued
<1>8. Answered'
  <2>1. \A q \in Callers : answer'[q] # Absent => answer'[q] = answer[q] /\ answer[q].to \in Commands
    BY <1>3 DEF ExecInv, ExecTypeOK
  <2>2. \A q \in Callers : answer'[q] # Absent => answer'[q].to.id \in Nat
    BY <2>1, CommandFields
  <2> QED
    BY <1>1, <1>3, <2>1, <2>2 DEF ExecInv, Answered
<1>9. AnswersBacked'
  <2>1. ASSUME NEW q \in Callers, answer'[q] # Absent PROVE Backed(q)'
    <3>1. q # p /\ answer'[q] = answer[q] /\ saw'[q] = saw[q]
      BY <1>3, <2>1
    <3>2. Backed(q) /\ answer[q].to \in Commands /\ answer[q].to.id <= calls
      BY <2>1, <3>1 DEF ExecInv, AnswersBacked, ExecTypeOK, Answered
    <3>3. answer[q].to # c
      BY <1>1, <3>2
    <3> QED
      BY <1>3, <3>1, <3>2, <3>3 DEF Backed
  <2> QED
    BY <1>3, <2>1 DEF ExecInv, AnswersBacked
<1> QED
  BY <1>4, <1>5, <1>6, <1>7, <1>8, <1>9 DEF ExecInv

LEMMA LoseKeeps ==
  ASSUME ExecInv, NEW p \in Callers, LoseCall(p)
  PROVE  ExecInv'
<1> DEFINE a == [verdict |-> "lost", to |-> asked[p], tickets |-> {}]
<1>1. /\ sent' \subseteq sent /\ sent \subseteq sent' \cup {asked[p]}
      /\ asked' = [q \in Callers |-> IF q = p THEN Absent ELSE asked[q]]
      /\ answer' = [q \in Callers |-> IF q = p THEN a ELSE answer[q]]
      /\ asked[p] \in sent /\ asked[p] \in Commands
      /\ UNCHANGED <<account, spent, adrift, calls, done, saw>>
  BY DEF LoseCall, Tell, ExecInv, Indexed, Queued, ExecTypeOK
<1>2. ExecTypeOK'
  BY <1>1 DEF ExecInv, ExecTypeOK, Verdicts
<1>3. Indexed' /\ SeesAccount'
  BY <1>1 DEF ExecInv, Indexed, SeesAccount
<1>4. Numbered'
  BY <1>1 DEF ExecInv, Numbered
<1>5. Queued'
  <2>1. ASSUME NEW q \in Callers, q # p, asked[q] # Absent PROVE asked[q] # asked[p]
    BY <1>1, <2>1 DEF ExecInv, Queued, LoseCall
  <2> QED
    BY <1>1, <2>1 DEF ExecInv, Queued
<1>6. Answered'
  BY <1>1 DEF ExecInv, Answered, Numbered
<1>7. AnswersBacked'
  <2>1. ASSUME NEW q \in Callers, answer'[q] # Absent PROVE Backed(q)'
    <3>1. CASE q = p
      <4>1. answer'[q].verdict = "lost" /\ answer'[q].tickets = {}
        BY <1>1, <3>1
      <4> QED
        BY <4>1 DEF Backed
    <3>2. CASE q # p
      <4>1. answer'[q] = answer[q] /\ Backed(q)
        BY <1>1, <2>1, <3>2 DEF ExecInv, AnswersBacked
      <4> QED
        BY <1>1, <4>1 DEF Backed
    <3> QED
      BY <3>1, <3>2
  <2> QED
    BY <1>1, <2>1 DEF ExecInv, AnswersBacked
<1> QED
  BY <1>2, <1>3, <1>4, <1>5, <1>6, <1>7 DEF ExecInv

LEMMA BrokerKeeps ==
  ASSUME ExecInv, NEW t \in Tickets, BrokerCloses(t)
  PROVE  ExecInv'
<1>1. /\ account' = account \ {t}
      /\ saw' = [p \in Callers |-> IF asked[p] # Absent THEN saw[p] \cup {account'} ELSE saw[p]]
      /\ UNCHANGED <<spent, sent, adrift, asked, answer, calls, done>>
  BY DEF BrokerCloses, Becomes
<1>2. ExecTypeOK'
  BY <1>1 DEF ExecInv, ExecTypeOK
<1>3. Indexed' /\ SeesAccount' /\ Numbered' /\ Queued' /\ Answered'
  BY <1>1 DEF ExecInv, Indexed, SeesAccount, Numbered, Queued, Answered
<1>4. AnswersBacked'
  <2>1. \A p \in Callers : saw[p] \subseteq saw'[p]
    BY <1>1
  <2> QED
    BY <1>1, <2>1 DEF ExecInv, AnswersBacked, Backed
<1> QED
  BY <1>2, <1>3, <1>4 DEF ExecInv

(* What the broker gave no word of is carried out, once.                   *)
LEMMA LateKeeps ==
  ASSUME ExecInv, NEW c \in adrift, NEW t \in Tickets, LateFill(c, t)
  PROVE  ExecInv'
<1>1. /\ adrift' = adrift \ {c} /\ UNCHANGED <<sent, asked, answer, calls>>
      /\ done' = done \cup {<<c.id, t>>} /\ account' \subseteq spent' /\ spent' \subseteq Tickets
      /\ Becomes(account') \/ UNCHANGED <<account, saw>>
  BY FillShape DEF LateFill
<1>2. c \in Commands /\ c.id \in 1 .. MaxCalls /\ c.id \in Nat /\ c.id <= calls
  BY CommandFields DEF ExecInv, ExecTypeOK, Numbered
<1>3. \A q \in Callers : /\ saw[q] \subseteq saw'[q] /\ saw'[q] \subseteq SUBSET Tickets
                         /\ asked[q] # Absent => account' \in saw'[q]
  BY <1>1 DEF Becomes, ExecInv, ExecTypeOK, Indexed, SeesAccount
<1>4. saw' = [q \in Callers |-> saw'[q]]
  BY <1>1 DEF Becomes, ExecInv, Indexed
<1>5. Indexed' /\ SeesAccount' /\ Queued'
  BY <1>1, <1>3, <1>4 DEF ExecInv, Indexed, SeesAccount, Queued
<1>6. ExecTypeOK'
  <2>1. done' \subseteq (1 .. MaxCalls) \X Tickets
    BY <1>1, <1>2 DEF ExecInv, ExecTypeOK
  <2> QED
    BY <1>1, <1>3, <2>1 DEF ExecInv, ExecTypeOK
<1>7. \A d \in sent' \cup adrift' : d \in sent \cup adrift /\ d.id # c.id
  BY <1>1 DEF ExecInv, Numbered
<1>8. Numbered'
  <2>1. ASSUME NEW d \in sent' \cup adrift', NEW u \in Tickets PROVE <<d.id, u>> \notin done'
    <3>1. <<d.id, u>> \notin done /\ d.id # c.id
      BY <1>7 DEF ExecInv, Numbered
    <3> QED
      BY <1>1, <3>1
  <2>2. \A e \in done' : e[1] <= calls
    BY <1>1, <1>2 DEF ExecInv, Numbered
  <2> QED
    BY <1>1, <1>7, <2>1, <2>2 DEF ExecInv, Numbered
<1>9. Answered'
  BY <1>1 DEF ExecInv, Answered
<1>10. AnswersBacked'
  <2>1. \A d, e \in done' : d[1] = e[1] => d = e
    <3>1. ASSUME NEW d \in done PROVE d[1] # c.id
      <4>1. d = <<d[1], d[2]>> /\ d[2] \in Tickets
        BY DEF ExecInv, ExecTypeOK
      <4>2. <<c.id, d[2]>> \notin done
        BY <4>1 DEF ExecInv, Numbered
      <4> QED
        BY <4>1, <4>2
    <3>2. \A d, e \in done : d[1] = e[1] => d = e
      BY DEF ExecInv, AnswersBacked
    <3> QED
      BY <1>1, <3>1, <3>2
  <2>2. ASSUME NEW q \in Callers, answer'[q] # Absent PROVE Backed(q)'
    <3>1. Backed(q) /\ answer[q] # Absent /\ answer[q].to \in Commands /\ answer'[q] = answer[q]
      BY <1>1, <2>2 DEF ExecInv, AnswersBacked, ExecTypeOK
    <3>2. answer[q].verdict = "refused" => answer[q].to.id # c.id
      BY <3>1 DEF ExecInv, Answered
    <3>3. ASSUME answer[q].verdict = "refused", NEW u \in Tickets
          PROVE  <<answer[q].to.id, u>> \notin done'
      <4>1. <<answer[q].to.id, u>> \notin done
        BY <3>1, <3>3 DEF Backed
      <4> QED
        BY <1>1, <3>2, <3>3, <4>1
    <3> QED
      BY <1>1, <1>3, <3>1, <3>3 DEF Backed
  <2> QED
    BY <2>1, <2>2 DEF AnswersBacked
<1> QED
  BY <1>5, <1>6, <1>8, <1>9, <1>10 DEF ExecInv

LEMMA ExecInvHolds == ExecSpec => []ExecInv
<1>1. ExecInv /\ [ExecNext]_execVars => ExecInv'
  <2> SUFFICES ASSUME ExecInv, [ExecNext]_execVars PROVE ExecInv'
    OBVIOUS
  <2>1. ASSUME UNCHANGED execVars PROVE ExecInv'
    BY <2>1 DEF execVars, ExecInv, ExecTypeOK, Indexed, Numbered, Queued, SeesAccount,
                Answered, AnswersBacked, Backed
  <2> QED
    BY <2>1, ServeKeeps, CallKeeps, LoseKeeps, LateKeeps, BrokerKeeps DEF ExecNext
<1> QED
  BY <1>1, ExecInitHolds, PTL DEF ExecSpec

(* The variables of bridge and callers keep their types.                   *)
THEOREM ExecTypeCorrect == ExecSpec => []ExecTypeOK
<1>1. ExecInv => ExecTypeOK
  BY DEF ExecInv
<1> QED
  BY <1>1, ExecInvHolds, PTL

(* What an answer says is backed by the account, for any number of callers *)
(* and whatever connections break.                                         *)
THEOREM AnswersAreBacked == ExecSpec => []AnswersBacked
<1>1. ExecInv => AnswersBacked
  BY DEF ExecInv
<1> QED
  BY <1>1, ExecInvHolds, PTL

-----------------------------------------------------------------------------
(* BridgeClient. The invariant says whose future a key holds, and that a   *)
(* request is on one leg of its way.                                       *)

Asked(r) == rpc[r] # "new"

(* A key holds the future of a request that was given that key.            *)
FuturesOwned ==
  \A k \in Key : futures[k] # NoRequest => Asked(futures[k]) /\ rkey[futures[k]] = k

(* A request is on one leg of its way; bars are of requests that were made.*)
OnOneLeg == sends \cap wire = {} /\ \A r \in sends \cup wire \cup charted : Asked(r)

(* A request on its way finds its own future, unless a twin had the key.   *)
FutureOrTwin == \A r \in sends \cup wire : futures[rkey[r]] = r \/ Twins(r) # {}

GotMeansAsked == \A r \in Requests : got[r] # NoRequest => Asked(r) /\ Asked(got[r])

ClientInv ==
  ClientTypeOK /\ FuturesOwned /\ OnOneLeg /\ FutureOrTwin /\ GotMeansAsked /\ AnswersMatch

(* A request that was made keeps its key, and so its twins.                *)
LEMMA TwinsStay ==
  ASSUME ClientTypeOK,
         \A r \in Requests : Asked(r) => Asked(r)' /\ rkey'[r] = rkey[r],
         NEW r \in Requests, Asked(r), NEW q \in Twins(r)
  PROVE  q \in Twins(r)'
BY DEF Twins, Asked

LEMMA ClientInitHolds == ClientInit => ClientInv
<1> SUFFICES ASSUME ClientInit PROVE ClientInv
  OBVIOUS
<1>1. ClientTypeOK
  BY ClientBoundAssumption DEF ClientInit, ClientTypeOK, Key
<1>2. FuturesOwned /\ OnOneLeg /\ FutureOrTwin /\ GotMeansAsked /\ AnswersMatch
  BY DEF ClientInit, FuturesOwned, OnOneLeg, FutureOrTwin, GotMeansAsked, AnswersMatch
<1> QED
  BY <1>1, <1>2 DEF ClientInv

(* A request overwrites the future of the same millisecond: its own twin.  *)
LEMMA AskKeeps ==
  ASSUME ClientInv, NEW r \in Requests, Ask(r)
  PROVE  ClientInv'
<1>1. /\ ClientTypeOK /\ ms \in Key /\ ~Asked(r) /\ rpc[r] = "new"
      /\ rkey' = [rkey EXCEPT ![r] = ms] /\ futures' = [futures EXCEPT ![ms] = r]
      /\ sends' = sends \cup {r} /\ rpc' = [rpc EXCEPT ![r] = "waiting"]
      /\ UNCHANGED <<ms, link, wire, got, charted, drops>>
  BY DEF Ask, ClientInv, ClientTypeOK, Asked
<1>2. ClientTypeOK'
  BY <1>1 DEF ClientTypeOK
<1>3. \A q \in Requests : Asked(q) => q # r /\ Asked(q)' /\ rkey'[q] = rkey[q]
  BY <1>1 DEF Asked, ClientTypeOK
<1>4. Asked(r)' /\ rkey'[r] = ms
  BY <1>1 DEF Asked, ClientTypeOK
<1>5. FuturesOwned'
  <2> SUFFICES ASSUME NEW k \in Key, futures'[k] # NoRequest
               PROVE  Asked(futures[k])' /\ rkey'[futures'[k]] = k
    BY DEF FuturesOwned
  <2>1. CASE k = ms
    BY <1>1, <1>4, <2>1 DEF ClientTypeOK
  <2>2. CASE k # ms
    <3>1. futures'[k] = futures[k] /\ futures[k] \in Requests
      BY <1>1, <2>2 DEF ClientTypeOK
    <3> QED
      BY <1>3, <3>1 DEF ClientInv, FuturesOwned
  <2> QED
    BY <2>1, <2>2
<1>6. OnOneLeg'
  BY <1>1, <1>3, <1>4 DEF OnOneLeg, ClientInv, ClientTypeOK
<1>7. FutureOrTwin'
  <2> SUFFICES ASSUME NEW q \in sends' \cup wire'
               PROVE  futures'[rkey'[q]] = q \/ Twins(q)' # {}
    BY DEF FutureOrTwin
  <2>1. CASE q = r
    BY <1>1, <1>4, <2>1 DEF ClientTypeOK
  <2>2. CASE q # r
    <3>1. q \in sends \cup wire /\ q \in Requests /\ Asked(q)
      BY <1>1, <2>2 DEF ClientInv, OnOneLeg, ClientTypeOK
    <3>2. CASE Twins(q) # {}
      BY <1>1, <1>3, <3>1, <3>2, TwinsStay
    <3>3. CASE futures[rkey[q]] = q /\ rkey[q] # ms
      BY <1>1, <1>3, <3>1, <3>3 DEF ClientTypeOK
    <3>4. CASE rkey[q] = ms
      BY <1>3, <1>4, <2>2, <3>1, <3>4 DEF Twins, Asked
    <3> QED
      BY <3>1, <3>2, <3>3, <3>4 DEF ClientInv, FutureOrTwin
  <2> QED
    BY <2>1, <2>2
<1>8. GotMeansAsked'
  BY <1>1, <1>3 DEF GotMeansAsked, ClientInv, ClientTypeOK
<1>9. AnswersMatch'
  <2>1. ASSUME NEW q \in Requests, got'[q] \notin {q, NoRequest}
        PROVE  got'[q] \in Twins(q)'
    <3>1. got[q] \in Twins(q) /\ Asked(q)
      BY <1>1, <2>1 DEF ClientInv, AnswersMatch, GotMeansAsked
    <3> QED
      BY <1>1, <1>3, <3>1, TwinsStay
  <2>2. ASSUME NEW q \in charted' PROVE Twins(q)' # {}
    <3>1. q \in Requests /\ Asked(q) /\ Twins(q) # {}
      BY <1>1, <2>2 DEF ClientInv, AnswersMatch, OnOneLeg, ClientTypeOK
    <3> QED
      BY <1>1, <1>3, <3>1, TwinsStay
  <2> QED
    BY <2>1, <2>2 DEF AnswersMatch
<1> QED
  BY <1>2, <1>5, <1>6, <1>7, <1>8, <1>9 DEF ClientInv

(* An answer resolves the future of its own request or of a twin's.        *)
LEMMA AnswerKeeps ==
  ASSUME ClientInv, NEW r \in Requests, Answer(r)
  PROVE  ClientInv'
<1>1. /\ ClientTypeOK /\ r \in wire /\ r \notin sends /\ Asked(r) /\ rkey[r] \in Key
      /\ wire' = wire \ {r} /\ UNCHANGED <<ms, link, rkey, sends, drops>>
  BY DEF Answer, ClientInv, ClientTypeOK, OnOneLeg
<1>2. CASE futures[rkey[r]] # NoRequest
  <2> DEFINE q == Owner(r)
  <2>1. q \in Requests /\ Asked(q) /\ rkey[q] = rkey[r]
    BY <1>1, <1>2 DEF Owner, ClientInv, FuturesOwned, ClientTypeOK
  <2>2. /\ futures' = [futures EXCEPT ![rkey[r]] = NoRequest] /\ UNCHANGED charted
        /\ \/ rpc' = [rpc EXCEPT ![q] = "answered"] /\ got' = [got EXCEPT ![q] = r]
           \/ UNCHANGED <<rpc, got>>
    BY <1>2 DEF Answer
  <2>3. \A p \in Requests : Asked(p)' <=> Asked(p)
    BY <1>1, <2>1, <2>2 DEF Asked, ClientTypeOK
  <2>4. \A p \in Requests : Twins(p)' = Twins(p)
    BY <1>1, <2>3 DEF Twins, Asked
  <2>5. ClientTypeOK'
    BY <1>1, <2>1, <2>2 DEF ClientTypeOK
  <2>6. \A k \in Key : futures'[k] = IF k = rkey[r] THEN NoRequest ELSE futures[k]
    BY <1>1, <2>2 DEF ClientTypeOK
  <2>7. FuturesOwned'
    <3> SUFFICES ASSUME NEW k \in Key, futures'[k] # NoRequest
                 PROVE  Asked(futures[k])' /\ rkey'[futures'[k]] = k
      BY DEF FuturesOwned
    <3>1. futures'[k] = futures[k] /\ futures[k] \in Requests
      BY <1>1, <2>6 DEF ClientTypeOK
    <3> QED
      BY <1>1, <2>3, <3>1 DEF ClientInv, FuturesOwned
  <2>8. OnOneLeg'
    BY <1>1, <2>2, <2>3 DEF OnOneLeg, ClientInv, ClientTypeOK
  <2>9. FutureOrTwin'
    <3> SUFFICES ASSUME NEW p \in sends' \cup wire'
                 PROVE  futures'[rkey'[p]] = p \/ Twins(p)' # {}
      BY DEF FutureOrTwin
    <3>1. p \in sends \cup wire /\ p \in Requests /\ p # r /\ Asked(p) /\ rkey[p] \in Key
      BY <1>1 DEF ClientInv, OnOneLeg, ClientTypeOK
    <3>2. CASE rkey[p] = rkey[r]
      BY <1>1, <2>4, <3>1, <3>2 DEF Twins, Asked
    <3>3. CASE rkey[p] # rkey[r]
      <4>1. futures[rkey[p]] = p \/ Twins(p) # {}
        BY <3>1 DEF ClientInv, FutureOrTwin
      <4> QED
        BY <1>1, <2>4, <2>6, <3>1, <3>3, <4>1
    <3> QED
      BY <3>2, <3>3
  <2>10. \A p \in Requests : got'[p] = got[p] \/ (p = q /\ got'[p] = r)
    BY <1>1, <2>1, <2>2 DEF ClientTypeOK
  <2>11. GotMeansAsked'
    <3> SUFFICES ASSUME NEW p \in Requests, got'[p] # NoRequest
                 PROVE  Asked(p)' /\ Asked(got[p])'
      BY DEF GotMeansAsked
    <3>1. CASE got'[p] = got[p]
      BY <1>1, <2>3, <3>1 DEF ClientInv, GotMeansAsked, ClientTypeOK
    <3>2. CASE p = q /\ got'[p] = r
      BY <1>1, <2>1, <2>3, <3>2
    <3> QED
      BY <2>10, <3>1, <3>2
  <2>12. AnswersMatch'
    <3>1. ASSUME NEW p \in Requests, got'[p] \notin {p, NoRequest}
          PROVE  got'[p] \in Twins(p)'
      <4>1. CASE got'[p] = got[p]
        BY <2>4, <3>1, <4>1 DEF ClientInv, AnswersMatch
      <4>2. CASE p = q /\ got'[p] = r
        <5>1. r \in Twins(p)
          BY <1>1, <2>1, <3>1, <4>2 DEF Twins, Asked
        <5> QED
          BY <2>4, <4>2, <5>1
      <4> QED
        BY <2>10, <4>1, <4>2
    <3>2. ASSUME NEW p \in charted' PROVE Twins(p)' # {}
      BY <1>1, <2>2, <2>4, <3>2 DEF ClientInv, AnswersMatch, ClientTypeOK
    <3> QED
      BY <3>1, <3>2 DEF AnswersMatch
  <2> QED
    BY <2>5, <2>7, <2>8, <2>9, <2>11, <2>12 DEF ClientInv
<1>3. CASE futures[rkey[r]] = NoRequest
  <2>1. charted' = charted \cup {r} /\ UNCHANGED <<futures, rpc, got>>
    BY <1>3 DEF Answer
  <2>2. Twins(r) # {}
    BY <1>1, <1>3, RequestsAssumption DEF ClientInv, FutureOrTwin
  <2>3. ClientTypeOK'
    BY <1>1, <2>1 DEF ClientTypeOK
  <2>4. FuturesOwned' /\ OnOneLeg' /\ GotMeansAsked'
    BY <1>1, <2>1 DEF ClientInv, FuturesOwned, OnOneLeg, GotMeansAsked, Asked
  <2>5. FutureOrTwin' /\ AnswersMatch'
    BY <1>1, <2>1, <2>2 DEF ClientInv, FutureOrTwin, AnswersMatch, Twins
  <2> QED
    BY <2>3, <2>4, <2>5 DEF ClientInv
<1> QED
  BY <1>2, <1>3

LEMMA OtherClientSteps ==
  ASSUME ClientInv,
         \/ Clock \/ Reconnect \/ Disconnect \/ UNCHANGED clientVars
         \/ \E r \in Requests : SendOut(r) \/ GiveUp(r)
  PROVE  ClientInv'
<1>1. /\ UNCHANGED <<rkey, futures, got, charted>>
      /\ sends' \cup wire' \subseteq sends \cup wire /\ sends' \cap wire' = {}
  BY DEF ClientInv, OnOneLeg, Clock, Reconnect, Disconnect, SendOut, GiveUp, clientVars
<1>2. ClientTypeOK'
  <2>1. ClientTypeOK /\ ms \in 0 .. MaxMs /\ drops \in 0 .. MaxDrops
    BY DEF ClientInv, ClientTypeOK, Key
  <2>2. CASE Clock \/ Reconnect
    <3>1. ms' \in Key
      BY <2>1, <2>2, ClientBoundAssumption DEF Clock, Reconnect, Key
    <3> QED
      BY <2>1, <2>2, <3>1 DEF ClientTypeOK, Clock, Reconnect
  <2>3. CASE Disconnect
    <3>1. drops' \in 0 .. MaxDrops
      BY <2>1, <2>3, ClientBoundAssumption DEF Disconnect
    <3> QED
      BY <2>1, <2>3, <3>1 DEF ClientTypeOK, Disconnect
  <2>4. ASSUME NEW r \in Requests, SendOut(r) \/ GiveUp(r) PROVE ClientTypeOK'
    BY <2>1, <2>4 DEF ClientTypeOK, SendOut, GiveUp
  <2>5. CASE UNCHANGED clientVars
    BY <2>1, <2>5 DEF ClientTypeOK, clientVars
  <2> QED
    BY <2>2, <2>3, <2>4, <2>5
<1>3. \A r \in Requests : Asked(r)' <=> Asked(r)
  BY DEF ClientInv, ClientTypeOK, Asked, Clock, Reconnect, Disconnect, SendOut, GiveUp, clientVars
<1>4. \A r \in Requests : Twins(r)' = Twins(r)
  BY <1>1, <1>3 DEF Twins, Asked
<1>5. FuturesOwned' /\ OnOneLeg' /\ GotMeansAsked'
  BY <1>1, <1>3 DEF ClientInv, ClientTypeOK, FuturesOwned, OnOneLeg, GotMeansAsked
<1>6. FutureOrTwin' /\ AnswersMatch'
  BY <1>1, <1>4 DEF ClientInv, ClientTypeOK, FutureOrTwin, AnswersMatch
<1> QED
  BY <1>2, <1>5, <1>6 DEF ClientInv

LEMMA ClientInvHolds == ClientSpec => []ClientInv
<1>1. ClientInv /\ [ClientNext]_clientVars => ClientInv'
  BY AskKeeps, AnswerKeeps, OtherClientSteps DEF ClientNext
<1> QED
  BY <1>1, ClientInitHolds, PTL DEF ClientSpec

(* The types of the client's variables.                                    *)
THEOREM ClientTypeCorrect == ClientSpec => []ClientTypeOK
<1>1. ClientInv => ClientTypeOK
  BY DEF ClientInv
<1> QED
  BY <1>1, ClientInvHolds, PTL

(* A request gets its own bars, or those of one with its key, for any      *)
(* number of requests, keys and lost connections.                          *)
THEOREM RequestsGetTheirOwn == ClientSpec => []AnswersMatch
<1>1. ClientInv => AnswersMatch
  BY DEF ClientInv
<1> QED
  BY <1>1, ClientInvHolds, PTL

-----------------------------------------------------------------------------
(* Dashboard.                                                              *)

-----------------------------------------------------------------------------
(* Dashboard: type correctness.                                            *)

(* A thread in a call holds a message.                                     *)
DashTyped ==
  /\ DashTypeOK
  /\ \A t \in Threads : cpc[t] # "idle" => msg[t] \in Message

LEMMA NothingYet ==
  /\ 0 \in Version /\ Nothing \in [Kind -> Version] /\ 1 \in 1 .. LastDashKind + 1
BY DashBoundAssumption DEF Version, Nothing

LEMMA DashInitTyped == DashInit => DashTyped
<1> SUFFICES ASSUME DashInit PROVE DashTyped
  OBVIOUS
<1>1. world \in Version /\ lock = "free" /\ reboots \in 0 .. MaxReboots /\ halt = "no"
      /\ ticker = "poll"
  BY NothingYet, DashBoundAssumption DEF DashInit
<1>2. pending \in Seq(Message) /\ sending = {} /\ conns = {}
  BY DEF DashInit
<1>3. blocked = FALSE /\ unsaved = FALSE /\ mixed \subseteq Browsers \X Kind
  BY DEF DashInit
<1> QED
  BY <1>1, <1>2, <1>3, NothingYet DEF DashInit, DashTypeOK, DashTyped

LEMMA OnwardsTyped ==
  ASSUME DashTyped, NEW t \in Threads, Onwards(t), cpc[t] # "idle"
  PROVE  /\ cpc' \in [Threads -> {"idle", "call", "save", "post"}]
         /\ msg' \in [Threads -> Message \cup {NoMessage}]
         /\ \A u \in Threads : cpc'[u] # "idle" => msg'[u] \in Message
BY DEF DashTyped, DashTypeOK, Onwards

LEMMA ComposeTyped ==
  ASSUME DashTyped, NEW t \in Threads, NEW k \in Kind, Compose(t, k)
  PROVE  DashTyped'
<1>1. world' \in Version
  BY DashBoundAssumption DEF Compose, DashTypeOK, DashTyped, Version
<1>2. [kind |-> k, ver |-> world'] \in Message
  BY <1>1 DEF Message
<1> QED
  BY <1>1, <1>2 DEF Compose, DashTypeOK, DashTyped, loopVars

LEMMA RecordTyped ==
  ASSUME DashTyped, NEW t \in Threads, Record(t)
  PROVE  DashTyped'
<1>1. msg[t] \in Message
  BY DEF DashTyped, Record
<1>2. PICK k : k = msg[t].kind
  OBVIOUS
<1>3. k \in Kind /\ msg[t].ver \in Version
  BY <1>1, <1>2 DEF Message
<1>4. /\ cached' \in [Kind -> Version] /\ mixed' \subseteq Browsers \X Kind
      /\ lock' \in Threads \cup {"free", "stop"}
  BY <1>2, <1>3 DEF Record, DashTyped, DashTypeOK
<1>5. /\ cpc' \in [Threads -> {"idle", "call", "save", "post"}]
      /\ msg' \in [Threads -> Message \cup {NoMessage}]
      /\ \A u \in Threads : cpc'[u] # "idle" => msg'[u] \in Message
  BY <1>1, OnwardsTyped DEF Record, DashTypeOK, DashTyped
<1> QED
  BY <1>4, <1>5 DEF Record, DashTypeOK, DashTyped, loopVars

LEMMA SaveTyped ==
  ASSUME DashTyped, NEW t \in Threads, Save(t)
  PROVE  DashTyped'
<1>1. session' \in [Kind -> Version] \cup {Torn} /\ unsaved' \in BOOLEAN
  BY NothingYet DEF Save, DashTyped, DashTypeOK
<1> QED
  BY <1>1, OnwardsTyped DEF Save, DashTyped, DashTypeOK, loopVars

LEMMA PostTyped ==
  ASSUME DashTyped, NEW t \in Threads, Post(t)
  PROVE  DashTyped'
<1>1. pending' \in Seq(Message)
  BY DEF Post, DashTyped, DashTypeOK
<1> QED
  BY <1>1 DEF Post, DashTyped, DashTypeOK

(* A message under way is a message, and sending it shows a version.       *)
LEMMA ShownTyped ==
  ASSUME DashTyped, NEW b \in Browsers, NEW k \in Kind, NEW v \in Version
  PROVE  [shown EXCEPT ![b][k] = v] \in [Browsers -> [Kind -> Version]]
<1>1. shown \in [Browsers -> [Kind -> Version]]
  BY DEF DashTyped, DashTypeOK
<1>2. [shown[b] EXCEPT ![k] = v] \in [Kind -> Version]
  BY <1>1
<1> QED
  BY <1>1, <1>2

SendTyped ==
  /\ shown' \in [Browsers -> [Kind -> Version]] /\ conns' \subseteq Browsers
  /\ sending' \subseteq [kind : Kind, ver : Version, left : SUBSET Browsers]

LEMMA SendToTyped ==
  ASSUME DashTyped, NEW b \in Browsers, NEW m, m.kind \in Kind, m.ver \in Version,
         NEW left \in SUBSET Browsers, SendTo(b, m.kind, m.ver),
         sending' \subseteq sending \cup InFlight(m, left)
  PROVE  SendTyped
<1>1. [shown EXCEPT ![b][m.kind] = m.ver] \in [Browsers -> [Kind -> Version]]
  BY ShownTyped
<1>2. shown' \in [Browsers -> [Kind -> Version]] /\ conns' \subseteq Browsers
  BY <1>1 DEF SendTo, DashTyped, DashTypeOK
<1>3. InFlight(m, left) \subseteq [kind : Kind, ver : Version, left : SUBSET Browsers]
  BY DEF InFlight
<1> QED
  BY <1>2, <1>3 DEF SendTyped, DashTyped, DashTypeOK

LEMMA StartTyped ==
  ASSUME DashTyped, StartBroadcast
  PROVE  DashTyped'
<1>1. pending # <<>> /\ pending \in Seq(Message)
  BY DEF StartBroadcast, DashTyped, DashTypeOK
<1>2. Head(pending) \in Message /\ Tail(pending) \in Seq(Message)
  BY <1>1
<1>3. Head(pending).kind \in Kind /\ Head(pending).ver \in Version
  BY <1>2 DEF Message
<1>4. Targets \subseteq Browsers
  BY DEF DashTyped, DashTypeOK, Targets
<1>5. SendTyped
  <2>1. CASE UNCHANGED <<sending, shown, conns>>
    BY <2>1 DEF DashTyped, DashTypeOK, SendTyped
  <2>2. ASSUME NEW b \in Targets, SendTo(b, Head(pending).kind, Head(pending).ver),
               sending' = sending \cup InFlight(Head(pending), Targets \ {b})
        PROVE  SendTyped
    <3>1. b \in Browsers /\ Targets \ {b} \in SUBSET Browsers
      BY <1>4
    <3> QED
      BY <1>3, <2>2, <3>1, SendToTyped
  <2> QED
    BY <2>1, <2>2 DEF StartBroadcast
<1> QED
  BY <1>2, <1>5 DEF StartBroadcast, Locked, DashTyped, DashTypeOK, callVars, SendTyped

LEMMA SendKeepsTyped ==
  ASSUME DashTyped, NEW m \in sending, NEW b \in m.left, Send(m, b)
  PROVE  DashTyped'
<1>1. m.kind \in Kind /\ m.ver \in Version /\ m.left \in SUBSET Browsers
  BY DEF DashTyped, DashTypeOK
<1>2. SendTo(b, m.kind, m.ver) /\ sending' \subseteq sending \cup InFlight(m, m.left \ {b})
  BY DEF Send
<1>3. b \in Browsers /\ m.left \ {b} \in SUBSET Browsers
  BY <1>1
<1>4. SendTyped
  BY <1>1, <1>2, <1>3, SendToTyped
<1>5. blocked' \in BOOLEAN
  BY DEF Send, Locked, Unlocked, DashTyped, DashTypeOK
<1> QED
  BY <1>4, <1>5 DEF Send, DashTyped, DashTypeOK, callVars, SendTyped

(* A step of the loop that leaves messages and connections alone.          *)
LEMMA HydrateTyped ==
  ASSUME DashTyped, NEW b \in Browsers, NEW c \in [Kind -> Version],
         NEW i \in 1 .. LastDashKind + 1, HydrateFrom(b, c, i)
  PROVE  /\ bpc' \in [Browsers -> {"new", "accepted", "joined", "hydrate", "listen", "asked", "done"}]
         /\ copied' \in [Browsers -> [Kind -> Version]]
         /\ upto' \in [Browsers -> 1 .. LastDashKind + 1]
         /\ shown' \in [Browsers -> [Kind -> Version]]
<1>1. CASE copied' = [copied EXCEPT ![b] = Nothing] /\ upto' = [upto EXCEPT ![b] = 1]
           /\ bpc' = [bpc EXCEPT ![b] = "listen"] /\ UNCHANGED shown
  BY <1>1, NothingYet DEF DashTyped, DashTypeOK
<1>2. ASSUME NEW k \in i .. LastDashKind,
             shown' = [shown EXCEPT ![b][k] = c[k]], copied' = [copied EXCEPT ![b] = c],
             upto' = [upto EXCEPT ![b] = k + 1], bpc' = [bpc EXCEPT ![b] = "hydrate"]
      PROVE  /\ bpc' \in [Browsers -> {"new", "accepted", "joined", "hydrate", "listen", "asked", "done"}]
             /\ copied' \in [Browsers -> [Kind -> Version]]
             /\ upto' \in [Browsers -> 1 .. LastDashKind + 1]
             /\ shown' \in [Browsers -> [Kind -> Version]]
  <2>1. k \in Kind /\ k + 1 \in 1 .. LastDashKind + 1
    BY DashBoundAssumption DEF Kind
  <2>2. c[k] \in Version
    BY <2>1
  <2>3. shown' \in [Browsers -> [Kind -> Version]]
    BY <1>2, <2>1, <2>2, ShownTyped
  <2>4. upto' \in [Browsers -> 1 .. LastDashKind + 1]
    BY <1>2, <2>1 DEF DashTyped, DashTypeOK
  <2> QED
    BY <1>2, <2>3, <2>4 DEF DashTyped, DashTypeOK
<1> QED
  BY <1>1, <1>2 DEF HydrateFrom

CopiedTyped ==
  world' \in Version /\ cached' \in [Kind -> Version] /\ mixed' \subseteq Browsers \X Kind

LEMMA CopyTyped ==
  ASSUME DashTyped, NEW b \in Browsers, CopyHistory(b)
  PROVE  CopiedTyped
<1>1. PICK fresh \in SUBSET Fetched :
        /\ fresh # {} => world < MaxVersion
        /\ world' = IF fresh = {} THEN world ELSE world + 1
        /\ cached' = [k \in Kind |-> IF k \in fresh THEN world' ELSE cached[k]]
        /\ mixed' = {e \in mixed : ~(e[1] = b /\ e[2] \in fresh)}
                       \cup ((Browsers \ {b}) \X fresh)
                       \cup {<<b, k>> : k \in {j \in fresh : OnItsWay(j)}}
  BY DEF CopyHistory
<1>2. fresh \subseteq Kind
  BY SavedAssumption DEF Kind
<1>3. world' \in Version
  BY <1>1, DashBoundAssumption DEF DashTyped, DashTypeOK, Version
<1>4. cached' \in [Kind -> Version]
  BY <1>1, <1>3 DEF DashTyped, DashTypeOK
<1>5. mixed' \subseteq Browsers \X Kind
  BY <1>1, <1>2 DEF DashTyped, DashTypeOK
<1> QED
  BY <1>3, <1>4, <1>5 DEF CopiedTyped

LEMMA BrowserTyped ==
  ASSUME DashTyped, NEW b \in Browsers
  PROVE  (Accept(b) \/ AskSwitch(b) \/ CloseTab(b) \/ Handler(b)) => DashTyped'
<1>1. Accept(b) => DashTyped'
  BY DEF Accept, Unlocked, DashTyped, DashTypeOK, callVars
<1>2. AskSwitch(b) => DashTyped'
  BY DEF AskSwitch, Unlocked, DashTyped, DashTypeOK, callVars
<1>3. CloseTab(b) => DashTyped'
  BY NothingYet DEF CloseTab, DashTyped, DashTypeOK, callVars
<1>4. Join(b) => DashTyped'
  BY DEF Join, Locked, DashTyped, DashTypeOK, callVars
<1>5. SwitchBack(b) => DashTyped'
  BY DEF SwitchBack, Locked, DashTyped, DashTypeOK, callVars
<1>6. Depart(b) => DashTyped'
  BY DEF Depart, Locked, DashTyped, DashTypeOK, callVars
<1>7. CopyHistory(b) => DashTyped'
  <2> SUFFICES ASSUME CopyHistory(b) PROVE DashTyped'
    OBVIOUS
  <2>1. CopiedTyped
    BY CopyTyped
  <2>2. HydrateFrom(b, cached', 1) /\ cached' \in [Kind -> Version] /\ 1 \in 1 .. LastDashKind + 1
    BY <2>1, NothingYet DEF CopyHistory, CopiedTyped
  <2> QED
    BY <2>1, <2>2, HydrateTyped DEF CopyHistory, CopiedTyped, Locked, DashTyped, DashTypeOK
<1>8. SendCopy(b) => DashTyped'
  <2>1. copied[b] \in [Kind -> Version] /\ upto[b] \in 1 .. LastDashKind + 1
    BY DEF DashTyped, DashTypeOK
  <2> QED
    BY <2>1, HydrateTyped DEF SendCopy, Unlocked, DashTyped, DashTypeOK, callVars
<1> QED
  BY <1>1, <1>2, <1>3, <1>4, <1>5, <1>6, <1>7, <1>8 DEF Handler

LEMMA RestTyped ==
  ASSUME DashTyped, LoopBlocks \/ EmergencyStop \/ StopReturns \/ TickTurn
  PROVE  DashTyped'
<1>1. LoopBlocks => DashTyped'
  BY DEF LoopBlocks, DashTyped, DashTypeOK, callVars, loopVars
<1>2. EmergencyStop => DashTyped'
  BY DEF EmergencyStop, DashTyped, DashTypeOK, callVars, loopVars
<1>3. StopReturns => DashTyped'
  BY DEF StopReturns, DashTyped, DashTypeOK, callVars, loopVars
<1>4. TickTurn => DashTyped'
  BY DEF TickTurn, DashTyped, DashTypeOK, callVars, loopVars
<1> QED
  BY <1>1, <1>2, <1>3, <1>4

LEMMA RebootTyped ==
  ASSUME DashTyped, Reboot
  PROVE  DashTyped'
<1>1. session' \in [Kind -> Version] \cup {Torn}
  BY DEF Reboot, DashTyped, DashTypeOK
<1>2. cached' \in [Kind -> Version]
  BY <1>1, NothingYet DEF Reboot, LoadedSession
<1>3. reboots' \in 0 .. MaxReboots /\ world' \in Version
  BY DashBoundAssumption DEF Reboot, DashTyped, DashTypeOK
<1>4. /\ cpc' = [t \in Threads |-> "idle"] /\ msg' = [t \in Threads |-> NoMessage]
      /\ pending' = <<>> /\ sending' = {} /\ conns' = {}
      /\ mixed' = {} /\ unsaved' = FALSE
      /\ peer' = [b \in Browsers |-> "new"] /\ bpc' = peer'
      /\ copied' = [b \in Browsers |-> Nothing] /\ shown' = copied'
      /\ upto' = [b \in Browsers |-> 1]
      /\ blocked' = FALSE /\ halt' = "no" /\ ticker' = "poll" /\ lock' = "free"
  BY DEF Reboot
<1>5. pending' \in Seq(Message)
  BY <1>4
<1> QED
  BY <1>1, <1>2, <1>3, <1>4, <1>5, NothingYet DEF DashTyped, DashTypeOK

LEMMA DashStepTyped ==
  ASSUME DashTyped, [DashNext]_dashVars
  PROVE  DashTyped'
<1>1. CASE UNCHANGED dashVars
  BY <1>1 DEF dashVars, callVars, loopVars, DashTyped, DashTypeOK
<1>2. CASE DashNext
  BY <1>2, ComposeTyped, RecordTyped, SaveTyped, PostTyped, StartTyped, SendKeepsTyped,
     BrowserTyped, RestTyped, RebootTyped
     DEF DashNext, ThreadStep, ServeStep
<1> QED
  BY <1>1, <1>2

(* Threads, loop and worker keep the variables of the dashboard's server   *)
(* in their types, for all browsers, threads and kinds of message.         *)
THEOREM DashTypeCorrect == DashSpec => []DashTypeOK
<1>1. DashTyped => DashTypeOK
  BY DEF DashTyped
<1> QED
  BY <1>1, DashInitTyped, DashStepTyped, PTL DEF DashSpec

-----------------------------------------------------------------------------
(* Dashboard: the session file.  While no thread is saving it and the last *)
(* save did not fail, it holds the saved kinds of the cache.               *)
SessionCurrent ==
  /\ \A t \in Threads : cpc[t] = "save" => lock = t
  /\ halt = "joining" => lock = "stop"
  /\ ~unsaved /\ (\A t \in Threads : cpc[t] # "save")
       => \A k \in Saved : LoadedSession(session)[k] = cached[k]

LEMMA SessionInit == DashInit => SessionCurrent
BY SavedAssumption DEF DashInit, SessionCurrent, LoadedSession, Nothing, Kind

LEMMA RecordKeepsSession ==
  ASSUME DashTyped, SessionCurrent, NEW t \in Threads, Record(t)
  PROVE  SessionCurrent'
<1>1. PICK k : k = msg[t].kind
  OBVIOUS
<1>2. (\A u \in Threads : cpc[u] # "save") /\ halt' # "joining"
  BY ThreadsAssumption DEF Record, SessionCurrent
<1>3. k \in Kind /\ cached' = [cached EXCEPT ![k] = msg[t].ver]
      /\ UNCHANGED <<session, unsaved>>
  BY <1>1 DEF Record, DashTyped, Message
<1>4. CASE k \in Saved
  <2>1. lock' = t /\ cpc' = [cpc EXCEPT ![t] = "save"]
    BY <1>1, <1>4 DEF Record, Saves
  <2>2. cpc'[t] = "save" /\ \A u \in Threads : cpc'[u] = "save" => u = t
    BY <1>2, <2>1 DEF DashTyped, DashTypeOK
  <2> QED
    BY <1>2, <2>1, <2>2 DEF SessionCurrent
<1>5. CASE k \notin Saved
  <2>1. cpc' = [cpc EXCEPT ![t] = IF conns = {} THEN "idle" ELSE "post"]
    BY <1>1, <1>5 DEF Record, Saves, Onwards
  <2>2. \A u \in Threads : cpc'[u] # "save"
    BY <1>2, <2>1 DEF DashTyped, DashTypeOK
  <2>3. \A j \in Saved : cached'[j] = cached[j]
    BY <1>3, <1>5, SavedAssumption DEF DashTyped, DashTypeOK, Kind
  <2> QED
    BY <1>2, <1>3, <2>2, <2>3 DEF SessionCurrent, LoadedSession
<1> QED
  BY <1>4, <1>5

LEMMA SaveKeepsSession ==
  ASSUME DashTyped, SessionCurrent, NEW t \in Threads, Save(t)
  PROVE  SessionCurrent'
<1>1. cpc' = [cpc EXCEPT ![t] = IF conns = {} THEN "idle" ELSE "post"] /\ UNCHANGED cached
  BY DEF Save, Onwards
<1>2. (\A u \in Threads : cpc'[u] # "save") /\ halt' # "joining"
  BY <1>1, ThreadsAssumption DEF Save, SessionCurrent, DashTyped, DashTypeOK
<1>3. CASE session' = [k \in Kind |-> IF k \in Saved THEN cached[k] ELSE 0]
  <2>1. session' \in [Kind -> Version] /\ session' # Torn
    BY <1>3, NothingYet, SavedAssumption DEF DashTyped, DashTypeOK, Kind, Version
  <2>2. \A k \in Saved : LoadedSession(session')[k] = cached'[k]
    BY <1>1, <1>3, <2>1, SavedAssumption DEF LoadedSession, Kind
  <2> QED
    BY <1>2, <2>2 DEF SessionCurrent
<1>4. CASE unsaved' = TRUE
  BY <1>2, <1>4 DEF SessionCurrent
<1> QED
  BY <1>3, <1>4 DEF Save

LEMMA RebootKeepsSession ==
  ASSUME SessionCurrent, Reboot
  PROVE  /\ SessionCurrent'
         /\ ~unsaved /\ (\A t \in Threads : cpc[t] # "save")
              => \A k \in Saved : cached'[k] = cached[k]
BY DEF SessionCurrent, Reboot

(* The other steps leave file, saved kinds and saving threads alone.       *)
LEMMA OthersKeepSession ==
  ASSUME DashTyped, SessionCurrent,
         UNCHANGED <<session, unsaved>>, \A k \in Saved : cached'[k] = cached[k],
         \A t \in Threads : cpc'[t] = "save" <=> cpc[t] = "save",
         UNCHANGED <<lock, halt>> \/ EmergencyStop \/ StopReturns
  PROVE  SessionCurrent'
BY ThreadsAssumption DEF SessionCurrent, LoadedSession, EmergencyStop, StopReturns

LEMMA StepKeepsSession ==
  ASSUME DashTyped, SessionCurrent, [DashNext]_dashVars
  PROVE  SessionCurrent'
<1> USE DEF callVars, loopVars
<1>1. ASSUME NEW t \in Threads, NEW k \in Kind, Compose(t, k) PROVE SessionCurrent'
  BY <1>1, OthersKeepSession DEF Compose, DashTyped, DashTypeOK
<1>2. ASSUME NEW t \in Threads, ThreadStep(t) PROVE SessionCurrent'
  <2>1. Post(t) => SessionCurrent'
    BY OthersKeepSession DEF Post, DashTyped, DashTypeOK
  <2> QED
    BY <1>2, <2>1, RecordKeepsSession, SaveKeepsSession DEF ThreadStep
<1>3. ASSUME ServeStep PROVE SessionCurrent'
  <2>1. ASSUME NEW b \in Browsers, CopyHistory(b) PROVE SessionCurrent'
    <3>1. \A k \in Saved : cached'[k] = cached[k]
      BY <2>1, SavedAssumption DEF CopyHistory, Kind
    <3> QED
      BY <2>1, <3>1, OthersKeepSession DEF CopyHistory
  <2> QED
    BY <1>3, <2>1, OthersKeepSession
       DEF ServeStep, StartBroadcast, Send, Handler, Join, SendCopy, SwitchBack, Depart
<1>4. ASSUME NEW b \in Browsers, Accept(b) \/ AskSwitch(b) \/ CloseTab(b) PROVE SessionCurrent'
  BY <1>4, OthersKeepSession DEF Accept, AskSwitch, CloseTab
<1>5. ASSUME LoopBlocks \/ EmergencyStop \/ TickTurn PROVE SessionCurrent'
  BY <1>5, OthersKeepSession DEF LoopBlocks, EmergencyStop, TickTurn
<1>6. ASSUME StopReturns PROVE SessionCurrent'
  BY <1>6, OthersKeepSession DEF StopReturns
<1>7. CASE UNCHANGED dashVars
  BY <1>7, OthersKeepSession DEF dashVars
<1> QED
  BY <1>1, <1>2, <1>3, <1>4, <1>5, <1>6, <1>7, RebootKeepsSession DEF DashNext

(* A restart loses nothing of the saved kinds, unless the process died     *)
(* within a save or its last save had failed, before or after the file was *)
(* truncated (_save_session, _load_session): for all threads, kinds, sets  *)
(* of saved kinds, and sets of candles read again.                         *)
THEOREM SessionIsKept == DashSpec => SessionKept
<1>1. DashTyped /\ SessionCurrent /\ [DashNext]_dashVars
        => [reboots' # reboots /\ ~unsaved /\ (\A t \in Threads : cpc[t] # "save")
              => \A k \in Saved : cached'[k] = cached[k]]_dashVars
  <2> SUFFICES ASSUME DashTyped, SessionCurrent, DashNext, reboots' # reboots
               PROVE  ~unsaved /\ (\A t \in Threads : cpc[t] # "save")
                        => \A k \in Saved : cached'[k] = cached[k]
    BY DEF dashVars
  <2>1. Reboot
    BY DEF DashNext, ThreadStep, ServeStep, Handler, Compose, Record, Save, Post, StartBroadcast,
           Send, Join, CopyHistory, SendCopy, SwitchBack, Depart, LoopBlocks, Accept,
           AskSwitch, CloseTab, EmergencyStop, StopReturns, TickTurn
  <2> QED
    BY <2>1, RebootKeepsSession
<1> QED
  BY <1>1, DashInitTyped, SessionInit, DashStepTyped, StepKeepsSession, PTL
     DEF DashSpec, SessionKept

-----------------------------------------------------------------------------
(* Dashboard: what the browsers show.                                      *)

(* A message that was recorded and is still to be sent to somebody, and    *)
(* one of kind k that is still to be sent to browser b.                    *)
Carried(x) ==
  \/ \E t \in Threads : cpc[t] \in {"save", "post"} /\ msg[t] = x
  \/ \E i \in 1 .. Len(pending) : pending[i] = x
  \/ \E m \in sending : m.kind = x.kind /\ m.ver = x.ver

Promised(k, b) ==
  \/ \E t \in Threads : cpc[t] \in {"save", "post"} /\ msg[t].kind = k
  \/ \E i \in 1 .. Len(pending) : pending[i].kind = k
  \/ \E m \in sending : m.kind = k /\ b \in m.left

(* The browser's page is open and has been sent what there was of kind k.  *)
Served(k, b) ==
  /\ peer[b] = "open"
  /\ bpc[b] \in {"listen", "asked"} \/ (bpc[b] = "hydrate" /\ upto[b] > k)

(* Those that are served are connected.                                    *)
Connected ==
  \A b \in Browsers :
    peer[b] = "open" /\ bpc[b] \in {"joined", "hydrate", "listen", "asked"} => b \in conns

(* Of a kind that is not in the cache, nothing is shown, copied or carried. *)
NothingEarly ==
  /\ \A t \in Threads : cpc[t] = "call" => msg[t].ver # 0
  /\ \A k \in Kind : cached[k] = 0 => \A b \in Browsers : shown[b][k] = 0 /\ copied[b][k] = 0
  /\ \A x \in Message : Carried(x) => cached[x.kind] # 0

(* What a browser cannot miss, and is carried or copied, is what the cache *)
(* holds.                                                                  *)
NothingStale ==
  /\ \A x \in Message, b \in Browsers :
       Carried(x) /\ <<b, x.kind>> \notin mixed => x.ver = cached[x.kind]
  /\ \A k \in Kind, b \in Browsers :
       <<b, k>> \notin mixed /\ bpc[b] = "hydrate" /\ upto[b] <= k => copied[b][k] = cached[k]

ViewsTold ==
  \A k \in Kind, b \in Browsers :
    <<b, k>> \notin mixed /\ Served(k, b) /\ ~Promised(k, b) => shown[b][k] = cached[k]

DashViews == Connected /\ NothingEarly /\ NothingStale /\ ViewsTold

LEMMA ViewsInit == DashInit => DashViews
<1> SUFFICES ASSUME DashInit PROVE DashViews
  OBVIOUS
<1>1. /\ \A t \in Threads : cpc[t] = "idle"
      /\ pending = <<>> /\ sending = {} /\ \A b \in Browsers : bpc[b] = "new"
      /\ cached = Nothing /\ \A b \in Browsers : shown[b] = Nothing /\ copied[b] = Nothing
  BY DEF DashInit
<1>2. \A x : ~Carried(x)
  BY <1>1 DEF Carried
<1> QED
  BY <1>1, <1>2
     DEF DashViews, Connected, NothingEarly, NothingStale, ViewsTold, Served, Nothing

(* Steps that carry, copy and record nothing.                              *)
LEMMA QuietKeepsViews ==
  ASSUME DashTyped, DashViews, Connected',
         UNCHANGED <<cached, pending, sending, mixed, copied, upto>>,
         \A t \in Threads : /\ cpc'[t] \in {"save", "post"} <=> cpc[t] \in {"save", "post"}
                            /\ cpc'[t] \in {"save", "post"} => msg'[t] = msg[t]
                            /\ cpc'[t] = "call" => msg'[t].ver # 0,
         \A b \in Browsers : /\ shown'[b] \in {shown[b], Nothing}
                             /\ bpc'[b] = "hydrate" => bpc[b] = "hydrate"
                             /\ bpc'[b] \in {"listen", "asked", "hydrate"} /\ peer'[b] = "open" =>
                                  /\ peer[b] = "open" /\ shown'[b] = shown[b]
                                  /\ bpc'[b] = bpc[b] \/ {bpc[b], bpc'[b]} = {"listen", "asked"}
  PROVE  DashViews'
<1>1. \A x : Carried(x)' => Carried(x)
  BY DEF Carried
<1>2. \A k, b : Promised(k, b) => Promised(k, b)'
  BY DEF Promised
<1>3. \A k \in Kind, b \in Browsers : Served(k, b)' => Served(k, b) /\ shown'[b] = shown[b]
  BY DEF Served
<1>4. NothingEarly'
  <2>1. \A k \in Kind : Nothing[k] = 0
    BY DEF Nothing
  <2> QED
    BY <1>1, <2>1 DEF DashViews, NothingEarly
<1>5. NothingStale'
  BY <1>1 DEF DashViews, NothingStale
<1>6. ViewsTold'
  BY <1>2, <1>3 DEF DashViews, ViewsTold
<1> QED
  BY <1>4, <1>5, <1>6 DEF DashViews

LEMMA QuietSteps ==
  ASSUME DashTyped, DashViews
  PROVE  /\ \A t \in Threads, k \in Kind : Compose(t, k) => DashViews'
         /\ \A b \in Browsers : Accept(b) \/ AskSwitch(b) \/ CloseTab(b) => DashViews'
         /\ \A b \in Browsers : Join(b) \/ SwitchBack(b) \/ Depart(b) => DashViews'
         /\ LoopBlocks \/ EmergencyStop \/ StopReturns \/ TickTurn => DashViews'
         /\ UNCHANGED dashVars => DashViews'
<1> USE DEF callVars, loopVars
<1>1. ASSUME NEW t \in Threads, NEW k \in Kind, Compose(t, k) PROVE DashViews'
  <2>1. world' # 0
    BY <1>1 DEF Compose, DashTyped, DashTypeOK, Version
  <2>2. Connected'
    BY <1>1 DEF Compose, DashViews, Connected
  <2>3. \A u \in Threads : /\ cpc'[u] \in {"save", "post"} <=> cpc[u] \in {"save", "post"}
                           /\ cpc'[u] \in {"save", "post"} => msg'[u] = msg[u]
                           /\ cpc'[u] = "call" => msg'[u].ver # 0
    BY <1>1, <2>1 DEF Compose, DashTyped, DashTypeOK, DashViews, NothingEarly
  <2> QED
    BY <1>1, <2>2, <2>3, QuietKeepsViews DEF Compose
<1>2. ASSUME NEW b \in Browsers, Accept(b) PROVE DashViews'
  <2>1. Connected'
    BY <1>2 DEF Accept, DashViews, Connected, DashTyped, DashTypeOK
  <2>2. \A c \in Browsers :
          /\ bpc'[c] = "hydrate" => bpc[c] = "hydrate"
          /\ bpc'[c] \in {"listen", "asked", "hydrate"} /\ peer'[c] = "open"
               => peer[c] = "open" /\ bpc'[c] = bpc[c]
    BY <1>2 DEF Accept, DashTyped, DashTypeOK
  <2> QED
    BY <1>2, <2>1, <2>2, QuietKeepsViews DEF Accept, DashViews, NothingEarly
<1>3. ASSUME NEW b \in Browsers, AskSwitch(b) \/ SwitchBack(b) PROVE DashViews'
  <2>1. Connected'
    BY <1>3 DEF AskSwitch, SwitchBack, DashViews, Connected, DashTyped, DashTypeOK
  <2>2. \A c \in Browsers :
          /\ bpc'[c] = "hydrate" => bpc[c] = "hydrate"
          /\ bpc'[c] \in {"listen", "asked", "hydrate"} /\ peer'[c] = "open"
               => peer[c] = "open" /\ (bpc'[c] = bpc[c] \/ {bpc[c], bpc'[c]} = {"listen", "asked"})
    BY <1>3 DEF AskSwitch, SwitchBack, DashTyped, DashTypeOK
  <2> QED
    BY <1>3, <2>1, <2>2, QuietKeepsViews DEF AskSwitch, SwitchBack, DashViews, NothingEarly
<1>4. ASSUME NEW b \in Browsers, CloseTab(b) PROVE DashViews'
  <2>1. Connected'
    BY <1>4 DEF CloseTab, DashViews, Connected, DashTyped, DashTypeOK
  <2>2. \A c \in Browsers :
          /\ shown'[c] \in {shown[c], Nothing}
          /\ peer'[c] = "open" => peer[c] = "open" /\ shown'[c] = shown[c]
    BY <1>4 DEF CloseTab, DashTyped, DashTypeOK
  <2> QED
    BY <1>4, <2>1, <2>2, QuietKeepsViews DEF CloseTab, DashViews, NothingEarly
<1>5. ASSUME NEW b \in Browsers, Join(b) PROVE DashViews'
  <2>1. Connected'
    BY <1>5 DEF Join, DashViews, Connected, DashTyped, DashTypeOK
  <2>2. \A c \in Browsers :
          /\ bpc'[c] = "hydrate" => bpc[c] = "hydrate"
          /\ bpc'[c] \in {"listen", "asked", "hydrate"} /\ peer'[c] = "open"
               => peer[c] = "open" /\ bpc'[c] = bpc[c]
    BY <1>5 DEF Join, DashTyped, DashTypeOK
  <2> QED
    BY <1>5, <2>1, <2>2, QuietKeepsViews DEF Join, DashViews, NothingEarly
<1>6. ASSUME NEW b \in Browsers, Depart(b) PROVE DashViews'
  <2>1. Connected'
    BY <1>6 DEF Depart, DashViews, Connected, DashTyped, DashTypeOK
  <2>2. \A c \in Browsers :
          /\ bpc'[c] = "hydrate" => bpc[c] = "hydrate"
          /\ bpc'[c] \in {"listen", "asked", "hydrate"} /\ peer'[c] = "open"
               => peer[c] = "open" /\ bpc'[c] = bpc[c]
    BY <1>6 DEF Depart, DashTyped, DashTypeOK
  <2> QED
    BY <1>6, <2>1, <2>2, QuietKeepsViews DEF Depart, DashViews, NothingEarly
<1>7. ASSUME \/ LoopBlocks \/ EmergencyStop \/ StopReturns \/ TickTurn \/ UNCHANGED dashVars
      PROVE  DashViews'
  <2>1. UNCHANGED <<callVars, loopVars, peer, mixed>>
    BY <1>7 DEF LoopBlocks, EmergencyStop, StopReturns, TickTurn, dashVars
  <2> QED
    BY <2>1, QuietKeepsViews DEF DashViews, NothingEarly, Connected
<1> QED
  BY <1>1, <1>2, <1>3, <1>4, <1>5, <1>6, <1>7

(* A thread goes on, or nobody is there to be served.                      *)
LEMMA RecordKeepsViews ==
  ASSUME DashTyped, DashViews, NEW t \in Threads, Record(t)
  PROVE  DashViews'
<1> DEFINE new == msg[t]
           kind == new.kind
<1>1. /\ new \in Message /\ kind \in Kind /\ cpc[t] = "call" /\ new.ver # 0
      /\ cached' = [cached EXCEPT ![kind] = new.ver]
      /\ mixed' = IF Meets(kind) THEN mixed \cup (Browsers \X {kind})
                  ELSE mixed \ (Browsers \X {kind})
      /\ UNCHANGED <<pending, sending, copied, upto, shown, peer, bpc, conns>>
  BY DEF Record, DashTyped, Message, DashViews, NothingEarly, loopVars
<1>2. \/ cpc' = [cpc EXCEPT ![t] = "save"] /\ msg' = msg
      \/ cpc' = [cpc EXCEPT ![t] = "post"] /\ msg' = msg
      \/ conns = {} /\ cpc' = [cpc EXCEPT ![t] = "idle"] /\ msg' = [msg EXCEPT ![t] = NoMessage]
  BY DEF Record, Onwards
<1> HIDE DEF new, kind
<1>3. \A j \in Kind : cached'[j] = IF j = kind THEN new.ver ELSE cached[j]
  BY <1>1 DEF DashTyped, DashTypeOK
<1>4. \A u \in Threads : u # t => cpc'[u] = cpc[u] /\ msg'[u] = msg[u]
  BY <1>2 DEF DashTyped, DashTypeOK
<1>5. cpc'[t] \in {"save", "post"} => msg'[t] = new
  BY <1>2 DEF DashTyped, DashTypeOK, new
<1>6. cpc'[t] \in {"save", "post"} \/ conns = {}
  BY <1>2 DEF DashTyped, DashTypeOK
<1>7. \A x : Carried(x)' => Carried(x) \/ x = new
  BY <1>1, <1>4, <1>5 DEF Carried
<1>8. Connected'
  BY <1>1 DEF DashViews, Connected
<1>9. NothingEarly'
  <2>1. \A u \in Threads : cpc'[u] = "call" => msg'[u].ver # 0
    BY <1>2, <1>4 DEF DashTyped, DashTypeOK, DashViews, NothingEarly
  <2>2. \A x \in Message : x.kind \in Kind
    BY DEF Message
  <2> QED
    BY <1>1, <1>3, <1>7, <2>1, <2>2 DEF DashViews, NothingEarly, kind
<1>10. ASSUME NEW b \in Browsers, NEW j \in Kind, <<b, j>> \notin mixed'
       PROVE  IF j = kind THEN ~Meets(kind) ELSE <<b, j>> \notin mixed
  BY <1>1, <1>10
<1>11. NothingStale'
  <2>1. ASSUME NEW x \in Message, NEW b \in Browsers, Carried(x)', <<b, x.kind>> \notin mixed'
        PROVE  x.ver = cached'[x.kind]
    <3>1. x.kind \in Kind
      BY DEF Message
    <3>2. CASE x.kind = kind
      <4>1. ~Meets(kind)
        BY <1>10, <2>1, <3>1, <3>2
      <4>2. ~Carried(x)
        BY <3>2, <4>1 DEF Carried, Meets, OnItsWay
      <4> QED
        BY <1>1, <1>3, <1>7, <2>1, <3>2, <4>2
    <3>3. CASE x.kind # kind
      <4>1. Carried(x) /\ <<b, x.kind>> \notin mixed
        BY <1>7, <1>10, <2>1, <3>1, <3>3 DEF kind
      <4> QED
        BY <1>3, <3>1, <3>3, <4>1 DEF DashViews, NothingStale
    <3> QED
      BY <3>2, <3>3
  <2>2. ASSUME NEW j \in Kind, NEW b \in Browsers, <<b, j>> \notin mixed',
               bpc'[b] = "hydrate", upto'[b] <= j
        PROVE  copied'[b][j] = cached'[j]
    <3>1. j # kind
      BY <1>1, <1>10, <2>2 DEF Meets
    <3>2. <<b, j>> \notin mixed
      BY <1>10, <2>2, <3>1
    <3> QED
      BY <1>1, <1>3, <2>2, <3>1, <3>2 DEF DashViews, NothingStale
  <2> QED
    BY <2>1, <2>2 DEF NothingStale
<1>12. ViewsTold'
  <2> SUFFICES ASSUME NEW j \in Kind, NEW b \in Browsers, <<b, j>> \notin mixed',
                      Served(j, b)', ~Promised(j, b)'
               PROVE  shown'[b][j] = cached'[j]
    BY DEF ViewsTold
  <2>1. Served(j, b) /\ b \in conns
    BY <1>1 DEF Served, DashViews, Connected
  <2>2. j # kind
    BY <1>5, <1>6, <2>1 DEF Promised, kind
  <2>3. <<b, j>> \notin mixed
    BY <1>10, <2>2
  <2>4. ~Promised(j, b)
    BY <1>1, <1>4 DEF Promised
  <2> QED
    BY <1>1, <1>3, <2>1, <2>2, <2>3, <2>4 DEF DashViews, ViewsTold
<1> QED
  BY <1>8, <1>9, <1>11, <1>12 DEF DashViews

(* A message that was carried is what b is shown of kind k from now on.    *)
Sent(k, b) == \E x \in Message : Carried(x) /\ x.kind = k /\ shown'[b][k] = x.ver

(* Steps that pass on what is carried.                                     *)
LEMMA PassingKeepsViews ==
  ASSUME DashTyped, DashViews, Connected',
         UNCHANGED <<cached, mixed, copied, upto, peer, bpc>>,
         \A x \in Message : Carried(x)' => Carried(x),
         \A t \in Threads : cpc'[t] = "call" => cpc[t] = "call" /\ msg'[t] = msg[t],
         \A k \in Kind, b \in Browsers :
           /\ shown'[b][k] = shown[b][k] \/ Sent(k, b)
           /\ Served(k, b) /\ Promised(k, b) => Promised(k, b)' \/ Sent(k, b)
  PROVE  DashViews'
<1>1. NothingEarly'
  <2>1. \A k \in Kind, b \in Browsers : cached[k] = 0 => ~Sent(k, b)
    BY DEF DashViews, NothingEarly, Sent
  <2> QED
    BY <2>1 DEF DashViews, NothingEarly
<1>2. NothingStale'
  BY DEF DashViews, NothingStale
<1>3. ViewsTold'
  <2> SUFFICES ASSUME NEW k \in Kind, NEW b \in Browsers, <<b, k>> \notin mixed,
                      Served(k, b)', ~Promised(k, b)'
               PROVE  shown'[b][k] = cached[k]
    BY DEF ViewsTold
  <2>1. Served(k, b)
    BY DEF Served
  <2>2. Sent(k, b) => shown'[b][k] = cached[k]
    BY DEF Sent, DashViews, NothingStale
  <2>3. ~Promised(k, b) => shown[b][k] = cached[k]
    BY <2>1 DEF DashViews, ViewsTold
  <2> QED
    BY <2>1, <2>2, <2>3
<1> QED
  BY <1>1, <1>2, <1>3 DEF DashViews

LEMMA SaveKeepsViews ==
  ASSUME DashTyped, DashViews, NEW t \in Threads, Save(t)
  PROVE  DashViews'
<1>1. /\ UNCHANGED <<cached, mixed, copied, upto, peer, bpc, conns, shown, pending, sending>>
      /\ cpc[t] = "save"
      /\ \/ cpc' = [cpc EXCEPT ![t] = "post"] /\ msg' = msg
         \/ conns = {} /\ cpc' = [cpc EXCEPT ![t] = "idle"] /\ msg' = [msg EXCEPT ![t] = NoMessage]
  BY DEF Save, Onwards, loopVars
<1>2. \A u \in Threads : u # t => cpc'[u] = cpc[u] /\ msg'[u] = msg[u]
  BY <1>1 DEF DashTyped, DashTypeOK
<1>3. \/ cpc'[t] = "post" /\ msg'[t] = msg[t]
      \/ conns = {} /\ cpc'[t] = "idle"
  BY <1>1 DEF DashTyped, DashTypeOK
<1>4. \A x : Carried(x)' => Carried(x)
  BY <1>1, <1>2, <1>3 DEF Carried
<1>5. Connected'
  BY <1>1 DEF DashViews, Connected
<1>6. \A k \in Kind, b \in Browsers : Served(k, b) /\ Promised(k, b) => Promised(k, b)'
  <2> SUFFICES ASSUME NEW k \in Kind, NEW b \in Browsers, Served(k, b), Promised(k, b)
               PROVE  Promised(k, b)'
    OBVIOUS
  <2>1. conns # {}
    BY DEF Served, DashViews, Connected
  <2> QED
    BY <1>1, <1>2, <1>3, <2>1 DEF Promised
<1> QED
  BY <1>1, <1>2, <1>3, <1>4, <1>5, <1>6, PassingKeepsViews

LEMMA PostKeepsViews ==
  ASSUME DashTyped, DashViews, NEW t \in Threads, Post(t)
  PROVE  DashViews'
<1> DEFINE new == msg[t]
<1>1. /\ UNCHANGED <<cached, mixed, copied, upto, peer, bpc, conns, shown, sending>>
      /\ cpc[t] = "post" /\ pending' = Append(pending, new)
      /\ \A u \in Threads : u # t => cpc'[u] = cpc[u] /\ msg'[u] = msg[u]
      /\ cpc'[t] = "idle"
  BY DEF Post, DashTyped, DashTypeOK
<1>2. pending \in Seq(Message) /\ new \in Message
  BY <1>1 DEF DashTyped, DashTypeOK
<1>3. /\ Len(pending') = Len(pending) + 1 /\ Len(pending) \in Nat
      /\ \A i \in 1 .. Len(pending) : pending'[i] = pending[i]
      /\ pending'[Len(pending) + 1] = new
  BY <1>1, <1>2
<1>4. \A x : Carried(x)' => Carried(x)
  <2> SUFFICES ASSUME NEW x, NEW i \in 1 .. Len(pending'), pending'[i] = x PROVE Carried(x)
    BY <1>1 DEF Carried
  <2>1. CASE i = Len(pending) + 1
    BY <1>1, <1>3, <2>1 DEF Carried
  <2>2. CASE i \in 1 .. Len(pending)
    BY <1>3, <2>2 DEF Carried
  <2> QED
    BY <1>3, <2>1, <2>2
<1>5. \A k, b : Promised(k, b) => Promised(k, b)'
  <2> SUFFICES ASSUME NEW k, NEW b, Promised(k, b) PROVE Promised(k, b)'
    OBVIOUS
  <2>1. CASE \E u \in Threads : cpc[u] \in {"save", "post"} /\ msg[u].kind = k
    <3>1. PICK u \in Threads : cpc[u] \in {"save", "post"} /\ msg[u].kind = k
      BY <2>1
    <3>2. CASE u = t
      <4>1. Len(pending) + 1 \in 1 .. Len(pending') /\ pending'[Len(pending) + 1].kind = k
        BY <1>3, <3>1, <3>2
      <4> QED
        BY <4>1 DEF Promised
    <3>3. CASE u # t
      BY <1>1, <3>1, <3>3 DEF Promised
    <3> QED
      BY <3>2, <3>3
  <2>2. CASE \E i \in 1 .. Len(pending) : pending[i].kind = k
    <3>1. PICK i \in 1 .. Len(pending) : pending[i].kind = k
      BY <2>2
    <3>2. i \in 1 .. Len(pending') /\ pending'[i].kind = k
      BY <1>3, <3>1
    <3> QED
      BY <3>2 DEF Promised
  <2>3. CASE \E m \in sending : m.kind = k /\ b \in m.left
    BY <1>1, <2>3 DEF Promised
  <2> QED
    BY <2>1, <2>2, <2>3 DEF Promised
<1>6. Connected'
  BY <1>1 DEF DashViews, Connected
<1> QED
  BY <1>1, <1>4, <1>5, <1>6, PassingKeepsViews

(* What sending to b does.                                                 *)
LEMMA SendToSends ==
  ASSUME DashTyped, NEW b \in Browsers, NEW k \in Kind, NEW v, SendTo(b, k, v)
  PROVE  /\ \A c \in Browsers, j \in Kind : shown'[c][j] = shown[c][j] \/ (c = b /\ j = k)
         /\ peer[b] = "open" => shown'[b][k] = v
         /\ peer[b] # "open" => UNCHANGED shown
         /\ \A c \in conns : c \in conns' \/ (c = b /\ peer[b] # "open")
BY DEF SendTo, DashTyped, DashTypeOK

(* All that has to do with x goes to the targets, or waits for them.       *)
Delivers(x, targets) ==
  /\ \A m \in sending' : m \in sending \/ (m.kind = x.kind /\ m.ver = x.ver)
  /\ \A c \in targets : peer[c] = "open" =>
       shown'[c][x.kind] = x.ver \/ \E m \in sending' : m.kind = x.kind /\ c \in m.left
  /\ \A c \in Browsers, k \in Kind :
       shown'[c][k] = shown[c][k] \/ (k = x.kind /\ shown'[c][k] = x.ver)
  /\ \A c \in conns : peer[c] = "open" => c \in conns'

LEMMA SendToDelivers ==
  ASSUME DashTyped, NEW b \in Browsers, NEW x, x.kind \in Kind, NEW left \in SUBSET Browsers,
         SendTo(b, x.kind, x.ver), InFlight(x, left) \subseteq sending',
         sending' \subseteq sending \cup InFlight(x, left)
  PROVE  Delivers(x, left \cup {b})
<1>1. \A m \in sending' : m \in sending \/ (m.kind = x.kind /\ m.ver = x.ver)
  BY DEF InFlight
<1>2. \A c \in left : \E m \in sending' : m.kind = x.kind /\ c \in m.left
  BY DEF InFlight
<1> QED
  BY <1>1, <1>2, SendToSends DEF Delivers

LEMMA DeliveryKeepsConnected ==
  ASSUME DashViews, UNCHANGED <<peer, bpc>>, NEW x, NEW targets, Delivers(x, targets)
  PROVE  Connected'
BY DEF DashViews, Connected, Delivers

LEMMA StartKeepsViews ==
  ASSUME DashTyped, DashViews, StartBroadcast
  PROVE  DashViews'
<1> DEFINE first == Head(pending)
<1>1. /\ pending # <<>> /\ pending \in Seq(Message) /\ pending' = Tail(pending)
      /\ UNCHANGED <<cached, mixed, copied, upto, peer, bpc, cpc, msg>>
  BY DEF StartBroadcast, DashTyped, DashTypeOK, callVars
<1>2. /\ first \in Message /\ first = pending[1] /\ 1 \in 1 .. Len(pending)
      /\ Len(pending') = Len(pending) - 1 /\ Len(pending) \in Nat
      /\ \A i \in 1 .. Len(pending') : i + 1 \in 1 .. Len(pending) /\ pending'[i] = pending[i + 1]
  BY <1>1
<1>3. \A i \in 1 .. Len(pending) : i = 1 \/ (i - 1 \in 1 .. Len(pending') /\ pending'[i - 1] = pending[i])
  <2> SUFFICES ASSUME NEW i \in 1 .. Len(pending), i # 1
               PROVE  i - 1 \in 1 .. Len(pending') /\ pending'[i - 1] = pending[i]
    OBVIOUS
  <2>1. i - 1 \in 1 .. Len(pending')
    BY <1>2
  <2>2. pending'[i - 1] = pending[(i - 1) + 1]
    BY <1>2, <2>1
  <2> QED
    BY <2>1, <2>2
<1>4. first.kind \in Kind /\ first.ver \in Version /\ Carried(first)
  BY <1>2 DEF Message, Carried
<1> HIDE DEF first
<1>5. Delivers(first, conns) /\ sending \subseteq sending'
  <2>1. CASE conns = {} /\ UNCHANGED <<sending, shown, conns>>
    BY <2>1 DEF Delivers
  <2>2. ASSUME NEW b \in conns, SendTo(b, first.kind, first.ver),
               sending' = sending \cup InFlight(first, conns \ {b})
        PROVE  Delivers(first, conns)
    <3>1. b \in Browsers /\ conns \ {b} \in SUBSET Browsers /\ conns = (conns \ {b}) \cup {b}
      BY DEF DashTyped, DashTypeOK
    <3>2. Delivers(first, (conns \ {b}) \cup {b})
      BY <1>4, <2>2, <3>1, SendToDelivers
    <3> QED
      BY <3>1, <3>2
  <2> QED
    BY <2>1, <2>2 DEF StartBroadcast, Targets, first
<1>6. \A x \in Message : Carried(x)' => Carried(x)
  <2> SUFFICES ASSUME NEW x \in Message, Carried(x)' PROVE Carried(x)
    OBVIOUS
  <2>1. ASSUME NEW i \in 1 .. Len(pending'), pending'[i] = x PROVE Carried(x)
    <3>1. i + 1 \in 1 .. Len(pending) /\ pending[i + 1] = x
      BY <1>2, <2>1
    <3> QED
      BY <3>1 DEF Carried
  <2>2. ASSUME NEW m \in sending', m.kind = x.kind, m.ver = x.ver PROVE Carried(x)
    <3>1. CASE m \in sending
      BY <2>2, <3>1 DEF Carried
    <3>2. CASE first.kind = x.kind /\ first.ver = x.ver
      BY <1>2, <1>4, <3>2 DEF Message
    <3> QED
      BY <1>5, <2>2, <3>1, <3>2 DEF Delivers
  <2> QED
    BY <1>1, <2>1, <2>2 DEF Carried
<1>7. ASSUME NEW k \in Kind, NEW b \in Browsers, Served(k, b), Promised(k, b)
      PROVE  Promised(k, b)' \/ Sent(k, b)
  <2>1. b \in conns /\ peer[b] = "open"
    BY <1>7 DEF Served, DashViews, Connected
  <2>2. ASSUME NEW i \in 1 .. Len(pending), pending[i].kind = k PROVE Promised(k, b)' \/ Sent(k, b)
    <3>1. CASE i = 1
      <4>1. first.kind = k
        BY <1>2, <2>2, <3>1
      <4>2. shown'[b][k] = first.ver \/ \E m \in sending' : m.kind = k /\ b \in m.left
        BY <1>5, <2>1, <4>1 DEF Delivers
      <4> QED
        BY <1>2, <1>4, <4>1, <4>2 DEF Sent, Promised
    <3>2. CASE i # 1
      <4>1. i - 1 \in 1 .. Len(pending') /\ pending'[i - 1].kind = k
        BY <1>3, <2>2, <3>2
      <4> QED
        BY <4>1 DEF Promised
    <3> QED
      BY <3>1, <3>2
  <2>3. (\E m \in sending : m.kind = k /\ b \in m.left) => Promised(k, b)'
    BY <1>5 DEF Promised
  <2>4. (\E t \in Threads : cpc[t] \in {"save", "post"} /\ msg[t].kind = k) => Promised(k, b)'
    BY <1>1 DEF Promised
  <2> QED
    BY <1>7, <2>2, <2>3, <2>4 DEF Promised
<1>8. \A k \in Kind, b \in Browsers : shown'[b][k] = shown[b][k] \/ Sent(k, b)
  BY <1>2, <1>4, <1>5 DEF Delivers, Sent
<1>9. Connected'
  BY <1>1, <1>5, DeliveryKeepsConnected
<1> QED
  BY <1>1, <1>6, <1>7, <1>8, <1>9, PassingKeepsViews

LEMMA SendKeepsViews ==
  ASSUME DashTyped, DashViews, NEW m \in sending, NEW b \in m.left, Send(m, b)
  PROVE  DashViews'
<1> DEFINE x == [kind |-> m.kind, ver |-> m.ver]
<1>1. /\ m.kind \in Kind /\ m.ver \in Version /\ m.left \in SUBSET Browsers
      /\ b \in Browsers /\ m.left \ {b} \in SUBSET Browsers /\ m.left = (m.left \ {b}) \cup {b}
  BY DEF DashTyped, DashTypeOK
<1>2. /\ SendTo(b, m.kind, m.ver)
      /\ sending' = (sending \ {m}) \cup InFlight(m, m.left \ {b})
      /\ UNCHANGED <<cached, mixed, copied, upto, peer, bpc, cpc, msg, pending>>
  BY DEF Send, callVars
<1>3. Delivers(m, (m.left \ {b}) \cup {b})
  BY <1>1, <1>2, SendToDelivers
<1>4. Delivers(m, m.left)
  BY <1>1, <1>3
<1>5. x \in Message /\ Carried(x) /\ x.kind = m.kind /\ x.ver = m.ver
  BY <1>1 DEF Message, Carried
<1> HIDE DEF x
<1>6. \A y : Carried(y)' => Carried(y)
  BY <1>2, <1>4 DEF Carried, Delivers
<1>7. ASSUME NEW k \in Kind, NEW c \in Browsers, Served(k, c), Promised(k, c)
      PROVE  Promised(k, c)' \/ Sent(k, c)
  <2>1. peer[c] = "open"
    BY <1>7 DEF Served
  <2>2. ASSUME NEW n \in sending, n.kind = k, c \in n.left PROVE Promised(k, c)' \/ Sent(k, c)
    <3>1. CASE n = m
      <4>1. shown'[c][k] = m.ver \/ \E o \in sending' : o.kind = k /\ c \in o.left
        BY <1>4, <2>1, <2>2, <3>1 DEF Delivers
      <4> QED
        BY <1>5, <2>2, <3>1, <4>1 DEF Sent, Promised
    <3>2. CASE n # m
      BY <1>2, <2>2, <3>2 DEF Promised
    <3> QED
      BY <3>1, <3>2
  <2> QED
    BY <1>2, <1>7, <2>2 DEF Promised
<1>8. \A k \in Kind, c \in Browsers : shown'[c][k] = shown[c][k] \/ Sent(k, c)
  BY <1>4, <1>5 DEF Delivers, Sent
<1>9. Connected'
  BY <1>2, <1>4, DeliveryKeepsConnected
<1> QED
  BY <1>2, <1>6, <1>7, <1>8, <1>9, PassingKeepsViews

(* From a copy whose kinds from i on are current, a browser is shown some. *)
LEMMA HydrateKeepsViews ==
  ASSUME DashTyped, DashViews, NEW b \in Browsers, NEW c \in [Kind -> Version],
         NEW i \in 1 .. LastDashKind + 1, HydrateFrom(b, c, i),
         UNCHANGED <<cpc, msg, pending, sending, conns, peer>>,
         peer[b] = "open" => b \in conns,
         \A k \in Kind : cached'[k] = 0 => cached[k] = 0 /\ c[k] = 0,
         \A x \in Message, a \in Browsers :
           Carried(x) /\ <<a, x.kind>> \notin mixed' => x.ver = cached'[x.kind],
         \A k \in Kind, a \in Browsers : <<a, k>> \notin mixed' /\ (a # b \/ k < i)
           => <<a, k>> \notin mixed /\ cached'[k] = cached[k],
         \A k \in Kind : <<b, k>> \notin mixed' =>
           IF k < i THEN peer[b] = "open" => Served(k, b) ELSE c[k] = cached'[k]
  PROVE  DashViews'
<1>1. i \in Nat /\ \A k \in Kind : k \in Nat /\ k \in 1 .. LastDashKind
  BY DashBoundAssumption DEF Kind
<1>2. UNCHANGED <<cpc, msg, pending, sending, conns, peer>>
  OBVIOUS
<1>3. /\ \A x : Carried(x)' => Carried(x)
      /\ \A k, a : Promised(k, a)' <=> Promised(k, a)
      /\ \A x \in Message : x.kind \in Kind
  BY <1>2 DEF Carried, Promised, Message
<1>4. ASSUME NEW k \in Kind, NEW a \in Browsers
      PROVE  /\ cached'[k] = 0 => shown[a][k] = 0
             /\ /\ <<a, k>> \notin mixed' /\ (a # b \/ k < i)
                /\ Served(k, a) /\ ~Promised(k, a)
                => shown[a][k] = cached'[k]
  BY DEF DashViews, NothingEarly, ViewsTold
<1>5. ASSUME NEW n \in i .. LastDashKind, peer[b] = "open",
             c[n] # 0, \A j \in i .. n - 1 : c[j] = 0,
             shown' = [shown EXCEPT ![b][n] = c[n]], copied' = [copied EXCEPT ![b] = c],
             upto' = [upto EXCEPT ![b] = n + 1], bpc' = [bpc EXCEPT ![b] = "hydrate"]
      PROVE  DashViews'
  <2>1. n \in Kind /\ n \in Nat /\ n >= i
    BY <1>1, DashBoundAssumption DEF Kind
  <2>2. /\ bpc'[b] = "hydrate" /\ upto'[b] = n + 1 /\ copied'[b] = c
        /\ \A k \in Kind : shown'[b][k] = IF k = n THEN c[n] ELSE shown[b][k]
        /\ \A a \in Browsers \ {b} : /\ bpc'[a] = bpc[a] /\ upto'[a] = upto[a]
                                     /\ copied'[a] = copied[a] /\ shown'[a] = shown[a]
    BY <1>5, <2>1 DEF DashTyped, DashTypeOK
  <2>3. Connected'
    BY <1>2, <2>2 DEF DashViews, Connected
  <2>4. NothingEarly'
    BY <1>2, <1>3, <1>5, <2>2 DEF DashViews, NothingEarly
  <2>5. NothingStale'
    <3>1. \A k \in Kind : <<b, k>> \notin mixed' /\ upto'[b] <= k => c[k] = cached'[k]
      BY <1>1, <2>1, <2>2
    <3> QED
      BY <1>2, <1>3, <2>2, <3>1 DEF DashViews, NothingStale
  <2>6. ViewsTold'
    <3> SUFFICES ASSUME NEW k \in Kind, NEW a \in Browsers, <<a, k>> \notin mixed',
                        Served(k, a)', ~Promised(k, a)
                 PROVE  shown'[a][k] = cached'[k]
      BY <1>2, <1>3 DEF ViewsTold
    <3>1. CASE a # b
      <4>1. Served(k, a)
        BY <1>2, <2>2, <3>1 DEF Served
      <4> QED
        BY <1>4, <2>2, <3>1, <4>1
    <3>2. CASE a = b
      <4>1. n + 1 > k
        BY <2>2, <3>2 DEF Served
      <4>2. CASE k = n
        BY <2>1, <2>2, <3>2, <4>2
      <4>3. CASE k < i
        BY <1>1, <1>4, <1>5, <2>1, <2>2, <3>2, <4>3
      <4>4. CASE k \in i .. n - 1
        <5>1. c[k] = 0 /\ cached'[k] = 0
          BY <1>1, <1>5, <3>2, <4>4
        <5> QED
          BY <1>1, <1>4, <2>1, <2>2, <3>2, <4>4, <5>1
      <4> QED
        <5>1. k \in Nat /\ i \in Nat /\ n \in Nat /\ n >= i
          BY <1>1, <2>1
        <5>2. k = n \/ k < i \/ k \in i .. n - 1
          BY <4>1, <5>1
        <5> QED
          BY <4>2, <4>3, <4>4, <5>2
    <3> QED
      BY <3>1, <3>2
  <2> QED
    BY <2>3, <2>4, <2>5, <2>6 DEF DashViews
<1>6. ASSUME peer[b] # "open" \/ \A k \in i .. LastDashKind : c[k] = 0,
             copied' = [copied EXCEPT ![b] = Nothing], upto' = [upto EXCEPT ![b] = 1],
             bpc' = [bpc EXCEPT ![b] = "listen"], UNCHANGED shown
      PROVE  DashViews'
  <2>1. /\ bpc'[b] = "listen" /\ copied'[b] = Nothing
        /\ \A a \in Browsers \ {b} : /\ bpc'[a] = bpc[a] /\ upto'[a] = upto[a]
                                     /\ copied'[a] = copied[a]
    BY <1>6 DEF DashTyped, DashTypeOK
  <2>2. Connected'
    BY <1>2, <2>1 DEF DashViews, Connected
  <2>3. NothingEarly'
    BY <1>2, <1>3, <1>6, <2>1 DEF DashViews, NothingEarly, Nothing
  <2>4. NothingStale'
    BY <1>2, <1>3, <2>1 DEF DashViews, NothingStale
  <2>5. ViewsTold'
    <3> SUFFICES ASSUME NEW k \in Kind, NEW a \in Browsers, <<a, k>> \notin mixed',
                        Served(k, a)', ~Promised(k, a)
                 PROVE  shown[a][k] = cached'[k]
      BY <1>2, <1>3, <1>6 DEF ViewsTold
    <3>1. CASE a # b
      <4>1. Served(k, a)
        BY <1>2, <2>1, <3>1 DEF Served
      <4> QED
        BY <1>4, <3>1, <4>1
    <3>2. CASE a = b
      <4>1. peer[b] = "open" /\ \A j \in i .. LastDashKind : c[j] = 0
        BY <1>2, <1>6, <3>2 DEF Served
      <4>2. CASE k < i
        BY <1>4, <3>2, <4>1, <4>2
      <4>3. CASE k >= i
        <5>1. c[k] = 0
          BY <1>1, <4>1, <4>3
        <5> QED
          BY <1>1, <1>4, <3>2, <4>3, <5>1
      <4> QED
        BY <1>1, <4>2, <4>3
    <3> QED
      BY <3>1, <3>2
  <2> QED
    BY <2>2, <2>3, <2>4, <2>5 DEF DashViews
<1> QED
  BY <1>5, <1>6 DEF HydrateFrom

LEMMA CopyKeepsViews ==
  ASSUME DashTyped, DashViews, NEW b \in Browsers, CopyHistory(b)
  PROVE  DashViews'
<1>1. PICK fresh \in SUBSET Fetched :
        /\ world' = IF fresh = {} THEN world ELSE world + 1
        /\ cached' = [k \in Kind |-> IF k \in fresh THEN world' ELSE cached[k]]
        /\ mixed' = {e \in mixed : ~(e[1] = b /\ e[2] \in fresh)}
                       \cup ((Browsers \ {b}) \X fresh)
                       \cup {<<b, k>> : k \in {j \in fresh : OnItsWay(j)}}
  BY DEF CopyHistory
<1>2. /\ cached' \in [Kind -> Version] /\ 1 \in 1 .. LastDashKind + 1
      /\ HydrateFrom(b, cached', 1)
      /\ UNCHANGED <<cpc, msg, pending, sending, conns, peer>>
  BY CopyTyped, NothingYet DEF CopyHistory, CopiedTyped
<1>3. peer[b] = "open" => b \in conns
  BY DEF CopyHistory, DashViews, Connected
<1>4. \A k \in Kind : ~(k < 1)
  BY DashBoundAssumption DEF Kind
<1>5. \A k \in Kind : cached'[k] = IF k \in fresh THEN world' ELSE cached[k]
  BY <1>1
<1>6. fresh # {} => world' # 0
  BY <1>1 DEF DashTyped, DashTypeOK, Version
<1>7. \A k \in Kind : cached'[k] = 0 => cached[k] = 0
  BY <1>5, <1>6
<1>8. ASSUME NEW k \in Kind, NEW a \in Browsers, <<a, k>> \notin mixed'
      PROVE  IF k \in fresh THEN a = b /\ ~OnItsWay(k) ELSE <<a, k>> \notin mixed
  BY <1>1, <1>8
<1>9. ASSUME NEW x \in Message, NEW a \in Browsers, Carried(x), <<a, x.kind>> \notin mixed'
      PROVE  x.ver = cached'[x.kind]
  <2>1. x.kind \in Kind
    BY DEF Message
  <2>2. OnItsWay(x.kind)
    BY <1>9 DEF Carried, OnItsWay
  <2>3. x.kind \notin fresh /\ <<a, x.kind>> \notin mixed
    BY <1>8, <1>9, <2>1, <2>2
  <2> QED
    BY <1>5, <1>9, <2>1, <2>3 DEF DashViews, NothingStale
<1>10. \A k \in Kind, a \in Browsers : <<a, k>> \notin mixed' /\ (a # b \/ k < 1)
         => <<a, k>> \notin mixed /\ cached'[k] = cached[k]
  BY <1>4, <1>5, <1>8
<1> QED
  BY <1>2, <1>3, <1>4, <1>7, <1>9, <1>10, HydrateKeepsViews

LEMMA SendCopyKeepsViews ==
  ASSUME DashTyped, DashViews, NEW b \in Browsers, SendCopy(b)
  PROVE  DashViews'
<1>1. copied[b] \in [Kind -> Version] /\ upto[b] \in 1 .. LastDashKind + 1 /\ bpc[b] = "hydrate"
  BY DEF SendCopy, DashTyped, DashTypeOK
<1>2. peer[b] = "open" => b \in conns
  BY <1>1 DEF DashViews, Connected
<1>3. \A k \in Kind : cached[k] = 0 => copied[b][k] = 0
  BY DEF DashViews, NothingEarly
<1>4. ASSUME NEW k \in Kind, <<b, k>> \notin mixed
      PROVE  IF k < upto[b] THEN peer[b] = "open" => Served(k, b) ELSE copied[b][k] = cached[k]
  <2>1. k \in Nat /\ upto[b] \in Nat
    BY <1>1, DashBoundAssumption DEF Kind
  <2> QED
    BY <1>1, <1>4, <2>1 DEF DashViews, NothingStale, Served
<1>5. /\ UNCHANGED <<cached, mixed, cpc, msg, pending, sending, conns, peer>>
      /\ HydrateFrom(b, copied[b], upto[b])
  BY DEF SendCopy, callVars
<1>6. \A x \in Message, a \in Browsers :
        Carried(x) /\ <<a, x.kind>> \notin mixed => x.ver = cached[x.kind]
  BY DEF DashViews, NothingStale
<1> QED
  BY <1>1, <1>2, <1>3, <1>4, <1>5, <1>6, HydrateKeepsViews

LEMMA RebootKeepsViews ==
  ASSUME Reboot
  PROVE  DashViews'
<1>1. /\ \A t \in Threads : cpc'[t] = "idle"
      /\ pending' = <<>> /\ sending' = {} /\ mixed' = {} /\ \A b \in Browsers : bpc'[b] = "new"
      /\ \A b \in Browsers : shown'[b] = Nothing /\ copied'[b] = Nothing
  BY DEF Reboot
<1>2. \A x : ~Carried(x)'
  BY <1>1 DEF Carried
<1> QED
  BY <1>1, <1>2
     DEF DashViews, Connected, NothingEarly, NothingStale, ViewsTold, Served, Nothing

LEMMA StepKeepsViews ==
  ASSUME DashTyped, DashViews, [DashNext]_dashVars
  PROVE  DashViews'
<1>1. ASSUME NEW t \in Threads, ThreadStep(t) PROVE DashViews'
  BY <1>1, RecordKeepsViews, SaveKeepsViews, PostKeepsViews DEF ThreadStep
<1>2. ASSUME ServeStep PROVE DashViews'
  BY <1>2, StartKeepsViews, SendKeepsViews, CopyKeepsViews, SendCopyKeepsViews, QuietSteps
     DEF ServeStep, Handler
<1> QED
  BY <1>1, <1>2, RebootKeepsViews, QuietSteps DEF DashNext

(* Every browser that stays shows what the cache holds of a kind whose     *)
(* last broadcast met no other and that was not read again for another     *)
(* browser since (broadcast, _async_broadcast, _hydrate_client,            *)
(* websocket_endpoint): for all browsers, threads and kinds of message.    *)
THEOREM ViewsAreCurrent == DashSpec => []ViewsCurrent
<1>1. DashViews => ViewsCurrent
  BY DEF DashViews, ViewsTold, ViewsCurrent, Served, Promised
<1> QED
  BY <1>1, DashInitTyped, DashStepTyped, ViewsInit, StepKeepsViews, PTL DEF DashSpec

-----------------------------------------------------------------------------
(* TradeLog.                                                               *)

-----------------------------------------------------------------------------
(* TradeLog: files of lines.                                               *)

(* What follows a write; only the last line changes.                       *)
LEMMA AppendedLines ==
  ASSUME NEW file, NEW L, file \in Seq(L), Junk \in L, NEW line \in L,
         NEW open, open => file # <<>>, NEW end,
         NEW after, after = Appended(file, open, line, end)
  PROVE  /\ after \in Seq(L)
         /\ RaggedAfter(open, end) => after # <<>>
         /\ Len(after) \in {Len(file), Len(file) + 1}
         /\ end = "none" => after = file
         /\ end # "none" /\ open =>
              /\ Len(after) = Len(file) /\ after[Len(file)] = Junk
              /\ \A i \in 1 .. Len(file) - 1 : after[i] = file[i]
         /\ end # "none" /\ ~open =>
              /\ Len(after) = Len(file) + 1
              /\ after[Len(file) + 1] = IF end = "cut" THEN Junk ELSE line
              /\ \A i \in 1 .. Len(file) : after[i] = file[i]
<1>1. CASE end = "none"
  BY <1>1 DEF Appended, RaggedAfter
<1>2. CASE end # "none" /\ open
  <2>1. after = [file EXCEPT ![Len(file)] = Junk]
    BY <1>2 DEF Appended
  <2>2. Len(file) \in 1 .. Len(file) /\ Len(file) \in Nat
    BY <1>2
  <2>3. /\ after \in Seq(L) /\ Len(after) = Len(file) /\ after[Len(file)] = Junk
        /\ \A i \in 1 .. Len(file) - 1 : after[i] = file[i]
    BY <2>1, <2>2
  <2>4. after # <<>>
    BY <2>2, <2>3
  <2> QED
    BY <1>2, <2>3, <2>4
<1>3. CASE end # "none" /\ ~open
  <2>1. after = Append(file, IF end = "cut" THEN Junk ELSE line)
    BY <1>3 DEF Appended
  <2> QED
    BY <1>3, <2>1 DEF RaggedAfter
<1> QED
  BY <1>1, <1>2, <1>3

(* Lines                                                                   *)
LEMMA LineKinds ==
  /\ Junk.kind = "junk"
  /\ \A t, d : Closing(t, d).kind = "closed" /\ Closing(t, d).ticket = t /\ Closing(t, d).deal = d
  /\ \A t, d : Closing(t, d) # Junk
  /\ \A line \in Openings : line.kind = "open"
BY LogAssumption DEF Junk, Closing

-----------------------------------------------------------------------------
(* TradeLog: type correctness.                                             *)
LogTyped ==
  LogTypeOK /\ (ragged => signals # <<>>) /\ (dryRagged => dry # <<>>)

LEMMA LogInitTyped == LogInit => LogTyped
<1> SUFFICES ASSUME LogInit PROVE LogTyped
  OBVIOUS
<1>1. signals \in Seq(Lines) /\ Len(signals) <= MaxLines
  <2>1. CASE signals = <<>>
    BY <2>1, LogAssumption
  <2>2. CASE \E line \in Openings : signals = <<line>>
    BY <2>2, LogAssumption DEF Lines
  <2> QED
    BY <2>1, <2>2 DEF LogInit
<1>2. /\ dry = <<>> /\ dry \in Seq({Junk, Order}) /\ Len(dry) = 0
      /\ orders = 0 /\ failures \in 0 .. orders /\ orders \in 0 .. MaxOrders
      /\ kept \in [Trades -> Deals \cup {NoHistory, Untold}]
  BY LogAssumption DEF LogInit
<1>3. ragged = FALSE /\ dryRagged = FALSE /\ looping = TRUE
  BY DEF LogInit
<1> QED
  <2>1. Len(dry) <= orders
    BY <1>2
  <2>2. ragged \in BOOLEAN /\ dryRagged \in BOOLEAN /\ looping \in BOOLEAN
    BY <1>3
  <2>3. LogTypeOK
    BY <1>1, <1>2, <2>1, <2>2, Zenon DEF LogTypeOK
  <2> QED
    BY <1>3, <2>3, Zenon DEF LogTyped

LEMMA CloseTyped ==
  ASSUME LogTyped, NEW t \in Trades, NEW d \in Deals \cup {NoHistory}, NEW end \in Ends,
         LogClose(t, d, end)
  PROVE  LogTyped'
<1>1. Closing(t, d) \in Lines /\ Junk \in Lines
  BY DEF Lines
<1>2. /\ signals' \in Seq(Lines) /\ ragged' \in BOOLEAN /\ (ragged' => signals' # <<>>)
      /\ Len(signals') \in {Len(signals), Len(signals) + 1}
  <2>1. signals \in Seq(Lines) /\ ragged \in BOOLEAN /\ (ragged => signals # <<>>)
    BY DEF LogTyped, LogTypeOK
  <2>2. /\ signals' = Appended(signals, ragged, Closing(t, d), end)
        /\ ragged' = RaggedAfter(ragged, end)
    BY DEF LogClose
  <2>3. signals' \in Seq(Lines)
    BY <1>1, <2>1, <2>2, AppendedLines
  <2>5. Len(signals') \in {Len(signals), Len(signals) + 1}
    BY <1>1, <2>1, <2>2, AppendedLines
  <2>6. RaggedAfter(ragged, end) => signals' # <<>>
    BY <1>1, <2>1, <2>2, AppendedLines
  <2>4. ragged' \in BOOLEAN
    BY <2>1, <2>2 DEF RaggedAfter
  <2> QED
    BY <2>2, <2>3, <2>4, <2>5, <2>6
<1>3. Len(signals') <= MaxLines
  BY <1>2, LogAssumption DEF LogClose, LogTyped, LogTypeOK
<1> QED
  BY <1>2, <1>3 DEF LogClose, LogTyped, LogTypeOK

LEMMA OrderTyped ==
  ASSUME LogTyped, NEW end \in Ends, LogOrder(end)
  PROVE  LogTyped'
<1> DEFINE L == {Junk, Order}
<1>1. /\ dry \in Seq(L) /\ dryRagged \in BOOLEAN /\ (dryRagged => dry # <<>>)
      /\ Junk \in L /\ Order \in L
  BY DEF LogTyped, LogTypeOK
<1>2. dry' = Appended(dry, dryRagged, Order, end) /\ dryRagged' = RaggedAfter(dryRagged, end)
  BY DEF LogOrder
<1> HIDE DEF L
<1>3. dry' \in Seq(L)
  BY <1>1, <1>2, AppendedLines
<1>4. Len(dry') \in {Len(dry), Len(dry) + 1}
  BY <1>1, <1>2, AppendedLines
<1>5. RaggedAfter(dryRagged, end) => dry' # <<>>
  BY <1>1, <1>2, AppendedLines
<1>6. dryRagged' \in BOOLEAN
  BY <1>1, <1>2 DEF RaggedAfter
<1>7. Len(dry) \in Nat
  BY <1>1
<1>8. orders' \in 0 .. MaxOrders /\ failures' \in 0 .. orders' /\ Len(dry') <= orders'
  BY <1>4, <1>7, LogAssumption DEF LogOrder, LogTyped, LogTypeOK
<1>9. looping' \in BOOLEAN
  BY DEF LogOrder
<1> QED
  BY <1>2, <1>3, <1>5, <1>6, <1>8, <1>9 DEF LogOrder, LogTyped, LogTypeOK, L

LEMMA LogStepTyped ==
  ASSUME LogTyped, [LogNext]_logVars
  PROVE  LogTyped'
<1>1. CASE LogRestart
  <2>1. looping' = TRUE /\ UNCHANGED <<signals, ragged, kept, dry, dryRagged, orders, failures>>
    BY <1>1 DEF LogRestart
  <2> QED
    BY <2>1 DEF LogTyped, LogTypeOK
<1>2. CASE UNCHANGED logVars
  BY <1>2 DEF logVars, LogTyped, LogTypeOK
<1> QED
  BY <1>1, <1>2, CloseTyped, OrderTyped DEF LogNext

(* Writes that fail or break off keep the variables of the logs in their   *)
(* types, for all trades, deals and openings.                              *)
THEOREM LogTypeCorrect == LogSpec => []LogTypeOK
<1>1. LogTyped => LogTypeOK
  BY DEF LogTyped
<1> QED
  BY <1>1, LogInitTyped, LogStepTyped, PTL DEF LogSpec

-----------------------------------------------------------------------------
(* TradeLog: the trades that are told.                                     *)

(* The last record of a trade's close, one without its end aside, is the   *)
(* one that was kept.                                                      *)
Whole(t) == {i \in Records(signals, "closed", t) : ~(ragged /\ i = Len(signals))}

KeptIsLast ==
  \A t \in Trades : kept[t] # Untold =>
    /\ kept[t] \in Deals \cup {NoHistory}
    /\ \E i \in Whole(t) : signals[i].deal = kept[t] /\ \A j \in Whole(t) : j <= i

LEMMA KeptInit == LogInit => KeptIsLast
BY DEF LogInit, KeptIsLast

(* The records of a trade after a write.                                   *)
LEMMA WholeAfter ==
  ASSUME LogTyped, NEW t \in Trades, NEW d \in Deals \cup {NoHistory}, NEW end \in Ends,
         LogClose(t, d, end), NEW u \in Trades
  PROVE  /\ \A i \in Whole(u) : i \in Whole(u)' /\ signals'[i] = signals[i] /\ i <= Len(signals)
         /\ Whole(u)' = IF end = "whole" /\ ~ragged /\ u = t
                        THEN Whole(u) \cup {Len(signals) + 1} ELSE Whole(u)
         /\ end = "whole" /\ ~ragged => signals'[Len(signals) + 1] = Closing(t, d)
<1> DEFINE n == Len(signals)
           line == Closing(t, d)
<1>1. /\ signals \in Seq(Lines) /\ n \in Nat /\ DOMAIN signals = 1 .. n /\ (ragged => n > 0)
  BY DEF LogTyped, LogTypeOK
<1>2. /\ signals' = Appended(signals, ragged, line, end) /\ ragged' = RaggedAfter(ragged, end)
  BY DEF LogClose
<1>3. CASE end = "none"
  <2>1. signals' = signals /\ ragged' = ragged
    BY <1>2, <1>3 DEF Appended, RaggedAfter
  <2>2. Whole(u)' = Whole(u)
    BY <2>1 DEF Whole
  <2>3. Whole(u) \subseteq 1 .. n
    BY <1>1 DEF Whole, Records, Readable
  <2> QED
    BY <1>1, <1>3, <2>1, <2>2, <2>3
<1>4. CASE end # "none" /\ ragged
  <2>1. signals' = [signals EXCEPT ![n] = Junk]
    BY <1>2, <1>4 DEF Appended
  <2>2. /\ DOMAIN signals' = 1 .. n /\ signals'[n] = Junk /\ Len(signals') = n
        /\ \A i \in 1 .. n : i # n => signals'[i] = signals[i]
    <3>1. Junk \in Lines /\ n \in 1 .. n
      BY <1>1, <1>4 DEF Lines
    <3>2. signals' \in Seq(Lines) /\ Len(signals') = n
      BY <1>1, <2>1, <3>1
    <3> QED
      BY <1>1, <2>1, <3>1, <3>2
  <2>3. Whole(u) = {i \in 1 .. n : i # n /\ signals[i] # Junk /\ signals[i].kind = "closed" /\ signals[i].ticket = u}
    BY <1>1, <1>4 DEF Whole, Records, Readable
  <2>4. Whole(u)' = {i \in 1 .. n : i # n /\ signals[i] # Junk /\ signals[i].kind = "closed" /\ signals[i].ticket = u}
    BY <1>1, <2>2 DEF Whole, Records, Readable
  <2>5. Whole(u)' = Whole(u) /\ \A i \in Whole(u) : i \in 1 .. n /\ i # n
    BY <2>3, <2>4
  <2>6. \A i \in Whole(u) : i \in Whole(u)' /\ signals'[i] = signals[i] /\ i <= n
    <3> SUFFICES ASSUME NEW i \in Whole(u)
                 PROVE  i \in Whole(u)' /\ signals'[i] = signals[i] /\ i <= n
      OBVIOUS
    <3>1. i \in 1 .. n /\ i # n /\ i \in Whole(u)'
      BY <2>5
    <3>2. signals'[i] = signals[i]
      BY <2>2, <3>1
    <3>3. \A m \in Nat : \A j \in 1 .. m : j <= m
      OBVIOUS
    <3>4. i <= n
      BY <1>1, <3>1, <3>3
    <3> QED
      BY <3>1, <3>2, <3>4
  <2> QED
    BY <1>4, <2>5, <2>6
<1>5. CASE end # "none" /\ ~ragged
  <2>1. signals' = Append(signals, IF end = "cut" THEN Junk ELSE line) /\ ragged' = (end # "whole")
    BY <1>2, <1>5 DEF Appended, RaggedAfter
  <2>2. /\ DOMAIN signals' = 1 .. n + 1 /\ Len(signals') = n + 1
        /\ signals'[n + 1] = IF end = "cut" THEN Junk ELSE line
        /\ \A i \in 1 .. n : signals'[i] = signals[i]
    BY <1>1, <2>1
  <2>3. Whole(u) = {i \in 1 .. n : signals[i] # Junk /\ signals[i].kind = "closed" /\ signals[i].ticket = u}
    BY <1>1, <1>5 DEF Whole, Records, Readable
  <2>4. Whole(u)' = {i \in 1 .. n + 1 : signals'[i] # Junk /\ signals'[i].kind = "closed"
                                        /\ signals'[i].ticket = u /\ ~(end # "whole" /\ i = n + 1)}
    BY <2>1, <2>2 DEF Whole, Records, Readable
  <2>5. \A i \in 1 .. n + 1 : i \in 1 .. n \/ i = n + 1
    BY <1>1
  <2>6. n + 1 \in Whole(u)' <=> end = "whole" /\ u = t
    BY <1>1, <2>2, <2>4, LineKinds
  <2>7. \A i \in 1 .. n : i \in Whole(u)' <=> i \in Whole(u)
    BY <1>1, <2>2, <2>3, <2>4
  <2>8. Whole(u)' \subseteq 1 .. n + 1 /\ Whole(u) \subseteq 1 .. n
    BY <2>3, <2>4
  <2>9. \A i \in Whole(u) : i \in Whole(u)' /\ signals'[i] = signals[i] /\ i <= n
    BY <1>1, <2>2, <2>7, <2>8
  <2>10. Whole(u)' = IF end = "whole" /\ u = t THEN Whole(u) \cup {n + 1} ELSE Whole(u)
    <3>1. CASE end = "whole" /\ u = t
      <4>1. n + 1 \in Whole(u)'
        BY <2>6, <3>1
      <4> QED
        BY <2>5, <2>7, <2>8, <3>1, <4>1
    <3>2. CASE ~(end = "whole" /\ u = t)
      <4>1. n + 1 \notin Whole(u)'
        BY <2>6, <3>2
      <4> QED
        <5>1. Whole(u)' \subseteq Whole(u)
          BY <2>5, <2>7, <2>8, <4>1
        <5>2. Whole(u) \subseteq Whole(u)'
          BY <2>7, <2>8
        <5> QED
          BY <3>2, <5>1, <5>2
    <3> QED
      BY <3>1, <3>2
  <2>11. end = "whole" => signals'[n + 1] = line
    BY <2>2
  <2> QED
    BY <1>5, <2>9, <2>10, <2>11
<1> QED
  BY <1>3, <1>4, <1>5

LEMMA CloseKeepsLast ==
  ASSUME LogTyped, KeptIsLast, NEW t \in Trades, NEW d \in Deals \cup {NoHistory},
         NEW end \in Ends, LogClose(t, d, end)
  PROVE  KeptIsLast'
<1> SUFFICES ASSUME NEW u \in Trades, kept'[u] # Untold
             PROVE  /\ kept'[u] \in Deals \cup {NoHistory}
                    /\ \E i \in Whole(u)' : signals'[i].deal = kept'[u] /\ \A j \in Whole(u)' : j <= i
  BY DEF KeptIsLast
<1>1. kept \in [Trades -> Deals \cup {NoHistory, Untold}] /\ Len(signals) \in Nat
  BY DEF LogTyped, LogTypeOK
<1>2. kept' = IF end = "whole" /\ ~ragged THEN [kept EXCEPT ![t] = d] ELSE kept
  BY DEF LogClose
<1>3. \A i \in Whole(u) : i \in Whole(u)' /\ signals'[i] = signals[i] /\ i <= Len(signals)
  BY WholeAfter
<1>4. Whole(u) \subseteq Nat
  BY DEF Whole, Records, Readable, LogTyped, LogTypeOK
<1>5. CASE end = "whole" /\ ~ragged /\ u = t
  <2>1. kept'[u] = d
    BY <1>1, <1>2, <1>5
  <2>2. Whole(u)' = Whole(u) \cup {Len(signals) + 1}
    BY <1>5, WholeAfter
  <2>3. signals'[Len(signals) + 1].deal = d
    BY <1>5, WholeAfter, LineKinds
  <2>4. \A j \in Whole(u)' : j <= Len(signals) + 1
    BY <1>1, <1>3, <1>4, <2>2
  <2> QED
    BY <2>1, <2>2, <2>3, <2>4
<1>6. CASE ~(end = "whole" /\ ~ragged /\ u = t)
  <2>1. kept'[u] = kept[u]
    BY <1>1, <1>2, <1>6
  <2>2. Whole(u)' = Whole(u)
    BY <1>6, WholeAfter
  <2> QED
    BY <1>3, <2>1, <2>2 DEF KeptIsLast
<1> QED
  BY <1>5, <1>6

LEMMA StepKeepsLast ==
  ASSUME LogTyped, KeptIsLast, [LogNext]_logVars
  PROVE  KeptIsLast'
<1>1. UNCHANGED <<signals, ragged, kept>> => KeptIsLast'
  BY DEF KeptIsLast, Whole
<1> QED
  BY <1>1, CloseKeepsLast DEF LogNext, LogOrder, LogRestart, logVars

(* What is told of a trade that was kept.                                  *)
LEMMA LastIsKept ==
  ASSUME LogTyped, KeptIsLast, NEW t \in Trades, kept[t] # Untold,
         ~(ragged /\ Len(signals) \in Records(signals, "closed", t))
  PROVE  Has(signals, "closed", t) /\ Last(signals, "closed", t).deal = kept[t]
<1>1. Whole(t) = Records(signals, "closed", t)
  BY DEF Whole
<1>2. PICK i \in Records(signals, "closed", t) :
         signals[i].deal = kept[t] /\ \A j \in Records(signals, "closed", t) : j <= i
  BY <1>1 DEF KeptIsLast
<1>3. Records(signals, "closed", t) \subseteq Nat
  BY DEF Records, Readable, LogTyped, LogTypeOK
<1>4. Max(Records(signals, "closed", t)) = i
  BY <1>2, <1>3 DEF Max
<1> QED
  BY <1>2, <1>4 DEF Has, Last

(* All of the loss or gain of a deal shows in its figures.                 *)
LEMMA FiguresShow ==
  ASSUME NEW deal \in Deals \cup {NoHistory}, NEW bars \in MinuteBars, NEW stop,
         bars = NoBars \/ (bars.low <= deal.exit /\ deal.exit <= bars.high)
  PROVE  /\ Figures(deal, stop, bars).peak >= Pips(deal)
         /\ (bars = NoBars => stop = 0) => Figures(deal, stop, bars).drawdown >= -Pips(deal)
<1>1. deal.entry \in Int /\ deal.exit \in Int
  BY LogAssumption DEF NoHistory
<1>2. Pips(deal) \in Int
  BY <1>1 DEF Pips
<1>3. CASE bars = NoBars
  <2>1. Figures(deal, stop, bars).peak = IF Outcome(deal) = "WIN" THEN Pips(deal) ELSE 0
    BY <1>3 DEF Figures
  <2>2. stop = 0 => Figures(deal, stop, bars).drawdown
                      = IF ~(Outcome(deal) = "LOSS") THEN 0 ELSE Floor(-Pips(deal))
    BY <1>3 DEF Figures
  <2> QED
    BY <1>2, <1>3, <2>1, <2>2 DEF Outcome, Floor
<1>4. CASE bars # NoBars
  <2>1. bars.low \in Int /\ bars.high \in Int
    BY <1>4, LogAssumption
  <2>2. Figures(deal, stop, bars)
          = [drawdown |-> Floor(IF deal.direction = "BUY" THEN deal.entry - bars.low
                                                          ELSE bars.high - deal.entry),
             peak     |-> Floor(IF deal.direction = "BUY" THEN bars.high - deal.entry
                                                          ELSE deal.entry - bars.low)]
    BY <1>4 DEF Figures
  <2> QED
    BY <1>1, <1>2, <1>4, <2>1, <2>2 DEF Pips, Floor
<1> QED
  BY <1>3, <1>4

-----------------------------------------------------------------------------
(* TradeLog: the summary of the dry run.                                   *)

(* The line that the next order may cost, and the next order itself.       *)
Owed == IF ~dryRagged THEN 0 ELSE IF dry[Len(dry)] = Junk THEN 1 ELSE 2

OrdersCounted ==
  /\ EventsDetected \in Nat
  /\ orders - 2 * failures + Owed <= EventsDetected /\ EventsDetected <= orders

LEMMA CountedInit == LogInit => OrdersCounted
<1> SUFFICES ASSUME LogInit PROVE OrdersCounted
  OBVIOUS
<1>1. dry = <<>> /\ dryRagged = FALSE /\ orders = 0 /\ failures = 0
  BY DEF LogInit
<1>2. Readable(dry) = {}
  BY <1>1 DEF Readable
<1>3. EventsDetected = 0
  BY <1>2, FS_EmptySet DEF EventsDetected
<1> QED
  BY <1>1, <1>3 DEF OrdersCounted, Owed

LEMMA OrderKeepsCount ==
  ASSUME LogTyped, OrdersCounted, NEW end \in Ends, LogOrder(end)
  PROVE  OrdersCounted'
<1> DEFINE n == Len(dry)
<1>1. /\ dry \in Seq({Junk, Order}) /\ n \in Nat /\ DOMAIN dry = 1 .. n
      /\ (dryRagged => n \in 1 .. n) /\ Order # Junk
      /\ orders \in Nat /\ failures \in Nat
  BY LogAssumption DEF LogTyped, LogTypeOK, Order, Junk
<1>2. /\ dry' = Appended(dry, dryRagged, Order, end) /\ dryRagged' = RaggedAfter(dryRagged, end)
      /\ orders' = orders + 1
      /\ failures' = IF end = "whole" THEN failures ELSE failures + 1
  BY DEF LogOrder
<1>3. IsFiniteSet(Readable(dry))
  <2>1. Readable(dry) \subseteq 1 .. n /\ IsFiniteSet(1 .. n)
    BY <1>1, FS_Interval DEF Readable
  <2> QED
    BY <2>1, FS_Subset
<1>4. Readable(dry) \subseteq 1 .. n
  BY <1>1 DEF Readable
<1>5. CASE end = "none"
  <2>1. dry' = dry /\ dryRagged' = dryRagged /\ failures' = failures + 1
    BY <1>2, <1>5 DEF Appended, RaggedAfter
  <2>2. EventsDetected' = EventsDetected /\ Owed' = Owed /\ Owed \in 0 .. 2
    BY <2>1 DEF EventsDetected, Owed
  <2> QED
    BY <1>1, <1>2, <2>1, <2>2 DEF OrdersCounted
<1>6. CASE end # "none" /\ dryRagged
  <2>1. dry' = [dry EXCEPT ![n] = Junk]
    BY <1>2, <1>6 DEF Appended
  <2>2. /\ DOMAIN dry' = 1 .. n /\ dry'[n] = Junk /\ Len(dry') = n
        /\ \A i \in 1 .. n : i # n => dry'[i] = dry[i]
    <3>1. dry' \in Seq({Junk, Order}) /\ Len(dry') = n
      BY <1>1, <1>6, <2>1
    <3> QED
      BY <1>1, <1>6, <2>1, <3>1
  <2>3. Readable(dry') = Readable(dry) \ {n}
    BY <1>1, <2>2 DEF Readable
  <2>4. EventsDetected' = IF n \in Readable(dry) THEN EventsDetected - 1 ELSE EventsDetected
    BY <1>3, <2>3, FS_RemoveElement DEF EventsDetected
  <2>5. n \in Readable(dry) <=> dry[n] # Junk
    BY <1>1, <1>6 DEF Readable
  <2>6. Owed = IF dry[n] = Junk THEN 1 ELSE 2
    BY <1>6 DEF Owed
  <2>7. Owed' = IF end = "whole" THEN 0 ELSE 1
    BY <1>2, <1>6, <2>2 DEF Owed, RaggedAfter
  <2>8. EventsDetected' \in Nat
    BY <1>3, <2>3, FS_RemoveElement, FS_CardinalityType DEF EventsDetected
  <2> QED
    BY <1>1, <1>2, <2>4, <2>5, <2>6, <2>7, <2>8 DEF OrdersCounted
<1>7. CASE end # "none" /\ ~dryRagged
  <2>1. dry' = Append(dry, IF end = "cut" THEN Junk ELSE Order)
    BY <1>2, <1>7 DEF Appended
  <2>2. /\ DOMAIN dry' = 1 .. n + 1 /\ Len(dry') = n + 1
        /\ dry'[n + 1] = IF end = "cut" THEN Junk ELSE Order
        /\ \A i \in 1 .. n : dry'[i] = dry[i]
    BY <1>1, <2>1
  <2>3. Readable(dry') = IF end = "cut" THEN Readable(dry) ELSE Readable(dry) \cup {n + 1}
    <3>1. \A i \in 1 .. n + 1 : i \in 1 .. n \/ i = n + 1
      BY <1>1
    <3>2. \A i \in 1 .. n : i \in 1 .. n + 1 /\ i # n + 1
      BY <1>1
    <3>3. n + 1 \in 1 .. n + 1
      BY <1>1
    <3>4. n + 1 \in Readable(dry') <=> end # "cut"
      BY <1>1, <2>2, <3>3 DEF Readable
    <3>5. \A i \in 1 .. n : i \in Readable(dry') <=> i \in Readable(dry)
      BY <1>1, <2>2, <3>2 DEF Readable
    <3>6. Readable(dry') \subseteq 1 .. n + 1
      BY <2>2 DEF Readable
    <3>7. CASE end = "cut"
      <4>1. Readable(dry') \subseteq Readable(dry)
        BY <3>1, <3>4, <3>5, <3>6, <3>7
      <4>2. Readable(dry) \subseteq Readable(dry')
        BY <1>4, <3>5
      <4> QED
        BY <3>7, <4>1, <4>2
    <3>8. CASE end # "cut"
      BY <1>4, <3>1, <3>4, <3>5, <3>6, <3>8
    <3> QED
      BY <3>7, <3>8
  <2>4. n + 1 \notin Readable(dry)
    BY <1>1, <1>4
  <2>5. EventsDetected' = IF end = "cut" THEN EventsDetected ELSE EventsDetected + 1
    BY <1>3, <2>3, <2>4, FS_AddElement DEF EventsDetected
  <2>6. Owed = 0
    BY <1>7 DEF Owed
  <2>7. Owed' = IF end = "whole" THEN 0 ELSE IF end = "cut" THEN 1 ELSE 2
    BY <1>1, <1>2, <1>7, <2>2 DEF Owed, RaggedAfter
  <2> QED
    BY <1>1, <1>2, <2>5, <2>6, <2>7 DEF OrdersCounted
<1> QED
  BY <1>5, <1>6, <1>7

LEMMA StepKeepsCount ==
  ASSUME LogTyped, OrdersCounted, [LogNext]_logVars
  PROVE  OrdersCounted'
<1>1. UNCHANGED <<dry, dryRagged, orders, failures>> => OrdersCounted'
  BY DEF OrdersCounted, Owed, EventsDetected
<1> QED
  BY <1>1, OrderKeepsCount DEF LogNext, LogClose, LogRestart, logVars

(* Whatever writes fail or break off, a trade whose close was written in   *)
(* full is shown with its outcome and all of its loss or gain, and the     *)
(* summary misses two orders at most for every failure                     *)
(* (_check_closed_positions, get_trades_log, compute_drawdown_peak,        *)
(* _log_dry_run_event, generate_session_summary): for all trades, deals,   *)
(* bars and openings.                                                      *)
THEOREM LogsAreTold == LogSpec => []LogsTell
<1>1. LogTyped /\ KeptIsLast /\ OrdersCounted => LogsTell
  <2> SUFFICES ASSUME LogTyped, KeptIsLast, OrdersCounted PROVE LogsTell
    OBVIOUS
  <2>1. orders - 2 * failures <= EventsDetected /\ EventsDetected <= orders
    <3>1. orders \in Nat /\ failures \in Nat /\ Owed \in 0 .. 2
      BY LogAssumption DEF LogTyped, LogTypeOK, Owed
    <3> QED
      BY <3>1 DEF OrdersCounted
  <2>2. ASSUME NEW t \in Trades \ Hidden, kept[t] # Untold,
               ~(ragged /\ Len(signals) \in Records(signals, "closed", t))
        PROVE  /\ t \in Told(signals)
               /\ \A found, last \in MinuteBars :
                    LET bars  == BarsFor(found, last)
                        given == Shown(signals, t, bars)
                        Reaches(b) == b = NoBars \/ (b.low <= kept[t].exit /\ kept[t].exit <= b.high)
                    IN  /\ given.outcome = Outcome(kept[t])
                        /\ Reaches(bars) => given.figures.peak >= Pips(kept[t])
                        /\ Reaches(bars) /\ (bars = NoBars => StopOf(signals, t) = 0)
                             => given.figures.drawdown >= -Pips(kept[t])
    <3>1. Has(signals, "closed", t) /\ Last(signals, "closed", t).deal = kept[t]
      BY <2>2, LastIsKept
    <3>2. kept[t] \in Deals \cup {NoHistory}
      BY <2>2 DEF KeptIsLast
    <3>3. t \in Told(signals)
      BY <3>1 DEF Told
    <3>4. ASSUME NEW bars
          PROVE  Shown(signals, t, bars) = [outcome |-> Outcome(kept[t]),
                                            figures |-> Figures(kept[t], StopOf(signals, t), bars)]
      BY <3>1 DEF Shown, OutcomeOf
    <3>5. ASSUME NEW found \in MinuteBars, NEW last \in MinuteBars
          PROVE  BarsFor(found, last) \in MinuteBars
      BY DEF BarsFor
    <3> QED
      BY <3>2, <3>3, <3>4, <3>5, FiguresShow
  <2> QED
    BY <2>1, <2>2 DEF LogsTell
<1> QED
  BY <1>1, LogInitTyped, LogStepTyped, KeptInit, StepKeepsLast, CountedInit, StepKeepsCount, PTL
     DEF LogSpec

-----------------------------------------------------------------------------
(* MCServers: every server keeps its own specification.                    *)

(* Whichever server moves, each takes steps of its own.                    *)
LEMMA ServersStep ==
  [MCNext]_serversVars =>
    /\ [BridgeNext]_bridgeVars /\ [DashNext]_dashVars /\ [ClientNext]_clientVars
    /\ [ExecNext]_execVars /\ [LogNext]_logVars
  BY DEF MCNext, serversVars, Dashboards

LEMMA ServersKeepSpecs ==
  MCSpec => BridgeSpec /\ DashSpec /\ ClientSpec /\ ExecSpec /\ LogSpec
<1>1. MCInit => BridgeInit /\ DashInit /\ ClientInit /\ ExecInit /\ LogInit
  BY DEF MCInit
<1> QED
  BY <1>1, ServersStep, PTL
     DEF MCSpec, BridgeSpec, DashSpec, ClientSpec, ExecSpec, LogSpec

(* The variables of all servers keep their types, for any number of        *)
(* clients, browsers, requests, callers and trades.                        *)
THEOREM ServersTypeCorrect == MCSpec => []ServersTypeOK
<1>1. MCSpec => []BridgeTypeOK /\ []DashTypeOK /\ []ClientTypeOK /\ []ExecTypeOK /\ []LogTypeOK
  BY ServersKeepSpecs, BridgeTypeCorrect, DashTypeCorrect, ClientTypeCorrect, ExecTypeCorrect,
     LogTypeCorrect
<1>2. BridgeTypeOK /\ DashTypeOK /\ ClientTypeOK /\ ExecTypeOK /\ LogTypeOK => ServersTypeOK
  BY DEF ServersTypeOK
<1> QED
  BY <1>1, <1>2, PTL
=============================================================================
