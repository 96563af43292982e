---------------------------- MODULE Daemon_proofs ----------------------------
(***************************************************************************)
(* Theorems about Daemon for every number of tickets, every queue          *)
(* capacity and every length of the cooldowns.                             *)
(***************************************************************************)
EXTENDS Daemon, FiniteSetTheorems, TLAPS

USE SideAssumption, TicketAssumption, QueueAssumption, CooldownAssumption,
    ModeAssumption
USE DEF brokerVars, clockVars, bookVars, entryVars, tickVars, mainVars

-----------------------------------------------------------------------------
(* Type correctness.                                                       *)

LEMMA InitTypeOK == Init => TypeOK
<1> SUFFICES ASSUME Init PROVE TypeOK
  OBVIOUS
<1>1. deal \in [Ticket -> Outcome]
  BY DEF Init, Outcome
<1>2. tracked \in SUBSET Ticket /\ own \in SUBSET Ticket
  BY DEF Init, Replies
<1>3. queue \in Seq(Side \cup {NoSide}) /\ Len(queue) <= QueueCap
  BY DEF Init
<1>4. /\ running \in BOOLEAN /\ paused \in BOOLEAN
      /\ clockSet \in BOOLEAN /\ lateClose \in BOOLEAN
  BY Zenon DEF Init
<1> QED
  BY <1>1, <1>2, <1>3, <1>4 DEF Init, TypeOK, EntryState, TickPC, MainPC

LEMMA TickTypeOK == TypeOK /\ TickStep => TypeOK'
<1> SUFFICES ASSUME TypeOK, TickStep PROVE TypeOK'
  OBVIOUS
<1> USE DEF TypeOK, EntryState, TickPC, MainPC, Outcome
<1>1. CASE EvalBranch
  <2>1. PICK s \in EntryState :
          entry' = s /\ (FindAnomaly(s) \/ NoAnomaly(s))
    BY <1>1 DEF EvalBranch
  <2>2. clockSet' \in BOOLEAN
    BY <2>1, Zenon DEF FindAnomaly, NoAnomaly
  <2>3. dir' \in Side \cup {NoSide} /\ pend' \in EntryState \cup {"keep"}
    BY <2>1 DEF FindAnomaly, NoAnomaly, Advances
  <2> QED
    BY <1>1, <2>1, <2>2, <2>3 DEF EvalBranch
<1>2. CASE EvalCommit
  BY <1>2 DEF EvalCommit
<1>3. CASE EvalDecide
  BY <1>3 DEF EvalDecide
<1>4. CASE Lifecycle
  BY <1>4 DEF Lifecycle, AfterEntry
<1>5. CASE Put
  <2>1. queue' \in Seq(Side \cup {NoSide}) /\ Len(queue') <= QueueCap
    BY <1>5 DEF Put, HasRoom
  <2> QED
    BY <1>5, <2>1 DEF Put, AfterEntry
<1>6. CASE Manage
  BY <1>6 DEF Manage, Replies, OnSymbol
<1>7. CASE Adopt
  BY <1>7 DEF Adopt
<1>8. CASE CheckQuery
  BY <1>8 DEF CheckQuery, Replies, OnSymbol
<1>9. CASE CheckDetect
  BY <1>9 DEF CheckDetect, Missing
<1>10. ASSUME NEW t \in Ticket, Record(t) PROVE TypeOK'
  BY <1>10 DEF Record, DealReplies
<1>11. CASE CheckFinish
  BY <1>11 DEF CheckFinish
<1>12. CASE TickExit
  BY <1>12 DEF TickExit
<1> QED
  BY <1>1, <1>2, <1>3, <1>4, <1>5, <1>6, <1>7, <1>8, <1>9, <1>10, <1>11,
     <1>12 DEF TickStep

LEMMA MainTypeOK == TypeOK /\ MainStep => TypeOK'
<1> SUFFICES ASSUME TypeOK, MainStep PROVE TypeOK'
  OBVIOUS
<1> USE DEF TypeOK, EntryState, TickPC, MainPC, Outcome
<1>1. CASE LoopTop
  BY <1>1 DEF LoopTop, Loops
<1>2. CASE Take
  <2>1. lateClose' \in BOOLEAN
    BY <1>2, Zenon DEF Take
  <2>2. queue' \in Seq(Side \cup {NoSide}) /\ Len(queue') <= QueueCap
    BY <1>2 DEF Take, Ready
  <2> QED
    BY <1>2, <2>1, <2>2 DEF Take
<1>3. CASE Guard
  BY <1>3 DEF Guard
<1>4. CASE Send
  BY <1>4 DEF Send, Fill, Fresh
<1>5. CASE Track
  BY <1>5 DEF Track
<1>6. CASE Register
  BY <1>6 DEF Register
<1>7. CASE ResetState
  BY <1>7 DEF ResetState
<1>8. CASE ResetFields
  <2>1. clockSet' \in BOOLEAN
    BY <1>8, Zenon DEF ResetFields
  <2> QED
    BY <1>8, <2>1 DEF ResetFields
<1>9. CASE Stamp
  BY <1>9 DEF Stamp
<1> QED
  BY <1>1, <1>2, <1>3, <1>4, <1>5, <1>6, <1>7, <1>8, <1>9 DEF MainStep

LEMMA EnvironmentTypeOK == TypeOK /\ Environment => TypeOK'
<1> SUFFICES ASSUME TypeOK, Environment PROVE TypeOK'
  OBVIOUS
<1> USE DEF TypeOK, EntryState, TickPC, MainPC, Outcome
<1>1. CASE Elapse
  BY <1>1 DEF Elapse, Dec
<1>2. CASE TogglePause
  BY <1>2 DEF TogglePause
<1>3. CASE Stop
  <2>1. running' \in BOOLEAN
    BY <1>3, Zenon DEF Stop
  <2> QED
    BY <1>3, <2>1 DEF Stop
<1>4. CASE Restart
  <2>1. /\ running' \in BOOLEAN /\ paused' \in BOOLEAN
        /\ clockSet' \in BOOLEAN /\ lateClose' \in BOOLEAN
    BY <1>4, Zenon DEF Restart
  <2>2. queue' \in Seq(Side \cup {NoSide}) /\ Len(queue') <= QueueCap
    BY <1>4 DEF Restart
  <2>3. tracked' \in SUBSET Ticket /\ slKnown' \in SUBSET Ticket
    BY <1>4 DEF Restart, Replies
  <2> QED
    BY <1>4, <2>1, <2>2, <2>3 DEF Restart
<1>5. ASSUME NEW t \in Ticket, BrokerClose(t) PROVE TypeOK'
  BY <1>5 DEF BrokerClose
<1>6. ASSUME NEW t \in Ticket, ManualOpen(t) PROVE TypeOK'
  BY <1>6 DEF ManualOpen, Fresh
<1> QED
  BY <1>1, <1>2, <1>3, <1>4, <1>5, <1>6 DEF Environment

LEMMA TypeStep == TypeOK /\ [Next]_vars => TypeOK'
<1>1. TypeOK /\ UNCHANGED vars => TypeOK'
  BY DEF TypeOK, vars
<1> QED
  BY <1>1, TickTypeOK, MainTypeOK, EnvironmentTypeOK DEF Next

(* Every variable keeps its type; in particular the queue never holds more *)
(* than QueueCap events and no cooldown exceeds its configured length.     *)
THEOREM TypeCorrect == Spec => []TypeOK
  BY InitTypeOK, TypeStep, PTL DEF Spec

-----------------------------------------------------------------------------
(* One position per magic number.                                          *)

(* A ticket that was ever used is open or has a deal in the history.       *)
Used(t) == t \in open \/ deal[t] # "none"

AtMostOne == \A a, b \in open \cap own : a = b
ClearToSend == mpc = "send" => open \cap own = {}
OwnUsed == \A t \in own : Used(t)
CapInv == TypeOK /\ AtMostOne /\ ClearToSend /\ OwnUsed

(* What the tick thread leaves alone.                                      *)
LEMMA TickFrame ==
  TickStep => UNCHANGED <<open, own, deal, running, paused, entryLeft, trade,
                          mpc, mticket, sinceOrder, restarts>>
  BY DEF TickStep, EvalBranch, EvalCommit, EvalDecide, Lifecycle, Put, Manage,
         Adopt, CheckQuery, CheckDetect, Record, CheckFinish, TickExit

LEMMA InitCap == Init => CapInv
<1> SUFFICES ASSUME Init PROVE CapInv
  OBVIOUS
<1>1. AtMostOne /\ OwnUsed
  BY DEF Init, AtMostOne, OwnUsed, Used
<1>2. ClearToSend
  BY DEF Init, ClearToSend
<1> QED
  BY <1>1, <1>2, InitTypeOK DEF CapInv

(* The broker answers, so the cap's query stands until the order is sent:  *)
(* no one else trades under the magic number.                              *)
LEMMA CapStep ==
  ASSUME Faults = FALSE
  PROVE  CapInv /\ [Next]_vars => CapInv'
<1> SUFFICES ASSUME CapInv, [Next]_vars PROVE CapInv'
  OBVIOUS
<1>t. TypeOK /\ TypeOK'
  BY TypeStep DEF CapInv
<1> SUFFICES AtMostOne' /\ ClearToSend' /\ OwnUsed'
  BY <1>t DEF CapInv
<1> USE DEF CapInv, AtMostOne, ClearToSend, OwnUsed, Used
<1>1. CASE TickStep
  BY <1>1, TickFrame
<1>2. CASE MainStep
  <2>1. CASE Guard
    <3>1. mpc' = "send" => open \cap own = {}
      BY <2>1 DEF Guard, Replies, CapReached
    <3> QED
      BY <2>1, <3>1 DEF Guard
  <2>2. CASE Send
    <3>1. open \cap own = {} /\ mpc' # "send" /\ deal' = deal
      BY <2>2 DEF Send
    <3>2. CASE UNCHANGED <<open, own>>
      BY <3>1, <3>2
    <3>3. ASSUME NEW t \in Fresh, Fill(t)
          PROVE  AtMostOne' /\ OwnUsed'
      BY <3>1, <3>3 DEF Fill, Fresh
    <3> QED
      BY <2>2, <3>1, <3>2, <3>3 DEF Send
  <2>3. CASE LoopTop \/ Take \/ Track \/ Register \/ ResetState
               \/ ResetFields \/ Stamp
    BY <2>3 DEF LoopTop, Take, Track, Register, ResetState, ResetFields, Stamp
  <2> QED
    BY <1>2, <2>1, <2>2, <2>3 DEF MainStep
<1>3. CASE Environment
  <2>1. CASE Elapse \/ TogglePause \/ Stop
    BY <2>1 DEF Elapse, TogglePause, Stop
  <2>2. CASE Restart
    BY <2>2 DEF Restart
  <2>3. ASSUME NEW t \in Ticket, BrokerClose(t)
        PROVE  AtMostOne' /\ ClearToSend' /\ OwnUsed'
    <3>1. \A s \in Ticket : s # t => deal'[s] = deal[s]
      BY <1>t, <2>3 DEF BrokerClose, TypeOK
    <3>2. deal'[t] # "none"
      BY <1>t, <2>3 DEF BrokerClose, TypeOK
    <3>3. own' = own /\ open' = open \ {t} /\ mpc' = mpc
      BY <2>3 DEF BrokerClose
    <3> QED
      BY <1>t, <3>1, <3>2, <3>3 DEF TypeOK
  <2>4. ASSUME NEW t \in Ticket, ManualOpen(t)
        PROVE  AtMostOne' /\ ClearToSend' /\ OwnUsed'
    <3>1. t \notin own
      BY <2>4 DEF ManualOpen, Fresh
    <3> QED
      BY <2>4, <3>1 DEF ManualOpen
  <2> QED
    BY <1>3, <2>1, <2>2, <2>3, <2>4 DEF Environment
<1>4. CASE UNCHANGED vars
  BY <1>4 DEF vars
<1> QED
  BY <1>1, <1>2, <1>3, <1>4 DEF Next

(* With an answering broker, at most one position of the strategy is open, *)
(* over any number of restarts, closes and positions of other origin.      *)
THEOREM OnePosition ==
  ASSUME Faults = FALSE
  PROVE  Spec => []OnePositionPerMagic
<1>1. CapInv => OnePositionPerMagic
  <2> SUFFICES ASSUME CapInv PROVE Cardinality(open \cap own) <= 1
    BY DEF OnePositionPerMagic
  <2>1. CASE open \cap own = {}
    BY <2>1, FS_EmptySet
  <2>2. CASE open \cap own # {}
    <3>1. PICK t : open \cap own = {t}
      BY <2>2 DEF CapInv, AtMostOne
    <3> QED
      BY <3>1, FS_Singleton
  <2> QED
    BY <2>1, <2>2
<1> QED
  BY <1>1, InitCap, CapStep, PTL DEF Spec

-----------------------------------------------------------------------------
(* Cooldowns.                                                              *)

Idle == {"loop", "take"}
Ordering == {"guard", "send"}

ClockCovers == mpc \in Idle => entryLeft + sinceOrder >= EntryCooldown
SpacedOrder == mpc \in Ordering => sinceOrder = EntryCooldown
SpacingInv == TypeOK /\ ClockCovers /\ SpacedOrder

(* The stamp that follows every attempt puts a full cooldown between the   *)
(* order and the next event that can pass the cooldown check.              *)
LEMMA SpacingStep ==
  ASSUME MaxRestarts = 0
  PROVE  SpacingInv /\ [Next]_vars => SpacingInv'
<1> SUFFICES ASSUME SpacingInv, [Next]_vars PROVE SpacingInv'
  OBVIOUS
<1>t. TypeOK /\ TypeOK'
  BY TypeStep DEF SpacingInv
<1> SUFFICES ClockCovers' /\ SpacedOrder'
  BY <1>t DEF SpacingInv
<1>n. /\ entryLeft \in Nat /\ sinceOrder \in Nat /\ sinceOrder <= EntryCooldown
      /\ restarts = 0
  BY <1>t DEF TypeOK
<1> USE DEF SpacingInv, ClockCovers, SpacedOrder, Idle, Ordering
<1>1. CASE TickStep
  BY <1>1, TickFrame
<1>2. CASE MainStep
  <2>1. CASE Take
    <3>1. CASE mpc' = "guard"
      <4>1. entryLeft = 0
        BY <1>n, <2>1, <3>1 DEF Take, CoolingDown
      <4> QED
        BY <1>n, <2>1, <3>1, <4>1 DEF Take
    <3>2. CASE mpc' = "loop"
      BY <2>1, <3>2 DEF Take
    <3> QED
      BY <2>1, <3>1, <3>2 DEF Take
  <2>2. CASE Guard
    BY <1>n, <2>2 DEF Guard
  <2>3. CASE Send
    BY <2>3 DEF Send, Fill
  <2>4. CASE Stamp
    BY <1>n, <2>4 DEF Stamp
  <2>5. CASE LoopTop \/ Track \/ Register \/ ResetState \/ ResetFields
    BY <2>5 DEF LoopTop, Track, Register, ResetState, ResetFields
  <2> QED
    BY <1>2, <2>1, <2>2, <2>3, <2>4, <2>5 DEF MainStep
<1>3. CASE Environment
  <2>1. CASE Elapse
    BY <1>n, <2>1 DEF Elapse, Dec
  <2>2. CASE TogglePause \/ Stop
    BY <2>2 DEF TogglePause, Stop
  <2>3. CASE Restart
    BY <1>n, <2>3 DEF Restart
  <2>4. ASSUME NEW t \in Ticket, BrokerClose(t) \/ ManualOpen(t)
        PROVE  ClockCovers' /\ SpacedOrder'
    BY <2>4 DEF BrokerClose, ManualOpen
  <2> QED
    BY <1>3, <2>1, <2>2, <2>3, <2>4 DEF Environment
<1>4. CASE UNCHANGED vars
  BY <1>4 DEF vars
<1> QED
  BY <1>1, <1>2, <1>3, <1>4 DEF Next

LEMMA InitSpacing == Init => SpacingInv
<1> SUFFICES ASSUME Init PROVE ClockCovers /\ SpacedOrder
  BY InitTypeOK DEF SpacingInv
<1> QED
  BY DEF Init, ClockCovers, SpacedOrder, Idle, Ordering

(* Within one process, executed orders are an entry cooldown apart, even   *)
(* if broker calls fail and replies are lost.                              *)
THEOREM OrdersSpaced ==
  ASSUME MaxRestarts = 0
  PROVE  Spec => []EntrySpacing
<1>1. SpacingInv => EntrySpacing
  BY DEF SpacingInv, SpacedOrder, Ordering, EntrySpacing
<1> QED
  BY <1>1, InitSpacing, SpacingStep, PTL DEF Spec

-----------------------------------------------------------------------------
(* Post-trade and loss cooldowns.                                          *)

CooldownInv == TypeOK /\ CooldownRespected

LEMMA CooldownStep == CooldownInv /\ [Next]_vars => CooldownInv'
<1> SUFFICES ASSUME CooldownInv, [Next]_vars PROVE CooldownInv'
  OBVIOUS
<1>t. TypeOK /\ TypeOK'
  BY TypeStep DEF CooldownInv
<1> SUFFICES CooldownRespected'
  BY <1>t DEF CooldownInv
<1>n. postLeft \in Nat /\ lossLeft \in Nat
  BY <1>t DEF TypeOK
<1> USE DEF CooldownInv, CooldownRespected
<1>1. CASE TickStep
  <2>1. ASSUME NEW t \in Ticket, Record(t) PROVE CooldownRespected'
    BY <2>1 DEF Record
  <2>2. CASE UNCHANGED <<mpc, postLeft, lossLeft, lateClose>>
    BY <2>2
  <2> QED
    BY <1>1, <2>1, <2>2
    DEF TickStep, EvalBranch, EvalCommit, EvalDecide, Lifecycle, Put, Manage,
        Adopt, CheckQuery, CheckDetect, CheckFinish, TickExit
<1>2. CASE MainStep
  <2>1. CASE Take
    BY <1>n, <2>1 DEF Take, CoolingDown
  <2>2. CASE Guard \/ Send
    BY <2>2 DEF Guard, Send
  <2>3. CASE LoopTop \/ Track \/ Register \/ ResetState \/ ResetFields \/ Stamp
    BY <2>3 DEF LoopTop, Track, Register, ResetState, ResetFields, Stamp
  <2> QED
    BY <1>2, <2>1, <2>2, <2>3 DEF MainStep
<1>3. CASE Environment
  <2>1. CASE Elapse
    BY <1>n, <2>1 DEF Elapse, Dec
  <2>2. CASE TogglePause \/ Stop
    BY <2>2 DEF TogglePause, Stop
  <2>3. CASE Restart
    BY <2>3 DEF Restart
  <2>4. ASSUME NEW t \in Ticket, BrokerClose(t) \/ ManualOpen(t)
        PROVE  CooldownRespected'
    BY <2>4 DEF BrokerClose, ManualOpen
  <2> QED
    BY <1>3, <2>1, <2>2, <2>3, <2>4 DEF Environment
<1>4. CASE UNCHANGED vars
  BY <1>4 DEF vars
<1> QED
  BY <1>1, <1>2, <1>3, <1>4 DEF Next

(* Post-trade and loss cooldowns hold back every order but one whose event *)
(* had passed the check when the close was recorded.                       *)
THEOREM CooldownsRespected == Spec => []CooldownRespected
<1>1. Init => CooldownInv
  BY InitTypeOK DEF Init, CooldownInv, CooldownRespected
<1>2. CooldownInv => CooldownRespected
  BY DEF CooldownInv
<1> QED
  BY <1>1, <1>2, CooldownStep, PTL DEF Spec

-----------------------------------------------------------------------------
(* Directions.                                                             *)

Armed == {"ANOMALY", "ARMING", "TRIGGERED"}

MachineDirected ==
  trade = NoTicket =>
    /\ entry \in Armed \/ pend \in Armed \/ tpc = "decide" => dir \in Side
    /\ tdir # "none" => tdir \in Side
PutDirected == tpc = "put" => tdir \in Side
ResetAfterRegister == mpc \in {"reset", "fields"} => trade # NoTicket
DirectedInv ==
  TypeOK /\ DirectedEntries /\ MachineDirected /\ PutDirected /\ ResetAfterRegister

LEMMA InitDirected == Init => DirectedInv
  BY InitTypeOK DEF Init, DirectedInv, DirectedEntries, MachineDirected,
                    PutDirected, ResetAfterRegister, Armed

LEMMA DirectedTick == DirectedInv /\ TickStep => DirectedInv'
<1> SUFFICES ASSUME DirectedInv, TickStep PROVE DirectedInv'
  OBVIOUS
<1>t. TypeOK /\ TypeOK'
  BY TickTypeOK DEF DirectedInv
<1>f. UNCHANGED <<trade, mpc>>
  BY TickFrame
<1>r. ResetAfterRegister'
  BY <1>f DEF DirectedInv, ResetAfterRegister
<1> SUFFICES DirectedEntries' /\ MachineDirected' /\ PutDirected'
  BY <1>t, <1>r DEF DirectedInv
<1> USE DEF DirectedInv, DirectedEntries, MachineDirected, PutDirected, Armed
<1>1. CASE EvalBranch
  <2>1. PICK s \in EntryState :
          /\ s = entry \/ s = "INVALIDATED"
          /\ entry' = s /\ (FindAnomaly(s) \/ NoAnomaly(s))
    BY <1>1, <1>t DEF EvalBranch, TypeOK
  <2>2. CASE FindAnomaly(s)
    BY <1>1, <1>f, <2>1, <2>2 DEF EvalBranch, FindAnomaly, Resting
  <2>3. CASE NoAnomaly(s)
    <3>1. pend' \in Armed => s \in Armed
      BY <2>3 DEF NoAnomaly, Advances, Moves
    <3> QED
      BY <1>1, <1>f, <2>1, <2>3, <3>1 DEF EvalBranch, NoAnomaly
  <2> QED
    BY <2>1, <2>2, <2>3
<1>2. CASE EvalCommit
  BY <1>2 DEF EvalCommit
<1>3. CASE EvalDecide
  BY <1>3 DEF EvalDecide
<1>4. CASE Lifecycle
  BY <1>4, <1>t DEF Lifecycle, AfterEntry, TypeOK
<1>5. CASE Put
  <2>1. \A i \in 1..Len(queue') : queue'[i] \in Side
    BY <1>5, <1>t DEF Put, HasRoom, TypeOK
  <2>2. tpc' # "put" /\ tpc' # "decide"
    BY <1>5 DEF Put, AfterEntry
  <2> QED
    BY <1>5, <2>1, <2>2 DEF Put
<1>6. CASE Manage \/ Adopt \/ CheckQuery \/ CheckDetect
           \/ CheckFinish \/ TickExit
  BY <1>6 DEF Manage, Adopt, CheckQuery, CheckDetect, CheckFinish, TickExit
<1>7. ASSUME NEW t \in Ticket, Record(t)
      PROVE  DirectedEntries' /\ MachineDirected' /\ PutDirected'
  BY <1>7 DEF Record
<1> QED
  BY <1>1, <1>2, <1>3, <1>4, <1>5, <1>6, <1>7 DEF TickStep

LEMMA DirectedMain == DirectedInv /\ MainStep => DirectedInv'
<1> SUFFICES ASSUME DirectedInv, MainStep PROVE DirectedInv'
  OBVIOUS
<1>t. TypeOK /\ TypeOK'
  BY MainTypeOK DEF DirectedInv
<1> SUFFICES /\ DirectedEntries' /\ MachineDirected' /\ PutDirected'
             /\ ResetAfterRegister'
  BY <1>t DEF DirectedInv
<1> USE DEF DirectedInv, DirectedEntries, MachineDirected, PutDirected,
            ResetAfterRegister, Armed
<1>1. CASE Take
  <2>1. queue \in Seq(Side \cup {NoSide})
    BY <1>t DEF TypeOK
  <2>2. CASE queue # <<>> /\ queue' = Tail(queue)
    <3>1. Len(queue') = Len(queue) - 1
      BY <2>1, <2>2
    <3>2. \A i \in 1..Len(queue') : queue'[i] = queue[i + 1]
      BY <2>1, <2>2
    <3> QED
      BY <1>1, <2>1, <3>1, <3>2 DEF Take
  <2>3. CASE UNCHANGED queue
    BY <1>1, <2>3 DEF Take
  <2> QED
    BY <1>1, <2>2, <2>3 DEF Take, Ready
<1>2. CASE Register
  <2>1. trade' # NoTicket
    BY <1>2, <1>t DEF Register, TypeOK
  <2> QED
    BY <1>2, <2>1 DEF Register
<1>3. CASE ResetState \/ ResetFields
  BY <1>3 DEF ResetState, ResetFields
<1>4. CASE LoopTop \/ Guard \/ Send \/ Track \/ Stamp
  BY <1>4 DEF LoopTop, Guard, Send, Track, Stamp
<1> QED
  BY <1>1, <1>2, <1>3, <1>4 DEF MainStep

LEMMA DirectedEnvironment == DirectedInv /\ Environment => DirectedInv'
<1> SUFFICES ASSUME DirectedInv, Environment PROVE DirectedInv'
  OBVIOUS
<1>t. TypeOK'
  BY EnvironmentTypeOK DEF DirectedInv
<1> USE DEF DirectedInv, DirectedEntries, MachineDirected, PutDirected,
            ResetAfterRegister, Armed
<1>1. CASE Elapse \/ TogglePause \/ Stop
  BY <1>t, <1>1 DEF Elapse, TogglePause, Stop
<1>2. CASE Restart
  BY <1>t, <1>2 DEF Restart
<1>3. ASSUME NEW t \in Ticket, BrokerClose(t) \/ ManualOpen(t)
      PROVE  DirectedInv'
  BY <1>t, <1>3 DEF BrokerClose, ManualOpen
<1> QED
  BY <1>1, <1>2, <1>3 DEF Environment

(* No event without a direction is ever queued.  The two threads race on   *)
(* the entry machine, and what keeps the race harmless is an order of      *)
(* statements: a trade is registered before the machine is reset.          *)
THEOREM EntriesDirected == Spec => []DirectedEntries
<1>1. DirectedInv => DirectedEntries
  BY DEF DirectedInv
<1>2. DirectedInv /\ UNCHANGED vars => DirectedInv'
  <2> SUFFICES ASSUME DirectedInv, UNCHANGED vars PROVE DirectedInv'
    OBVIOUS
  <2>1. TypeOK'
    BY TypeStep DEF DirectedInv
  <2> QED
    BY <2>1 DEF vars, DirectedInv, DirectedEntries, MachineDirected,
                PutDirected, ResetAfterRegister
<1>3. DirectedInv /\ [Next]_vars => DirectedInv'
  BY <1>2, DirectedTick, DirectedMain, DirectedEnvironment DEF Next
<1> QED
  BY <1>1, <1>3, InitDirected, PTL DEF Spec

-----------------------------------------------------------------------------
(* False closes.                                                           *)

BookUsed == \A t \in tracked \cup slKnown \cup seen \cup closedSet : Used(t)
LastOrderOwn == mticket \in Ticket => mticket \in own
DetectInFlight == tpc = "detect" => (tracked \ seen) \cap open \subseteq {mticket}
CloseInv ==
  CapInv /\ BookUsed /\ LastOrderOwn /\ DetectInFlight /\ FalseCloseOnlyInFlight

LEMMA InitClose ==
  ASSUME Faults = FALSE
  PROVE  Init => CloseInv
<1> SUFFICES ASSUME Init PROVE CloseInv
  OBVIOUS
<1>1. BookUsed
  BY DEF Init, Replies, BookUsed, Used
<1>2. LastOrderOwn /\ DetectInFlight /\ FalseCloseOnlyInFlight
  BY DEF Init, LastOrderOwn, DetectInFlight, FalseCloseOnlyInFlight
<1> QED
  BY <1>1, <1>2, InitCap DEF CloseInv

LEMMA CloseTick ==
  ASSUME Faults = FALSE
  PROVE  CloseInv /\ TickStep => CloseInv'
<1> SUFFICES ASSUME CloseInv, TickStep PROVE CloseInv'
  OBVIOUS
<1>c. CapInv /\ CapInv'
  BY CapStep DEF CloseInv, Next
<1>t. TypeOK
  BY <1>c DEF CapInv
<1>f. UNCHANGED <<open, own, deal, mticket>>
  BY TickFrame
<1>l. LastOrderOwn'
  BY <1>f DEF CloseInv, LastOrderOwn
<1> SUFFICES BookUsed' /\ DetectInFlight' /\ FalseCloseOnlyInFlight'
  BY <1>c, <1>l DEF CloseInv
<1> USE DEF CloseInv, BookUsed, Used, DetectInFlight, FalseCloseOnlyInFlight
<1>1. CASE EvalBranch \/ EvalCommit \/ EvalDecide \/ Lifecycle \/ Put
           \/ TickExit
  BY <1>1, <1>f DEF EvalBranch, EvalCommit, EvalDecide, Lifecycle, Put, TickExit,
                    AfterEntry
<1>2. CASE Manage
  BY <1>2, <1>f DEF Manage, Replies, OnSymbol
<1>3. CASE Adopt
  BY <1>3, <1>f DEF Adopt
<1>4. CASE CheckQuery
  BY <1>4, <1>f DEF CheckQuery, Replies, OnSymbol
<1>5. CASE CheckDetect
  BY <1>5, <1>f DEF CheckDetect, Missing
<1>6. ASSUME NEW t \in Ticket, Record(t)
      PROVE  BookUsed' /\ DetectInFlight' /\ FalseCloseOnlyInFlight'
  BY <1>6, <1>f DEF Record
<1>7. CASE CheckFinish
  BY <1>7, <1>f DEF CheckFinish
<1> QED
  BY <1>1, <1>2, <1>3, <1>4, <1>5, <1>6, <1>7 DEF TickStep

LEMMA CloseMain ==
  ASSUME Faults = FALSE
  PROVE  CloseInv /\ MainStep => CloseInv'
<1> SUFFICES ASSUME CloseInv, MainStep PROVE CloseInv'
  OBVIOUS
<1>c. CapInv /\ CapInv'
  BY CapStep DEF CloseInv, Next
<1> SUFFICES BookUsed' /\ LastOrderOwn' /\ DetectInFlight'
             /\ FalseCloseOnlyInFlight'
  BY <1>c DEF CloseInv
<1> USE DEF CloseInv, BookUsed, Used, LastOrderOwn, DetectInFlight,
            FalseCloseOnlyInFlight
<1>1. CASE Send
  <2>1. open \cap own = {}
    BY <1>1, <1>c DEF Send, CapInv, ClearToSend
  <2>2. UNCHANGED <<deal, tracked, slKnown, tpc, seen, closedSet>>
    BY <1>1 DEF Send
  <2>3. mticket \notin open
    BY <2>1, <1>c DEF CapInv, TypeOK
  <2>4. closedSet \cap open = {} /\ (tpc = "detect" => (tracked \ seen) \cap open = {})
    BY <2>3
  <2>5. ASSUME NEW t \in Fresh, Fill(t), mticket' = t
        PROVE  BookUsed' /\ LastOrderOwn' /\ DetectInFlight'
               /\ FalseCloseOnlyInFlight'
    BY <2>2, <2>4, <2>5 DEF Fill
  <2>6. CASE UNCHANGED <<open, own, mticket>>
    BY <2>2, <2>6
  <2> QED
    BY <1>1, <2>5, <2>6 DEF Send
<1>2. CASE Track
  <2>1. mticket \in own
    BY <1>2, <1>c DEF Track, CapInv, TypeOK
  <2>2. Used(mticket)
    BY <2>1, <1>c DEF CapInv, OwnUsed
  <2> QED
    BY <1>2, <2>2 DEF Track
<1>3. CASE LoopTop \/ Take \/ Guard \/ Register \/ ResetState \/ ResetFields
           \/ Stamp
  BY <1>3 DEF LoopTop, Take, Guard, Register, ResetState, ResetFields, Stamp
<1> QED
  BY <1>1, <1>2, <1>3 DEF MainStep

LEMMA CloseEnvironment ==
  ASSUME Faults = FALSE
  PROVE  CloseInv /\ Environment => CloseInv'
<1> SUFFICES ASSUME CloseInv, Environment PROVE CloseInv'
  OBVIOUS
<1>c. CapInv /\ CapInv' /\ TypeOK
  BY CapStep DEF CloseInv, Next, CapInv
<1> SUFFICES BookUsed' /\ LastOrderOwn' /\ DetectInFlight'
             /\ FalseCloseOnlyInFlight'
  BY <1>c DEF CloseInv
<1> USE DEF CloseInv, BookUsed, Used, LastOrderOwn, DetectInFlight,
            FalseCloseOnlyInFlight
<1>1. CASE Elapse \/ TogglePause \/ Stop
  BY <1>1 DEF Elapse, TogglePause, Stop
<1>2. CASE Restart
  BY <1>2 DEF Restart, Replies
<1>3. ASSUME NEW t \in Ticket, BrokerClose(t)
      PROVE  BookUsed' /\ LastOrderOwn' /\ DetectInFlight'
             /\ FalseCloseOnlyInFlight'
  <2>1. open' = open \ {t}
        /\ UNCHANGED <<own, mticket, tracked, slKnown, tpc, seen, closedSet>>
    BY <1>3 DEF BrokerClose
  <2>2. \A s : Used(s) /\ s \in Ticket => Used(s)'
    <3>1. deal'[t] # "none" /\ \A s \in Ticket : s # t => deal'[s] = deal[s]
      BY <1>3, <1>c DEF BrokerClose, TypeOK
    <3> QED
      BY <2>1, <3>1
  <2>3. BookUsed'
    <3>1. tracked \cup slKnown \cup seen \cup closedSet \subseteq Ticket
      BY <1>c DEF TypeOK
    <3> QED
      BY <2>1, <2>2, <3>1
  <2> QED
    BY <2>1, <2>3
<1>4. ASSUME NEW t \in Ticket, ManualOpen(t)
      PROVE  BookUsed' /\ LastOrderOwn' /\ DetectInFlight'
             /\ FalseCloseOnlyInFlight'
  BY <1>4 DEF ManualOpen, Fresh
<1> QED
  BY <1>1, <1>2, <1>3, <1>4 DEF Environment

(* With an answering broker, the only open position the tick thread can    *)
(* report as closed is the one whose order is the latest: it was filled    *)
(* after the tick thread's query.  No position of another origin is ever   *)
(* reported closed while it is open.                                       *)
THEOREM FalseClosesOnlyInFlight ==
  ASSUME Faults = FALSE
  PROVE  Spec => []FalseCloseOnlyInFlight
<1>1. CloseInv => FalseCloseOnlyInFlight
  BY DEF CloseInv
<1>2. CloseInv /\ UNCHANGED vars => CloseInv'
  <2> SUFFICES ASSUME CloseInv, UNCHANGED vars PROVE CloseInv'
    OBVIOUS
  <2>1. CapInv'
    BY CapStep DEF CloseInv
  <2> QED
    BY <2>1 DEF vars, CloseInv, BookUsed, Used, LastOrderOwn, DetectInFlight,
                FalseCloseOnlyInFlight
<1>3. CloseInv /\ [Next]_vars => CloseInv'
  BY <1>2, CloseTick, CloseMain, CloseEnvironment DEF Next
<1> QED
  BY <1>1, <1>3, InitClose, PTL DEF Spec

-----------------------------------------------------------------------------
(* Refinement.                                                             *)

DeskInv == CapInv /\ SpacingInv

LEMMA DeskInitial == Init => Desk!DeskInit
  BY DEF Init, Desk!DeskInit

LEMMA DeskStep ==
  DeskInv /\ [Next]_vars => [Desk!DeskNext]_<<open \cap own, sinceOrder>>
<1> SUFFICES ASSUME DeskInv, [Next]_vars
             PROVE  Desk!DeskNext \/ UNCHANGED <<open \cap own, sinceOrder>>
  OBVIOUS
<1>t. TypeOK
  BY DEF DeskInv, CapInv
<1>1. CASE TickStep
  BY <1>1, TickFrame
<1>2. CASE MainStep
  <2>1. ASSUME mpc = "send", NEW t \in Fresh, Fill(t)
        PROVE  Desk!DeskNext
    <3>1. open \cap own = {} /\ sinceOrder = EntryCooldown
      BY <2>1 DEF DeskInv, CapInv, ClearToSend, SpacingInv, SpacedOrder, Ordering
    <3>2. t \in Ticket /\ t \notin open
      BY DEF Fresh
    <3>3. t \notin own
      BY <2>1 DEF DeskInv, CapInv, OwnUsed, Used, Fresh
    <3>4. (open \cap own)' = {t} /\ sinceOrder' = 0
      BY <2>1, <3>1, <3>2, <3>3 DEF Fill
    <3>5. Desk!Open(t)
      BY <3>1, <3>4 DEF Desk!Open
    <3> QED
      BY <3>2, <3>5 DEF Desk!DeskNext
  <2>2. CASE Send
    BY <2>1, <2>2 DEF Send
  <2>3. CASE LoopTop \/ Take \/ Guard \/ Track \/ Register \/ ResetState
             \/ ResetFields \/ Stamp
    BY <2>3 DEF LoopTop, Take, Guard, Track, Register, ResetState, ResetFields,
                Stamp
  <2> QED
    BY <1>2, <2>2, <2>3 DEF MainStep
<1>3. CASE Environment
  <2>1. CASE Elapse
    <3>1. (open \cap own)' = open \cap own
      BY <2>1 DEF Elapse
    <3>2. CASE sinceOrder < EntryCooldown
      BY <2>1, <3>1, <3>2 DEF Elapse, Desk!DeskNext, Desk!Pass
    <3>3. CASE ~(sinceOrder < EntryCooldown)
      BY <2>1, <3>1, <3>3 DEF Elapse
    <3> QED
      BY <3>2, <3>3
  <2>2. CASE TogglePause \/ Stop \/ Restart
    BY <2>2 DEF TogglePause, Stop, Restart
  <2>3. ASSUME NEW t \in Ticket, BrokerClose(t)
        PROVE  Desk!DeskNext \/ UNCHANGED <<open \cap own, sinceOrder>>
    <3>1. (open \cap own)' = (open \cap own) \ {t} /\ sinceOrder' = sinceOrder
      BY <2>3 DEF BrokerClose
    <3>2. CASE t \in own
      <4>1. Desk!Close(t)
        BY <2>3, <3>1, <3>2 DEF BrokerClose, Desk!Close
      <4> QED
        BY <4>1 DEF Desk!DeskNext
    <3>3. CASE t \notin own
      BY <3>1, <3>3
    <3> QED
      BY <3>2, <3>3
  <2>4. ASSUME NEW t \in Ticket, ManualOpen(t)
        PROVE  UNCHANGED <<open \cap own, sinceOrder>>
    <3>1. t \notin own
      BY <2>4 DEF ManualOpen, Fresh, DeskInv, CapInv, OwnUsed, Used
    <3> QED
      BY <2>4, <3>1 DEF ManualOpen
  <2> QED
    BY <1>3, <2>1, <2>2, <2>3, <2>4 DEF Environment
<1>4. CASE UNCHANGED vars
  BY <1>4 DEF vars
<1> QED
  BY <1>1, <1>2, <1>3, <1>4 DEF Next

(* With an answering broker and within one process, the two threads, the   *)
(* queue and the cooldown clocks together run the account as TradeDesk     *)
(* does: one position at a time, orders an entry cooldown apart.           *)
THEOREM ImplementsTradeDesk ==
  ASSUME Faults = FALSE, MaxRestarts = 0
  PROVE  Spec => DeskImplemented
<1>1. Init => DeskInv
  BY InitCap, InitSpacing DEF DeskInv
<1>2. DeskInv /\ [Next]_vars => DeskInv'
  BY CapStep, SpacingStep DEF DeskInv
<1> QED
  BY <1>1, <1>2, DeskInitial, DeskStep, PTL
  DEF Spec, DeskImplemented, Desk!DeskSpec, Desk!deskVars
=============================================================================
