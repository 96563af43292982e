------------------------------ MODULE RiskGuard ------------------------------
(***************************************************************************)
(* The daily drawdown breaker: RiskGuard with its file daily_pnl.json, and *)
(* the part of MT5TradeExecutor.execute_signal that consults it.  One      *)
(* order attempt is three steps, because the market and the calendar move  *)
(* between them.  realized_pnl stays 0: nothing calls record_trade_result. *)
(***************************************************************************)
EXTENDS Integers

CONSTANTS
  Equity,       \* account equities
  DrawdownPct,  \* risk_max_daily_drawdown_pct
  LossAmount,   \* risk_max_daily_loss_amount
  Bridge,       \* realtime_execution_mode = "bridge"
  Faults,       \* may account_info fail?
  SaveFails,    \* may the write of the file fail?
  MaxDay,       \* bound: days
  MaxRestarts   \* bound: process restarts

ASSUME EquityAssumption == Equity # {} /\ Equity \subseteq Nat \ {0}
ASSUME ThresholdAssumption ==
  DrawdownPct \in Nat \ {0} /\ LossAmount \in Nat \ {0}
ASSUME ModeAssumption ==
  Bridge \in BOOLEAN /\ Faults \in BOOLEAN /\ SaveFails \in BOOLEAN
ASSUME BoundAssumption == MaxDay \in Nat /\ MaxRestarts \in Nat

Day == 0..MaxDay

(* daily_pnl: a start_equity of 0 says that the day has none yet.          *)
DailyPnl == [date : Day, start : Equity \cup {0}]
NoFile == [date |-> -1, start |-> 0]

VARIABLES
  today,      \* date.today()
  equity,     \* the account's equity
  file,       \* reports/daily_pnl.json
  pnl,        \* daily_pnl in memory
  current,    \* current_equity in memory, 0 before the first update
  pc,         \* where execute_signal stands
  \* history
  opening,    \* equity at the day's first look at the account
  read,       \* equity at this process's last look at it, 0 before the first
  restarts

guardVars == <<today, equity, file, pnl, current, pc, opening, read, restarts>>

GuardTypeOK ==
  /\ today \in Day
  /\ equity \in Equity
  /\ file \in DailyPnl \cup {NoFile}
  /\ pnl \in DailyPnl
  /\ current \in Equity \cup {0}
  /\ pc \in {"idle", "check", "send"}
  /\ opening \in [Day -> Equity \cup {0}]
  /\ read \in Equity \cup {0}
  /\ restarts \in 0..MaxRestarts

Unseeded(d) == [date |-> d, start |-> 0]

(* Definitions named Slip... are not the code: each is a mistake that      *)
(* could be made in the definition after it, kept to show that a property  *)
(* would notice.                                                           *)
SlipLoaded == Unseeded(today)

(* _load_daily_pnl: only today's file counts.                              *)
Loaded == IF file.date = today THEN file ELSE Unseeded(today)

(* is_halted                                                               *)
Exceeds(start, now) ==
  \/ (start - now) * 100 >= DrawdownPct * start
  \/ start - now >= LossAmount

Halted(now) == pnl.date = today /\ pnl.start # 0 /\ Exceeds(pnl.start, now)

(* is_tripped                                                              *)
Tripped == current # 0 /\ Halted(current)

GuardInit ==
  /\ today = 0
  /\ equity \in Equity
  /\ file = NoFile
  /\ pnl = Unseeded(0)
  /\ current = 0
  /\ pc = "idle"
  /\ opening = [d \in Day |-> 0]
  /\ read = 0
  /\ restarts = 0

SlipSeedsAnew == TRUE

(* The day's start is seeded once.                                         *)
SeedsAnew == pnl.date # today \/ pnl.start = 0

SlipSeed == equity - current

Seed == equity

(* update_equity; _save_daily_pnl logs a failed write and goes on.         *)
UpdateEquity ==
  /\ current' = equity
  /\ IF SeedsAnew
     THEN /\ pnl' = [date |-> today, start |-> Seed]
          /\ file' \in {pnl'} \cup (IF SaveFails THEN {file} ELSE {})
     ELSE UNCHANGED <<pnl, file>>

(* What the account showed at the attempt; the code is not told in bridge  *)
(* mode.                                                                   *)
Look ==
  /\ read' = equity
  /\ opening' = IF opening[today] = 0
                THEN [opening EXCEPT ![today] = equity] ELSE opening

(* execute_signal reads the account, in direct mode only; a failed call    *)
(* skips the update and goes on.                                           *)
Consult ==
  /\ pc = "idle"
  /\ \/ Look /\ IF Bridge THEN UNCHANGED <<pnl, file, current>> ELSE UpdateEquity
     \/ Faults /\ ~Bridge /\ UNCHANGED <<opening, read, pnl, file, current>>
  /\ pc' = "check"
  /\ UNCHANGED <<today, equity, restarts>>

(* The breaker refuses the order, or send_order goes ahead.                *)
Check ==
  /\ pc = "check"
  /\ pc' = IF Tripped THEN "idle" ELSE "send"
  /\ UNCHANGED <<today, equity, file, pnl, current, opening, read, restarts>>

Sent ==
  /\ pc = "send"
  /\ pc' = "idle"
  /\ UNCHANGED <<today, equity, file, pnl, current, opening, read, restarts>>

MarketMoves(e) ==
  /\ e # equity
  /\ equity' = e
  /\ UNCHANGED <<today, file, pnl, current, pc, opening, read, restarts>>

Midnight ==
  /\ today < MaxDay
  /\ today' = today + 1
  /\ UNCHANGED <<equity, file, pnl, current, pc, opening, read, restarts>>

Restart ==
  /\ restarts < MaxRestarts
  /\ restarts' = restarts + 1
  /\ pnl' = Loaded
  /\ current' = 0
  /\ pc' = "idle"
  /\ read' = 0
  /\ UNCHANGED <<today, equity, file, opening>>

GuardNext ==
  \/ Consult \/ Check \/ Sent \/ Midnight \/ Restart
  \/ \E e \in Equity : MarketMoves(e)

GuardSpec == GuardInit /\ [][GuardNext]_guardVars

-----------------------------------------------------------------------------
(* risk_guard.py:17, "halts all execution if daily drawdown exceeds        *)
(* threshold": an order goes out only if the equity last seen is within    *)
(* the limits of the day's opening equity, whatever failed readings,       *)
(* midnights and restarts lie between the two.                             *)
OrderWithinDrawdown ==
  pc = "send" /\ opening[today] # 0 /\ read # 0 => ~Exceeds(opening[today], read)

(* The day's reference is never replaced by a later equity: not by a       *)
(* further attempt, and not by a restart, which takes it from the file.    *)
OpeningKept ==
  pnl.date = today /\ pnl.start # 0 => pnl.start = opening[today]
=============================================================================
