--------------------------- MODULE SessionRanges ---------------------------
(***************************************************************************)
(* The sessions of the trading day as the dashboard is told of them: their *)
(* ranges, which two rules write into the same fields of the evidence, and *)
(* their times (_get_session_details of daemon.py).  At the close of a bar *)
(* _update_indicators (live_state.py) takes the ranges anew from the bars  *)
(* of the last 24 hours; a payload (_get_regime_payload of daemon.py)      *)
(* extends the range of the session that runs by the last bid.  The two do *)
(* not agree on the hours of the sessions.  Of each range the model has    *)
(* the high, the low being its mirror image.  The bars are an hour long    *)
(* instead of fifteen minutes, and the broker's offset is taken as known.  *)
(***************************************************************************)
EXTENDS Integers, FiniteSets

CONSTANTS
  Bid,        \* bids; the lowest is the usual one
  QuietFrom,  \* hours in which the ticks may cease
  MaxQuiet,   \* bound on the hours without ticks in a day
  MaxSpikes   \* bound on the hours with an unusual bid in a day

ASSUME RangesAssumption ==
  /\ Bid \subseteq Nat \ {0} /\ 1 \in Bid
  /\ QuietFrom \subseteq 0 .. 23 /\ MaxQuiet \in Nat /\ MaxSpikes \in Nat

VARIABLES
  hour,     \* of the day, UTC
  summer,   \* the places whose clocks are on summer time
  past,     \* by age in hours, the highest bid of an hour, or 0
  unclosed, \* age of the bar that is not yet closed
  highs,    \* asian_range_high, london_range_high, ny_range_high
  seen,     \* history: the highest bid of the session's last hours, by bars
  shown,    \* history: the highest bid of them that a payload was made at
  settled   \* history: sessions whose range was taken from bars since they ended

rangeVars == <<hour, summer, past, unclosed, highs, seen, shown, settled>>

Ranged == {"Asian", "London", "New York"}
Highest(S) == IF S = {} THEN 0 ELSE CHOOSE x \in S : \A y \in S : y <= x

RangesTypeOK ==
  /\ hour \in 0 .. 23 /\ summer \subseteq {"London", "New York"}
  /\ past \in [0 .. 24 -> Bid \cup {0}] /\ unclosed \in Nat
  /\ highs \in [Ranged -> Bid \cup {0}]
  /\ seen \in [Ranged -> Bid \cup {0}] /\ shown \in [Ranged -> Bid \cup {0}]
  /\ settled \subseteq Ranged

(* Opening and close of London and New York in UTC, as in                  *)
(* get_dst_session_hours and in the payload.                               *)
Opens(place, usual) == IF place \in summer THEN usual - 1 ELSE usual
Hours(place, usual, length) == Opens(place, usual) .. Opens(place, usual) + length - 1

LondonHours == Hours("London", 8, 8)

(* _update_indicators: New York has the same hours all year.               *)
BarHours(s) ==
  CASE s = "Asian"    -> 0 .. Opens("London", 8) - 1
    [] s = "London"   -> LondonHours
    [] s = "New York" -> 13 .. 20

(* _get_regime_payload: the first session that fits.                       *)
TickHours(s) ==
  CASE s = "Asian"    -> 0 .. 7
    [] s = "London"   -> LondonHours \ (0 .. 7)
    [] s = "New York" -> Hours("New York", 13, 8) \ (0 .. 7 \cup LondonHours)

Openings(s) == {h \in BarHours(s) : (h - 1) % 24 \notin BarHours(s)}

SlipInWindow(age) == age < 12

(* c_time >= start_search, a moment after the hour has begun.              *)
InWindow(age) == age < 24

HourOf(age) == (hour - age) % 24

(* Without a bar in its hours, the Asian range is that of the eight hourly *)
(* bars before the last four, and the others are none.                     *)
FromBars(s) ==
  LET closed  == {a \in 1 .. 24 : past[a] # 0}
      within  == {a \in closed : InWindow(a) /\ HourOf(a) \in BarHours(s)}
      earlier == {a \in closed : Cardinality({b \in closed : b <= a}) \in 5 .. 12}
  IN  Highest({past[a] : a \in IF within = {} /\ s = "Asian" THEN earlier ELSE within})

Extended(ranges, bid) ==
  [s \in Ranged |-> IF hour \in TickHours(s) /\ bid > ranges[s] THEN bid ELSE ranges[s]]

(* The clocks of New York go on summer time before those of London, and    *)
(* leave it after them.                                                    *)
RangesInit ==
  /\ hour \in 0 .. 23 /\ summer \in {{}, {"New York"}, {"London", "New York"}}
  /\ past = [a \in 0 .. 24 |-> IF a = 0 THEN 0 ELSE 1] /\ unclosed = 1
  /\ highs = [s \in Ranged |-> 1]
  /\ seen = [s \in Ranged |-> IF hour \in Openings(s) THEN 0 ELSE 1]
  /\ shown = [s \in Ranged |-> 0] /\ settled = {}

Higher(x, y) == IF x < y THEN y ELSE x

(* _process_tick: the daemon's callback, which sends a payload now and     *)
(* then, comes before the bars.  The first tick of an hour closes the bar  *)
(* before; its handler has the ranges taken anew and sends a payload too.  *)
RangeTick(bid, payload) ==
  LET closes == unclosed > 0
      tells  == payload \/ closes
      ranges == IF closes THEN [s \in Ranged |-> FromBars(s)] ELSE highs
  IN  /\ past' = [past EXCEPT ![0] = Higher(past[0], bid)]
      /\ unclosed' = 0
      /\ highs' = IF tells THEN Extended(ranges, bid) ELSE highs
      /\ seen' = [s \in Ranged |->
                    IF hour \in BarHours(s) THEN Higher(seen[s], bid) ELSE seen[s]]
      /\ shown' = [s \in Ranged |->
                     IF tells /\ hour \in BarHours(s) \cap TickHours(s)
                     THEN Higher(shown[s], bid) ELSE shown[s]]
      /\ settled' = IF closes THEN {s \in Ranged : hour \notin BarHours(s) \cup TickHours(s)}
                    ELSE settled
      /\ UNCHANGED <<hour, summer>>

Spikes == {a \in 0 .. 24 : past[a] > 1}
Silent == {a \in 1 .. 24 : past[a] = 0}

HourPasses ==
  LET next   == (hour + 1) % 24
      starts == {s \in Ranged : next \in Openings(s)}
  IN  /\ \/ past[0] # 0
         \/ (hour \in QuietFrom \/ past[1] = 0) /\ Cardinality(Silent) < MaxQuiet
      /\ hour' = next /\ unclosed' = unclosed + 1
      /\ past' = [a \in 0 .. 24 |-> IF a = 0 THEN 0 ELSE past[a - 1]]
      /\ seen' = [s \in Ranged |-> IF s \in starts THEN 0 ELSE seen[s]]
      /\ shown' = [s \in Ranged |-> IF s \in starts THEN 0 ELSE shown[s]]
      /\ settled' = {s \in settled : next \notin BarHours(s) \cup TickHours(s)}
      /\ UNCHANGED <<summer, highs>>

RangesNext ==
  \/ \E bid \in Bid, payload \in BOOLEAN :
       (bid > 1 => Cardinality(Spikes \ {0}) < MaxSpikes) /\ RangeTick(bid, payload)
  \/ HourPasses

RangesSpec == RangesInit /\ [][RangesNext]_rangeVars

-----------------------------------------------------------------------------
(* _get_session_details: the hours that a session has left, or 0 when it   *)
(* is closed; southern says that Sydney is on summer time.                 *)
Left(now, opens, closes, length) ==
  LET wraps   == opens > closes
      active  == IF wraps THEN now >= opens \/ now < closes ELSE opens <= now /\ now < closes
      elapsed == IF now >= opens THEN now - opens ELSE now + 24 - opens
  IN  IF active /\ elapsed < length THEN length - elapsed ELSE 0

Details(now, southern) ==
  LET sydney == IF southern THEN 21 ELSE 22
      london == Opens("London", 8)
      york   == Opens("New York", 13)
  IN  [Sydney |-> Left(now, sydney, (sydney + 9) % 24, 9), Tokyo |-> Left(now, 0, 9, 9),
       London |-> Left(now, london, london + 8, 8), York |-> Left(now, york, york + 8, 9)]

(* However ticks, payloads and closes of bars take turns: once a session   *)
(* is over and a bar has closed since, its range is that of its last       *)
(* hours, with nothing of the day before; and while it runs, its range     *)
(* covers every bid that a payload was made at in hours which both rules   *)
(* give to the session.  The hours left that are told run down one by one  *)
(* to the close, except that New York closes with an hour left, and no     *)
(* hour is without a session but those between New York and Sydney.        *)
RangesTold ==
  /\ \A s \in Ranged :
       /\ s \in settled /\ seen[s] # 0 => highs[s] = seen[s]
       /\ hour \in BarHours(s) \cap TickHours(s) => highs[s] >= shown[s]
  /\ \A southern \in BOOLEAN :
       LET now  == Details(hour, southern)
           next == Details((hour + 1) % 24, southern)
       IN  /\ \A place \in DOMAIN now :
                now[place] > 1 =>
                  \/ next[place] = now[place] - 1
                  \/ place = "York" /\ now[place] = 2 /\ next[place] = 0
           /\ (\A place \in DOMAIN now : now[place] = 0) => hour \in 20 .. 21
=============================================================================
