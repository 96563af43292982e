--------------------------- MODULE Engines_proofs ---------------------------
(* Theorems about the tick feed, the broker's clock and the sessions'      *)
(* ranges, and about all the engines side by side.                         *)
EXTENDS MCEngines, Levels_proofs, Market_proofs, Trade_proofs

-----------------------------------------------------------------------------
(* TickFeed. The invariant follows the tape: what was polled is not        *)
(* processed yet, nothing is processed that was not polled, and the poll   *)
(* stands at a tick that comes through; and it names the one time by which *)
(* the bars of all periods have moved on.                                  *)

(* Ticks are on the tape in the order of their stamps, after the start.    *)
TapeOrdered ==
  /\ \A i \in DOMAIN tape : Lead < tape[i].stamp /\ tape[i].stamp <= now + Lead
  /\ \A i \in DOMAIN tape : \A j \in DOMAIN tape : i <= j => tape[i].stamp <= tape[j].stamp

(* A tick that came through, or is about to.                               *)
Through(j) == fed[j] > 0 \/ j \in todo

(* What was polled is not processed yet, nothing is processed that was not *)
(* polled, and the poll got to where a tick came through.                  *)
PollInv ==
  /\ lastMsc <= now + Lead
  /\ \A i \in todo : fed[i] = 0 /\ tape[i].stamp <= lastMsc
  /\ \A i \in 1 .. MaxTape : fed[i] > 0 => i \in DOMAIN tape /\ tape[i].stamp <= lastMsc
  /\ lastMsc = Lead \/ \E j \in DOMAIN tape : tape[j].stamp = lastMsc /\ Through(j)

TapeInv == FeedTypeOK /\ TapeOrdered /\ PollInv /\ TicksOnce

(* Taking the remainder early makes no difference.                         *)
LEMMA ModUnique ==
  ASSUME NEW m \in Nat \ {0}, NEW k \in Int, NEW l \in Int,
         NEW r \in 0 .. m - 1, NEW s \in 0 .. m - 1, m * k + r = m * l + s
  PROVE  r = s
<1>1. m * (k - l) = s - r
  OBVIOUS
<1>2. ASSUME k > l PROVE FALSE
  <2>1. m * (k - l) >= m
    BY <1>2
  <2> QED
    BY <1>1, <2>1
<1>3. ASSUME k < l PROVE FALSE
  <2>1. m * (l - k) >= m
    BY <1>3
  <2>2. m * (l - k) = r - s
    BY <1>1
  <2> QED
    BY <2>2, <2>1
<1>4. k = l
  BY <1>2, <1>3
<1> QED
  BY <1>4

LEMMA DivMod ==
  ASSUME NEW m \in Nat \ {0}, NEW x \in Int
  PROVE  x \div m \in Int /\ x % m \in 0 .. m - 1 /\ x = m * (x \div m) + (x % m)
<1>1. x \div m \in Int
  OBVIOUS
<1>2. x % m \in 0 .. m - 1
  OBVIOUS
<1>3. x = m * (x \div m) + (x % m)
  OBVIOUS
<1> QED
  BY <1>1, <1>2, <1>3

LEMMA ModAdd ==
  ASSUME NEW m \in Nat \ {0}, NEW x \in Int, NEW y \in Int
  PROVE  (x + (y % m)) % m = (x + y) % m
<1> DEFINE r == y % m
           s == (x + r) % m
           t == (x + y) % m
<1>1. y \div m \in Int /\ r \in 0 .. m - 1 /\ y = m * (y \div m) + r
  BY DivMod
<1>2. x + r \in Int /\ x + y \in Int
  BY <1>1
<1>3. (x + r) \div m \in Int /\ s \in 0 .. m - 1 /\ x + r = m * ((x + r) \div m) + s
  BY <1>2, DivMod
<1>4. (x + y) \div m \in Int /\ t \in 0 .. m - 1 /\ x + y = m * ((x + y) \div m) + t
  BY <1>2, DivMod
<1> DEFINE q == y \div m
           p == (x + r) \div m
           l == (x + y) \div m
<1> HIDE DEF q, p, l, r, s, t
<1>5. m * (p + q) + s = m * l + t /\ p + q \in Int
  BY <1>1, <1>3, <1>4 DEF q, p, l
<1>6. s = t
  BY <1>3, <1>4, <1>5, ModUnique DEF l
<1> QED
  BY <1>6 DEF r, s, t

(* The constants, one by one.                                              *)
LEMMA FeedConstants ==
  /\ Lead \in Nat /\ Second \in Nat \ {0} /\ Batch \in Nat \ {0} /\ StaleAfter \in Nat
  /\ MaxTime \in Nat /\ MaxTape \in Nat /\ VolCycle \in Nat \ {0, 1}
  /\ Market \in Nat /\ InfoSpread \in Nat /\ PointsPerUnit \in Nat
  /\ Period \subseteq Nat \ {0}
BY FeedClockAssumption, QuoteAssumption, PeriodAssumption

LEMMA TapeIndices ==
  ASSUME FeedTypeOK
  PROVE  DOMAIN tape = 1 .. Len(tape) /\ Len(tape) \in Nat /\ DOMAIN tape \subseteq 1 .. MaxTape
<1>1. DOMAIN tape = 1 .. Len(tape) /\ Len(tape) \in Nat
  BY DEF FeedTypeOK
<1>2. Len(tape) <= MaxTape
  BY DEF FeedTypeOK
<1> QED
  BY <1>1, <1>2, FeedConstants

LEMMA TickType ==
  ASSUME FeedTypeOK, NEW i \in DOMAIN tape
  PROVE  tape[i].stamp \in Nat /\ tape[i].quote \in {"good", "flat"}
<1> DEFINE Tick == [stamp : Nat, quote : {"good", "flat"}]
<1>1. tape \in Seq(Tick)
  BY DEF FeedTypeOK
<1>2. tape[i] \in Tick
  <2> HIDE DEF Tick
  <2> QED
    BY <1>1
<1> QED
  BY <1>2

LEMMA EarliestIn ==
  ASSUME NEW some, some \subseteq Nat, some # {}
  PROVE  Earliest(some) \in some
<1>1. \E x \in some : \A y \in some : x <= y
  BY LeastOf
<1> QED
  BY <1>1 DEF Earliest

LEMMA NewestOf ==
  ASSUME NEW top \in Nat, NEW some, some \subseteq 1 .. top, some # {}
  PROVE  Newest(some) \in some /\ \A i \in some : i <= Newest(some)
<1>1. some \subseteq Nat /\ \A x \in some : x <= top
  OBVIOUS
<1>2. \E x \in some : \A y \in some : y <= x
  BY <1>1, GreatestOf
<1> QED
  BY <1>2 DEF Newest

(* A poll leaves no tick out before the last one that it gets.             *)
LEMMA UnseenIsPrefix ==
  ASSUME FeedTypeOK, Unseen # {}
  PROVE  /\ Unseen \subseteq DOMAIN tape
         /\ Newest(Unseen) \in Unseen
         /\ \A i \in Unseen : i <= Newest(Unseen) /\ tape[i].stamp > lastMsc
         /\ \A i \in DOMAIN tape :
              i <= Newest(Unseen) /\ tape[i].stamp > lastMsc => i \in Unseen
<1> DEFINE from == (lastMsc \div Second) * Second
           late == {i \in DOMAIN tape : tape[i].stamp >= from}
           upTo(i) == {j \in late : j <= i}
<1>1. DOMAIN tape = 1 .. Len(tape) /\ Len(tape) \in Nat
  BY TapeIndices
<1>2. from \in Int /\ from <= lastMsc
  <2>1. Second \in Nat \ {0} /\ lastMsc \in Int
    BY FeedConstants DEF FeedTypeOK
  <2>2. /\ lastMsc \div Second \in Int /\ lastMsc % Second \in 0 .. Second - 1
        /\ lastMsc = Second * (lastMsc \div Second) + (lastMsc % Second)
    BY <2>1, DivMod
  <2> DEFINE q == lastMsc \div Second
             r == lastMsc % Second
  <2> HIDE DEF q, r
  <2>3. q \in Int /\ r \in 0 .. Second - 1 /\ lastMsc = Second * q + r
    BY <2>2 DEF q, r
  <2>4. q * Second \in Int /\ q * Second <= lastMsc
    BY <2>1, <2>3
  <2> QED
    BY <2>4 DEF q
<1> HIDE DEF from
<1>3. Unseen = {i \in late : Cardinality(upTo(i)) <= Batch /\ tape[i].stamp > lastMsc}
  BY DEF Unseen, Reply, from
<1>4. Unseen \subseteq 1 .. Len(tape)
  BY <1>1, <1>3
<1>5. Newest(Unseen) \in Unseen /\ \A i \in Unseen : i <= Newest(Unseen)
  BY <1>1, <1>4, NewestOf
<1>6. ASSUME NEW i \in DOMAIN tape, i <= Newest(Unseen), tape[i].stamp > lastMsc
      PROVE  i \in Unseen
  <2> DEFINE top == Newest(Unseen)
  <2>1. i \in late
    <3>1. tape[i].stamp \in Nat /\ lastMsc \in Int
      BY TickType DEF FeedTypeOK
    <3> QED
      BY <1>2, <1>6, <3>1
  <2>2. Cardinality(upTo(top)) <= Batch
    BY <1>3, <1>5
  <2>3. top \in Nat
    <3>1. top \in 1 .. Len(tape)
      BY <1>4, <1>5
    <3> QED
      BY <3>1
  <2> HIDE DEF top
  <2>4. upTo(i) \subseteq upTo(top)
    <3>1. ASSUME NEW j \in late, j <= i PROVE j <= top
      <4>1. j \in Nat /\ i \in Nat
        BY <1>1
      <4> QED
        BY <1>6, <2>3, <3>1, <4>1 DEF top
    <3> QED
      BY <3>1
  <2>5. IsFiniteSet(upTo(top))
    <3>1. IsFiniteSet(1 .. Len(tape))
      BY <1>1, FS_Interval
    <3>2. upTo(top) \subseteq 1 .. Len(tape)
      BY <1>1
    <3> HIDE DEF upTo
    <3> QED
      BY <3>1, <3>2, FS_Subset
  <2>6. Cardinality(upTo(i)) <= Cardinality(upTo(top))
        /\ Cardinality(upTo(i)) \in Nat /\ Cardinality(upTo(top)) \in Nat
    <3> HIDE DEF upTo
    <3>1. IsFiniteSet(upTo(i))
      BY <2>4, <2>5, FS_Subset
    <3> QED
      BY <2>4, <2>5, <3>1, FS_Subset, FS_CardinalityType
  <2>7. Cardinality(upTo(i)) <= Batch
    <3>1. Batch \in Nat
      BY FeedConstants
    <3> HIDE DEF upTo
    <3> QED
      BY <2>2, <2>6, <3>1
  <2> QED
    BY <1>3, <1>6, <2>1, <2>7
<1> QED
  BY <1>1, <1>3, <1>4, <1>5, <1>6

-----------------------------------------------------------------------------
(* What a tick does to the quote and to the types of the bars.             *)
LEMMA StartType ==
  ASSUME NEW p \in Period, NEW s \in Int
  PROVE  /\ Start(p, s) \in Int /\ Start(p, s) <= s /\ s < Start(p, s) + p
         /\ s >= 0 => Start(p, s) >= 0
         /\ \E q \in Int : Start(p, s) = q * p
<1>1. p \in Nat \ {0}
  BY FeedConstants
<1> DEFINE q == s \div p
           r == s % p
<1>2. q \in Int /\ r \in 0 .. p - 1 /\ s = p * q + r
  BY <1>1, DivMod
<1>3. Start(p, s) = q * p
  BY DEF Start
<1> HIDE DEF q, r
<1>4. q * p \in Int /\ q * p <= s /\ s < q * p + p
  BY <1>1, <1>2
<1>5. s >= 0 => q * p >= 0
  <2> SUFFICES ASSUME s >= 0 PROVE q * p >= 0
    OBVIOUS
  <2>1. ASSUME q < 0 PROVE FALSE
    <3>1. p * q <= -p
      BY <1>1, <1>2, <2>1
    <3> QED
      BY <1>1, <1>2, <3>1
  <2> QED
    BY <1>1, <1>2, <2>1
<1> QED
  BY <1>2, <1>3, <1>4, <1>5

LEMMA OneMoreVolume ==
  ASSUME NEW v \in Int
  PROVE  (v + 1) % VolCycle \in 0 .. VolCycle - 1
<1>1. VolCycle \in Nat \ {0} /\ v + 1 \in Int
  BY FeedConstants
<1> QED
  BY <1>1, DivMod

LEMMA FoldsType ==
  ASSUME NEW p \in Period, NEW s \in Int, bar[p] \in BarType
  PROVE  Folds(p, s) \in BarType
<1>1. /\ bar[p] = [open |-> bar[p].open, vol |-> bar[p].vol]
      /\ bar[p].open \in Int /\ bar[p].vol \in 0 .. VolCycle - 1
  BY DEF BarType
<1>2. Start(p, s) \in Int /\ (bar[p].vol + 1) % VolCycle \in 0 .. VolCycle - 1
  BY <1>1, StartType, OneMoreVolume
<1>3. 1 \in 0 .. VolCycle - 1
  BY FeedConstants
<1>4. [bar[p] EXCEPT !.vol = (@ + 1) % VolCycle]
        = [open |-> bar[p].open, vol |-> (bar[p].vol + 1) % VolCycle]
  BY <1>1
<1> QED
  BY <1>1, <1>2, <1>3, <1>4 DEF Folds, BarType

LEMMA FeedBarsType ==
  ASSUME bar \in [Period -> BarType], closed \in [Period -> Seq(BarType)],
         NEW s \in Int, FeedBars(s)
  PROVE  bar' \in [Period -> BarType] /\ closed' \in [Period -> Seq(BarType)]
<1>1. ASSUME NEW p \in Period
      PROVE  /\ Folds(p, s) \in BarType
             /\ (IF Closes(p, s) THEN Append(closed[p], bar[p]) ELSE closed[p]) \in Seq(BarType)
  <2>1. bar[p] \in BarType /\ closed[p] \in Seq(BarType)
    OBVIOUS
  <2>2. Append(closed[p], bar[p]) \in Seq(BarType)
    BY <2>1
  <2> QED
    BY <2>1, <2>2, FoldsType
<1> QED
  BY <1>1 DEF FeedBars

LEMMA QuotedType ==
  ASSUME bid \in Int, ask \in Int, goodSpread \in Nat,
         NEW b \in Int, NEW a \in Int, Quoted([bid |-> b, ask |-> a])
  PROVE  bid' \in Int /\ ask' \in Int /\ goodSpread' \in Nat
<1> DEFINE q == [bid |-> b, ask |-> a]
<1>1. SpreadInUse \in Nat
  BY FeedConstants DEF SpreadInUse, BrokerSpread
<1>2. ASSUME NEW middle \in Int PROVE Around(middle).bid \in Int /\ Around(middle).ask \in Int
  <2>1. SpreadInUse \div 2 \in Int
    BY <1>1
  <2> QED
    BY <2>1 DEF Around
<1>3. Repaired(q).bid \in Int /\ Repaired(q).ask \in Int
  <2>1. (IF q.bid > 0 THEN q.bid ELSE IF q.ask > 0 THEN q.ask ELSE IF bid > 0 THEN bid ELSE Market)
          \in Int
    BY FeedConstants
  <2> QED
    BY <1>2, <2>1 DEF Repaired
<1>4. goodSpread' \in Nat
  BY DEF Quoted
<1> QED
  BY <1>3, <1>4 DEF Quoted

LEMMA AroundType ==
  ASSUME goodSpread \in Nat, NEW middle \in Int
  PROVE  \E b \in Int, a \in Int : Around(middle) = [bid |-> b, ask |-> a]
<1>1. SpreadInUse \in Nat
  BY FeedConstants DEF SpreadInUse, BrokerSpread
<1>2. SpreadInUse \div 2 \in Int
  BY <1>1
<1> QED
  BY <1>2 DEF Around

-----------------------------------------------------------------------------
(* The steps of TickFeed.                                                  *)
LEMMA FeedInitHolds == FeedInit => TapeInv
<1> SUFFICES ASSUME FeedInit PROVE TapeInv
  OBVIOUS
<1>1. /\ now = 0 /\ tape = <<>> /\ todo = {} /\ lastMsc = Lead /\ latest = Lead + Lead
      /\ bid = Market /\ ask = Market + InfoSpread /\ polling = TRUE /\ goodSpread = 0
      /\ closed = [p \in Period |-> <<>>] /\ fed = [i \in 1 .. MaxTape |-> 0]
  BY FeedConstants DEF FeedInit, Constructed
<1>2. bar \in [Period -> BarType]
  <2>1. 0 \in 0 .. VolCycle - 1
    BY FeedConstants
  <2>2. ASSUME NEW p \in Period PROVE Start(p, now + Lead) \in Int
    BY <1>1, FeedConstants, StartType
  <2>3. NoBar \in BarType
    BY <2>1 DEF NoBar, BarType
  <2> QED
    BY <2>1, <2>2, <2>3 DEF FeedInit, BarType
<1>3. closed \in [Period -> Seq(BarType)]
  BY <1>1
<1>4. now \in 0 .. MaxTime /\ lastMsc \in Int /\ latest \in Int /\ bid \in Int /\ ask \in Int
  BY <1>1, FeedConstants
<1>5. tape \in Seq([stamp : Nat, quote : {"good", "flat"}]) /\ Len(tape) <= MaxTape
  BY <1>1, FeedConstants
<1>6. todo \subseteq DOMAIN tape /\ DOMAIN tape = {}
  BY <1>1
<1>7. fed \in [1 .. MaxTape -> Nat]
  BY <1>1
<1>8. FeedTypeOK
  BY <1>1, <1>2, <1>3, <1>4, <1>5, <1>6, <1>7 DEF FeedTypeOK
<1>9. lastMsc <= now + Lead
  BY <1>1, FeedConstants
<1>10. \A i \in 1 .. MaxTape : ~(fed[i] > 0)
  BY <1>1
<1> QED
  BY <1>1, <1>6, <1>8, <1>9, <1>10 DEF TapeInv, TapeOrdered, PollInv, TicksOnce

LEMMA BrokerTickKeeps ==
  ASSUME TapeInv, BrokerTick
  PROVE  TapeInv'
<1> DEFINE n == Len(tape)
<1>1. /\ n < MaxTape /\ now > 0
      /\ UNCHANGED <<now, polling, lastMsc, todo, latest, bid, ask, goodSpread, bar, closed, fed>>
  BY DEF BrokerTick
<1>2. PICK q \in {"good", "flat"} : tape' = Append(tape, [stamp |-> BrokerNow, quote |-> q])
  BY DEF BrokerTick
<1>3. DOMAIN tape = 1 .. n /\ n \in Nat /\ now \in Nat /\ Lead \in Nat /\ MaxTape \in Nat
  BY TapeIndices, FeedConstants DEF TapeInv, FeedTypeOK
<1>4. BrokerNow = now + Lead /\ BrokerNow \in Nat
  BY <1>3 DEF BrokerNow
<1>5. /\ tape' \in Seq([stamp : Nat, quote : {"good", "flat"}]) /\ Len(tape') = n + 1
      /\ tape'[n + 1].stamp = now + Lead
  BY <1>2, <1>4 DEF TapeInv, FeedTypeOK
<1>6. DOMAIN tape' = 1 .. n + 1
  BY <1>5
<1>7. ASSUME NEW i \in 1 .. n PROVE tape'[i].stamp = tape[i].stamp
  BY <1>2, <1>3 DEF TapeInv, FeedTypeOK
<1> HIDE DEF n
<1>8. ASSUME NEW i \in DOMAIN tape' PROVE i = n + 1 \/ i \in DOMAIN tape
  BY <1>3, <1>6
<1>9. DOMAIN tape \subseteq DOMAIN tape' /\ DOMAIN tape' \subseteq 1 .. MaxTape
      /\ n + 1 \in 1 .. MaxTape /\ n + 1 \notin DOMAIN tape
  BY <1>1, <1>3, <1>6
<1>10. FeedTypeOK'
  <2>1. Len(tape') <= MaxTape
    BY <1>1, <1>3, <1>5
  <2>2. todo' \subseteq DOMAIN tape'
    BY <1>1, <1>9 DEF TapeInv, FeedTypeOK
  <2> QED
    BY <1>1, <1>5, <2>1, <2>2 DEF TapeInv, FeedTypeOK
<1>11. ASSUME NEW i \in DOMAIN tape
       PROVE  /\ tape[i].stamp \in Nat /\ Lead < tape[i].stamp /\ tape[i].stamp <= now + Lead
              /\ tape'[i].stamp = tape[i].stamp
  BY <1>3, <1>7, TickType DEF TapeInv, TapeOrdered
<1>12. TapeOrdered'
  <2>1. ASSUME NEW i \in DOMAIN tape'
        PROVE  Lead < tape'[i].stamp /\ tape'[i].stamp <= now + Lead
    BY <1>1, <1>3, <1>5, <1>8, <1>11
  <2>2. ASSUME NEW i \in DOMAIN tape', NEW j \in DOMAIN tape', i <= j
        PROVE  tape'[i].stamp <= tape'[j].stamp
    <3>1. CASE j = n + 1
      BY <1>5, <2>1, <3>1
    <3>2. CASE j \in DOMAIN tape
      <4>1. i \in DOMAIN tape
        BY <1>3, <1>8, <2>2, <3>2
      <4> QED
        BY <1>11, <2>2, <3>2, <4>1 DEF TapeInv, TapeOrdered
    <3> QED
      BY <1>8, <3>1, <3>2
  <2> QED
    BY <1>1, <2>1, <2>2 DEF TapeOrdered
<1>13. \A j : Through(j)' <=> Through(j)
  BY <1>1 DEF Through
<1>14. PollInv'
  <2>1. \A i \in todo : i \in DOMAIN tape
    BY DEF TapeInv, FeedTypeOK
  <2>2. lastMsc' <= now' + Lead
    BY <1>1 DEF TapeInv, PollInv
  <2>3. \A i \in todo' : fed'[i] = 0 /\ tape'[i].stamp <= lastMsc'
    BY <1>1, <1>11, <2>1 DEF TapeInv, PollInv
  <2>4. \A i \in 1 .. MaxTape : fed'[i] > 0 => i \in DOMAIN tape' /\ tape'[i].stamp <= lastMsc'
    BY <1>1, <1>9, <1>11 DEF TapeInv, PollInv
  <2>5. lastMsc' = Lead \/ \E j \in DOMAIN tape' : tape'[j].stamp = lastMsc' /\ Through(j)'
    BY <1>1, <1>9, <1>11, <1>13 DEF TapeInv, PollInv
  <2> QED
    BY <2>2, <2>3, <2>4, <2>5 DEF PollInv
<1>15. TicksOnce'
  <2> SUFFICES ASSUME NEW i \in DOMAIN tape'
               PROVE  /\ fed[i] <= 1
                      /\ tape'[i].stamp <= lastMsc /\ fed[i] = 0 =>
                           \E j \in DOMAIN tape' : tape'[j].stamp = tape'[i].stamp /\ Through(j)
    BY <1>1 DEF TicksOnce, Through
  <2>1. CASE i \in DOMAIN tape
    BY <1>9, <1>11, <2>1 DEF TapeInv, TicksOnce, Through
  <2>2. CASE i = n + 1
    <3>1. fed[i] = 0
      <4>1. fed[i] \in Nat /\ ~(fed[i] > 0)
        BY <1>9, <2>2 DEF TapeInv, FeedTypeOK, PollInv
      <4> QED
        BY <4>1
    <3>2. ASSUME tape'[i].stamp <= lastMsc
          PROVE  \E j \in DOMAIN tape' : tape'[j].stamp = tape'[i].stamp /\ Through(j)
      <4>1. lastMsc = now + Lead /\ lastMsc # Lead
        BY <1>1, <1>3, <1>5, <2>2, <3>2 DEF TapeInv, PollInv, FeedTypeOK
      <4>2. PICK j \in DOMAIN tape : tape[j].stamp = lastMsc /\ Through(j)
        BY <4>1 DEF TapeInv, PollInv
      <4> QED
        BY <1>5, <1>9, <1>11, <2>2, <4>1, <4>2
    <3> QED
      BY <3>1, <3>2
  <2> QED
    BY <1>8, <2>1, <2>2
<1> QED
  BY <1>10, <1>12, <1>14, <1>15 DEF TapeInv

LEMMA PollKeeps ==
  ASSUME TapeInv, Poll
  PROVE  TapeInv'
<1>0. PICK new : new = Newest(Unseen)
  OBVIOUS
<1>1. /\ todo = {} /\ Unseen # {} /\ todo' = Unseen /\ lastMsc' = tape[new].stamp
      /\ UNCHANGED <<now, tape, polling, latest, bid, ask, goodSpread, bar, closed, fed>>
  BY <1>0 DEF Poll
<1>2. /\ Unseen \subseteq DOMAIN tape /\ new \in Unseen
      /\ \A i \in Unseen : i <= new /\ tape[i].stamp > lastMsc
      /\ \A i \in DOMAIN tape : i <= new /\ tape[i].stamp > lastMsc => i \in Unseen
  BY <1>0, <1>1, UnseenIsPrefix DEF TapeInv
<1>3. \A i \in DOMAIN tape : tape[i].stamp \in Nat /\ i \in Nat /\ i \in 1 .. MaxTape
  BY TickType, TapeIndices DEF TapeInv
<1>4. lastMsc \in Int /\ lastMsc' \in Int /\ lastMsc < lastMsc'
  BY <1>1, <1>2, <1>3 DEF TapeInv, FeedTypeOK
<1>5. FeedTypeOK'
  BY <1>1, <1>2, <1>4 DEF TapeInv, FeedTypeOK
<1>6. TapeOrdered'
  BY <1>1 DEF TapeInv, TapeOrdered
<1>7. \A j : Through(j) => Through(j)'
  BY <1>1 DEF Through
<1>8. PollInv'
  <2>1. lastMsc' <= now' + Lead
    BY <1>1, <1>2 DEF TapeInv, TapeOrdered
  <2>2. ASSUME NEW i \in todo' PROVE fed'[i] = 0 /\ tape'[i].stamp <= lastMsc'
    <3>1. i \in DOMAIN tape /\ i <= new /\ new \in DOMAIN tape /\ tape[i].stamp > lastMsc
      BY <1>1, <1>2
    <3>2. tape[i].stamp <= tape[new].stamp
      BY <3>1 DEF TapeInv, TapeOrdered
    <3>3. ~(fed[i] > 0) /\ fed[i] \in Nat
      BY <1>3, <1>4, <3>1 DEF TapeInv, PollInv, FeedTypeOK
    <3> QED
      BY <1>1, <3>2, <3>3
  <2>3. ASSUME NEW i \in 1 .. MaxTape, fed'[i] > 0
        PROVE  i \in DOMAIN tape' /\ tape'[i].stamp <= lastMsc'
    <3>1. i \in DOMAIN tape /\ tape[i].stamp <= lastMsc
      BY <1>1, <2>3 DEF TapeInv, PollInv
    <3> QED
      BY <1>1, <1>3, <1>4, <3>1
  <2>4. tape'[new].stamp = lastMsc' /\ Through(new)' /\ new \in DOMAIN tape'
    BY <1>1, <1>2 DEF Through
  <2> QED
    BY <2>1, <2>2, <2>3, <2>4 DEF PollInv
<1>9. TicksOnce'
  <2> SUFFICES ASSUME NEW i \in DOMAIN tape
               PROVE  /\ fed[i] <= 1
                      /\ tape[i].stamp <= lastMsc' /\ fed[i] = 0 =>
                           \E j \in DOMAIN tape : tape[j].stamp = tape[i].stamp /\ Through(j)'
    BY <1>1 DEF TicksOnce, Through
  <2>1. fed[i] <= 1
    BY DEF TapeInv, TicksOnce
  <2>2. CASE tape[i].stamp <= lastMsc
    <3>1. fed[i] = 0 => \E j \in DOMAIN tape : tape[j].stamp = tape[i].stamp /\ Through(j)
      BY <2>2 DEF TapeInv, TicksOnce, Through
    <3> QED
      BY <1>7, <2>1, <3>1
  <2>3. CASE tape[i].stamp > lastMsc /\ i <= new
    <3>1. i \in todo'
      BY <1>1, <1>2, <2>3
    <3> QED
      BY <2>1, <3>1 DEF Through
  <2>4. CASE new <= i
    <3>1. tape[new].stamp <= tape[i].stamp /\ new \in DOMAIN tape /\ new \in todo'
      BY <1>1, <1>2, <2>4 DEF TapeInv, TapeOrdered
    <3>2. tape[i].stamp <= lastMsc' => tape[new].stamp = tape[i].stamp
      BY <1>1, <1>3, <3>1
    <3> QED
      BY <2>1, <3>1, <3>2 DEF Through
  <2>5. i <= new \/ new <= i
    BY <1>2, <1>3
  <2> QED
    BY <1>3, <1>4, <2>2, <2>3, <2>4, <2>5
<1> QED
  BY <1>5, <1>6, <1>8, <1>9 DEF TapeInv

LEMMA ProcessKeeps ==
  ASSUME TapeInv, Process
  PROVE  TapeInv'
<1> DEFINE e == Earliest(todo)
           b == Market
           a == IF tape[e].quote = "good" THEN Market + InfoSpread ELSE Market
<1>1. todo # {}
  BY DEF Process
<1>2. /\ Quoted([bid |-> b, ask |-> a]) /\ latest' = tape[e].stamp + Lead
      /\ FeedBars(tape[e].stamp)
      /\ fed' = [fed EXCEPT ![e] = @ + 1] /\ todo' = todo \ {e}
      /\ UNCHANGED <<now, tape, polling, lastMsc>>
  BY DEF Process
<1>3. e \in todo /\ todo \subseteq DOMAIN tape /\ DOMAIN tape \subseteq 1 .. MaxTape
  <2>1. todo \subseteq DOMAIN tape /\ DOMAIN tape \subseteq 1 .. MaxTape /\ todo \subseteq Nat
    BY TapeIndices DEF TapeInv, FeedTypeOK
  <2> QED
    BY <1>1, <2>1, EarliestIn
<1> HIDE DEF e
<1>4. tape[e].stamp \in Nat
  BY <1>3, TickType DEF TapeInv
<1>5. a \in Int /\ b \in Int /\ Lead \in Nat
  BY FeedConstants
<1>6. /\ bid' \in Int /\ ask' \in Int /\ goodSpread' \in Nat
  <2> HIDE DEF a, b
  <2> QED
    BY <1>2, <1>5, QuotedType DEF TapeInv, FeedTypeOK
<1>7. bar' \in [Period -> BarType] /\ closed' \in [Period -> Seq(BarType)]
  BY <1>2, <1>4, FeedBarsType DEF TapeInv, FeedTypeOK
<1>8. /\ fed' \in [1 .. MaxTape -> Nat] /\ fed'[e] = 1
      /\ \A i \in 1 .. MaxTape : i # e => fed'[i] = fed[i]
  BY <1>2, <1>3 DEF TapeInv, FeedTypeOK, PollInv
<1>9. FeedTypeOK'
  <2>1. latest' \in Int /\ todo' \subseteq DOMAIN tape'
    BY <1>2, <1>3, <1>4, <1>5
  <2> QED
    BY <1>2, <1>6, <1>7, <1>8, <2>1 DEF TapeInv, FeedTypeOK
<1>10. TapeOrdered'
  BY <1>2 DEF TapeInv, TapeOrdered
<1>11. ASSUME NEW j \in DOMAIN tape, Through(j) PROVE Through(j)'
  <2>1. CASE j = e
    BY <1>8, <2>1 DEF Through
  <2>2. CASE j # e
    <3>1. fed'[j] = fed[j] /\ (j \in todo => j \in todo')
      BY <1>2, <1>3, <1>8, <2>2
    <3> QED
      BY <1>11, <3>1 DEF Through
  <2> QED
    BY <2>1, <2>2
<1>12. PollInv'
  <2>1. lastMsc' <= now' + Lead
    BY <1>2 DEF TapeInv, PollInv
  <2>2. ASSUME NEW i \in todo' PROVE fed'[i] = 0 /\ tape'[i].stamp <= lastMsc'
    BY <1>2, <1>3, <1>8 DEF TapeInv, PollInv
  <2>3. ASSUME NEW i \in 1 .. MaxTape, fed'[i] > 0
        PROVE  i \in DOMAIN tape' /\ tape'[i].stamp <= lastMsc'
    BY <1>2, <1>3, <1>8, <2>3 DEF TapeInv, PollInv
  <2>4. lastMsc' = Lead \/ \E j \in DOMAIN tape' : tape'[j].stamp = lastMsc' /\ Through(j)'
    BY <1>2, <1>11 DEF TapeInv, PollInv
  <2> QED
    BY <2>1, <2>2, <2>3, <2>4 DEF PollInv
<1>13. TicksOnce'
  <2> SUFFICES ASSUME NEW i \in DOMAIN tape
               PROVE  /\ fed'[i] <= 1
                      /\ tape[i].stamp <= lastMsc /\ fed'[i] = 0 =>
                           \E j \in DOMAIN tape : tape[j].stamp = tape[i].stamp /\ Through(j)'
    BY <1>2 DEF TicksOnce, Through
  <2>1. CASE i = e
    BY <1>8, <2>1
  <2>2. CASE i # e
    <3>1. fed'[i] = fed[i]
      BY <1>3, <1>8, <2>2
    <3>2. /\ fed[i] <= 1
          /\ tape[i].stamp <= lastMsc /\ fed[i] = 0 =>
               \E j \in DOMAIN tape : tape[j].stamp = tape[i].stamp /\ Through(j)
      BY DEF TapeInv, TicksOnce, Through
    <3> QED
      BY <1>11, <3>1, <3>2
  <2> QED
    BY <2>1, <2>2
<1> QED
  BY <1>9, <1>10, <1>12, <1>13 DEF TapeInv

LEMMA MockKeeps ==
  ASSUME TapeInv, Mock
  PROVE  TapeInv'
<1>1. /\ Quoted(Around((bid + ask) \div 2)) /\ latest' = now + Lead /\ FeedBars(now)
      /\ UNCHANGED <<now, tape, polling, lastMsc, todo, fed>>
  BY DEF Mock, MockTime
<1>2. now \in Nat /\ Lead \in Nat /\ bid \in Int /\ ask \in Int /\ goodSpread \in Nat
  BY FeedConstants DEF TapeInv, FeedTypeOK
<1>3. (bid + ask) \div 2 \in Int
  BY <1>2
<1>4. PICK b \in Int, a \in Int : Around((bid + ask) \div 2) = [bid |-> b, ask |-> a]
  BY <1>2, <1>3, AroundType
<1>5. bid' \in Int /\ ask' \in Int /\ goodSpread' \in Nat
  BY <1>1, <1>2, <1>4, QuotedType
<1>6. bar' \in [Period -> BarType] /\ closed' \in [Period -> Seq(BarType)]
  BY <1>1, <1>2, FeedBarsType DEF TapeInv, FeedTypeOK
<1>7. FeedTypeOK'
  BY <1>1, <1>2, <1>5, <1>6 DEF TapeInv, FeedTypeOK
<1> QED
  BY <1>1, <1>7 DEF TapeInv, TapeOrdered, PollInv, TicksOnce, Through

LEMMA TapeStep ==
  ASSUME TapeInv, [FeedNext]_feedVars
  PROVE  TapeInv'
<1>1. CASE UNCHANGED feedVars
  BY <1>1 DEF feedVars, TapeInv, FeedTypeOK, TapeOrdered, PollInv, TicksOnce, Through
<1>2. CASE FeedStop
  BY <1>2 DEF FeedStop, TapeInv, FeedTypeOK, TapeOrdered, PollInv, TicksOnce, Through
<1>3. CASE FeedClock
  <2>1. now' \in 0 .. MaxTime /\ now' = now + 1
    BY <1>3, FeedConstants DEF FeedClock, TapeInv, FeedTypeOK
  <2>2. UNCHANGED <<tape, polling, lastMsc, todo, latest, bid, ask, goodSpread, bar, closed, fed>>
    BY <1>3 DEF FeedClock
  <2>3. FeedTypeOK'
    BY <2>1, <2>2 DEF TapeInv, FeedTypeOK
  <2>4. \A x \in Int : x <= now + Lead => x <= now' + Lead
    BY <2>1, FeedConstants DEF TapeInv, FeedTypeOK
  <2>5. \A i \in DOMAIN tape : tape[i].stamp \in Int
    BY TickType DEF TapeInv
  <2>6. TapeOrdered'
    BY <2>2, <2>4, <2>5 DEF TapeInv, TapeOrdered
  <2>7. PollInv' /\ TicksOnce'
    BY <2>2, <2>4 DEF TapeInv, FeedTypeOK, PollInv, TicksOnce, Through
  <2> QED
    BY <2>3, <2>6, <2>7 DEF TapeInv
<1> QED
  BY <1>1, <1>2, <1>3, BrokerTickKeeps, PollKeeps, ProcessKeeps, MockKeeps DEF FeedNext

(* The feed's variables keep their types, for any timeframes, batch and    *)
(* opening hours: what is still to be processed lies on the tape, a bar's  *)
(* count stays within its cycle, and no spread is negative.                *)
THEOREM FeedTypeCorrect == FeedSpec => []FeedTypeOK
<1>1. TapeInv => FeedTypeOK
  BY DEF TapeInv
<1> QED
  BY <1>1, FeedInitHolds, TapeStep, PTL DEF FeedSpec

-----------------------------------------------------------------------------
(* The some that a series of bars has counted.                            *)
Vol == 0 .. VolCycle - 1

CountsUp(f, v, done) ==
  \A n \in 0 .. Len(done) : f[n] = IF n = 0 THEN v ELSE (done[n].vol + f[n - 1]) % VolCycle

CountedBars(f, v, done) ==
  f = [n \in 0 .. Len(done) |-> IF n = 0 THEN v ELSE (done[n].vol + f[n - 1]) % VolCycle]

Total(v, done) == (CHOOSE f : CountedBars(f, v, done))[Len(done)]

LEMMA VolType ==
  ASSUME NEW done \in Seq(BarType), NEW n \in 1 .. Len(done)
  PROVE  done[n].vol \in Vol
<1>1. done[n] \in BarType
  OBVIOUS
<1> QED
  BY <1>1 DEF BarType, Vol

LEMMA SumInVol ==
  ASSUME NEW x \in Vol, NEW y \in Vol
  PROVE  (x + y) % VolCycle \in Vol
<1>1. VolCycle \in Nat \ {0}
  BY FeedConstants
<1>2. x + y \in Int
  BY <1>1 DEF Vol
<1> QED
  BY <1>1, <1>2, DivMod DEF Vol

LEMMA TotalCounts ==
  ASSUME NEW v \in Vol, NEW done \in Seq(BarType)
  PROVE  \E f : CountsUp(f, v, done) /\ Total(v, done) = f[Len(done)]
<1> DEFINE n == Len(done)
           F == [i \in 1 .. n |-> [y \in Vol |-> (done[i].vol + y) % VolCycle]]
<1>1. n \in Nat
  OBVIOUS
<1>2. F \in [1 .. n -> [Vol -> Vol]]
  <2>1. ASSUME NEW i \in 1 .. n, NEW y \in Vol PROVE (done[i].vol + y) % VolCycle \in Vol
    BY VolType, SumInVol
  <2> HIDE DEF n
  <2> QED
    BY <2>1
<1>3. PICK f \in [0 .. n -> Vol] : Iterates(f, n, v, F)
  <2> HIDE DEF n, F
  <2> QED
    BY <1>1, <1>2, Recursion
<1>4. CountedBars(f, v, done)
  <2>1. ASSUME NEW i \in 0 .. n
        PROVE  f[i] = IF i = 0 THEN v ELSE (done[i].vol + f[i - 1]) % VolCycle
    <3>1. f[i] = IF i = 0 THEN v ELSE F[i][f[i - 1]]
      BY <1>3 DEF Iterates
    <3>2. CASE i # 0
      <4>1. i \in 1 .. n /\ f[i - 1] \in Vol
        BY <1>1, <3>2
      <4> HIDE DEF n
      <4> QED
        BY <3>1, <3>2, <4>1
    <3> QED
      BY <3>1, <3>2
  <2> HIDE DEF F
  <2> QED
    BY <2>1 DEF CountedBars
<1> DEFINE chosen == CHOOSE g : CountedBars(g, v, done)
<1>5. CountedBars(chosen, v, done)
  BY <1>4
<1>6. Total(v, done) = chosen[n]
  BY DEF Total
<1> HIDE DEF chosen
<1>7. CountsUp(chosen, v, done)
  BY <1>5 DEF CountedBars, CountsUp
<1> QED
  BY <1>6, <1>7

LEMMA CountsInVol ==
  ASSUME NEW v \in Vol, NEW done \in Seq(BarType), NEW f, CountsUp(f, v, done)
  PROVE  \A n \in 0 .. Len(done) : f[n] \in Vol
<1> DEFINE S == {k \in Nat : k <= Len(done) => f[k] \in Vol}
<1>1. Len(done) \in Nat
  OBVIOUS
<1>2. 0 \in S
  <2>1. 0 \in 0 .. Len(done)
    BY <1>1
  <2>2. f[0] = v
    BY <2>1 DEF CountsUp
  <2> QED
    BY <2>2
<1>3. ASSUME NEW k \in Nat, k \in S PROVE k + 1 \in S
  <2> SUFFICES ASSUME k + 1 <= Len(done) PROVE f[k + 1] \in Vol
    OBVIOUS
  <2>1. k + 1 \in 0 .. Len(done) /\ k + 1 \in 1 .. Len(done) /\ k + 1 # 0 /\ (k + 1) - 1 = k
    BY <1>1
  <2>2. f[k + 1] = (done[k + 1].vol + f[k]) % VolCycle
    BY <2>1 DEF CountsUp
  <2>3. f[k] \in Vol
    BY <1>1, <1>3
  <2> QED
    BY <2>1, <2>2, <2>3, VolType, SumInVol
<1>4. \A k \in Nat : k \in S
  <2> HIDE DEF S
  <2> QED
    BY <1>2, <1>3, ReachesAll
<1> QED
  BY <1>1, <1>4

(* Adding one before or after taking the remainder.                        *)
LEMMA OneMore ==
  ASSUME NEW x \in Vol, NEW y \in Vol, NEW z \in Vol, z = (y + 1) % VolCycle
  PROVE  (x + z) % VolCycle = (((x + y) % VolCycle) + 1) % VolCycle
<1>1. VolCycle \in Nat \ {0} /\ x \in Int /\ y \in Int /\ y + 1 \in Int /\ x + y \in Int
  BY FeedConstants DEF Vol
<1>2. (x + z) % VolCycle = (x + (y + 1)) % VolCycle
  BY <1>1, ModAdd
<1>3. (1 + ((x + y) % VolCycle)) % VolCycle = (1 + (x + y)) % VolCycle
  <2>1. ASSUME NEW i \in Int, NEW j \in Int
        PROVE  (i + (j % VolCycle)) % VolCycle = (i + j) % VolCycle
    BY <1>1, ModAdd
  <2>2. 1 \in Int
    OBVIOUS
  <2> QED
    BY <1>1, <2>1, <2>2
<1> DEFINE m == (x + y) % VolCycle
<1>4. m \in Int
  BY <1>1, DivMod
<1> HIDE DEF m
<1>5. 1 + m = m + 1 /\ x + (y + 1) = 1 + (x + y)
  BY <1>1, <1>4
<1> QED
  BY <1>2, <1>3, <1>5 DEF m

(* A tick in the running bar is one more.                                  *)
LEMMA RunningCounts ==
  ASSUME NEW v \in Vol, NEW done \in Seq(BarType)
  PROVE  Total((v + 1) % VolCycle, done) = (Total(v, done) + 1) % VolCycle
<1> DEFINE w == (v + 1) % VolCycle
<1>1. w \in Vol
  <2>1. v \in Int
    BY FeedConstants DEF Vol
  <2> QED
    BY <2>1, OneMoreVolume DEF Vol
<1>2. PICK f : CountsUp(f, v, done) /\ Total(v, done) = f[Len(done)]
  BY TotalCounts
<1>3. PICK g : CountsUp(g, w, done) /\ Total(w, done) = g[Len(done)]
  BY <1>1, TotalCounts
<1> DEFINE S == {k \in Nat : k <= Len(done) => g[k] = (f[k] + 1) % VolCycle}
<1>4. Len(done) \in Nat
  OBVIOUS
<1>5. 0 \in S
  <2>1. 0 \in 0 .. Len(done)
    BY <1>4
  <2>2. f[0] = v /\ g[0] = w
    BY <1>2, <1>3, <2>1 DEF CountsUp
  <2> QED
    BY <2>2
<1> HIDE DEF w
<1>6. ASSUME NEW k \in Nat, k \in S PROVE k + 1 \in S
  <2> SUFFICES ASSUME k + 1 <= Len(done) PROVE g[k + 1] = (f[k + 1] + 1) % VolCycle
    OBVIOUS
  <2>1. k + 1 \in 0 .. Len(done) /\ k + 1 \in 1 .. Len(done) /\ k + 1 # 0 /\ (k + 1) - 1 = k
        /\ k \in 0 .. Len(done)
    BY <1>4
  <2>2. f[k + 1] = (done[k + 1].vol + f[k]) % VolCycle
    BY <1>2, <2>1 DEF CountsUp
  <2>3. g[k + 1] = (done[k + 1].vol + g[k]) % VolCycle
    BY <1>3, <2>1 DEF CountsUp
  <2>4. g[k] = (f[k] + 1) % VolCycle
    BY <1>4, <1>6
  <2>5. f[k] \in Vol /\ g[k] \in Vol /\ done[k + 1].vol \in Vol
    BY <1>1, <1>2, <1>3, <2>1, CountsInVol, VolType
  <2> QED
    BY <2>2, <2>3, <2>4, <2>5, OneMore
<1>7. \A k \in Nat : k \in S
  <2> HIDE DEF S
  <2> QED
    BY <1>5, <1>6, ReachesAll
<1>8. g[Len(done)] = (f[Len(done)] + 1) % VolCycle
  BY <1>4, <1>7
<1> QED
  BY <1>2, <1>3, <1>8 DEF w

(* A bar that is closed and a new one with one tick are one more, too.     *)
LEMMA ClosingCounts ==
  ASSUME NEW done \in Seq(BarType), NEW last \in BarType
  PROVE  Total(1, Append(done, last)) = (Total(last.vol, done) + 1) % VolCycle
<1> DEFINE v == last.vol
           more == Append(done, last)
           n == Len(done)
<1>1. v \in Vol /\ 1 \in Vol
  BY FeedConstants DEF BarType, Vol
<1>2. /\ more \in Seq(BarType) /\ Len(more) = n + 1 /\ n \in Nat
      /\ more[n + 1] = last /\ \A i \in 1 .. n : more[i] = done[i]
  OBVIOUS
<1> HIDE DEF v, more, n
<1>3. PICK f : CountsUp(f, v, done) /\ Total(v, done) = f[n]
  BY <1>1, TotalCounts DEF n
<1>4. PICK g : CountsUp(g, 1, more) /\ Total(1, more) = g[n + 1]
  BY <1>1, <1>2, TotalCounts
<1>5. \A k \in 0 .. n : f[k] \in Vol
  BY <1>1, <1>3, CountsInVol DEF n
<1>6. \A k \in 0 .. n + 1 : g[k] \in Vol
  BY <1>1, <1>2, <1>4, CountsInVol
<1> DEFINE S == {k \in Nat : k <= n => (v + g[k]) % VolCycle = (f[k] + 1) % VolCycle}
<1>7. 0 \in S
  <2>1. 0 \in 0 .. n /\ 0 \in 0 .. n + 1
    BY <1>2
  <2>2. f[0] = v
    BY <1>3, <2>1 DEF CountsUp, n
  <2>3. g[0] = 1
    BY <1>2, <1>4, <2>1 DEF CountsUp
  <2> QED
    BY <2>2, <2>3
<1>8. ASSUME NEW k \in Nat, k \in S PROVE k + 1 \in S
  <2> SUFFICES ASSUME k + 1 <= n PROVE (v + g[k + 1]) % VolCycle = (f[k + 1] + 1) % VolCycle
    OBVIOUS
  <2>1. /\ k + 1 \in 0 .. n /\ k + 1 \in 0 .. n + 1 /\ k + 1 \in 1 .. n
        /\ k \in 0 .. n /\ k \in 0 .. n + 1 /\ k + 1 # 0 /\ (k + 1) - 1 = k
    BY <1>2
  <2> DEFINE h == done[k + 1].vol
             x == f[k]
             y == g[k]
  <2>2. f[k + 1] = (h + x) % VolCycle
    BY <1>3, <2>1 DEF CountsUp, n
  <2>3. g[k + 1] = (h + y) % VolCycle
    BY <1>2, <1>4, <2>1 DEF CountsUp
  <2>4. (v + y) % VolCycle = (x + 1) % VolCycle
    BY <1>2, <1>8
  <2>5. h \in Vol /\ x \in Vol /\ y \in Vol
    BY <1>5, <1>6, <2>1, VolType DEF n
  <2> HIDE DEF h, x, y
  <2>6. VolCycle \in Nat \ {0} /\ h \in Int /\ x \in Int /\ y \in Int /\ v \in Int
    BY <1>1, <2>5, FeedConstants DEF Vol
  <2>7. (v + ((h + y) % VolCycle)) % VolCycle = (v + (h + y)) % VolCycle
    <3>1. h + y \in Int
      BY <2>6
    <3> QED
      BY <2>6, <3>1, ModAdd
  <2>8. (h + ((v + y) % VolCycle)) % VolCycle = (h + (v + y)) % VolCycle
    <3>1. v + y \in Int
      BY <2>6
    <3> QED
      BY <2>6, <3>1, ModAdd
  <2>9. v + (h + y) = h + (v + y)
    BY <2>6
  <2>10. (v + ((h + y) % VolCycle)) % VolCycle = (h + ((x + 1) % VolCycle)) % VolCycle
    BY <2>4, <2>7, <2>8, <2>9
  <2>11. (x + 1) % VolCycle \in Vol
    BY <2>6, OneMoreVolume DEF Vol
  <2>12. (h + ((x + 1) % VolCycle)) % VolCycle = (((h + x) % VolCycle) + 1) % VolCycle
    BY <2>5, <2>11, OneMore
  <2> QED
    BY <2>2, <2>3, <2>10, <2>12
<1>9. n \in S
  <2> HIDE DEF S
  <2> QED
    BY <1>2, <1>7, <1>8, ReachesAll
<1>10. (v + g[n]) % VolCycle = (f[n] + 1) % VolCycle
  BY <1>2, <1>9
<1>11. g[n + 1] = (v + g[n]) % VolCycle
  <2>1. n + 1 \in 0 .. n + 1 /\ n + 1 # 0 /\ (n + 1) - 1 = n
    BY <1>2
  <2>2. more[n + 1].vol = v
    BY <1>2 DEF v
  <2> QED
    BY <1>2, <1>4, <2>1, <2>2 DEF CountsUp
<1> QED
  BY <1>3, <1>4, <1>10, <1>11 DEF v, more

-----------------------------------------------------------------------------
(* A tick moves all bars on by the one clock: there is a time such that    *)
(* every running bar began at the last start of its period before it.      *)
OneClock ==
  \/ \A p \in Period : bar[p] = NoBar /\ closed[p] = <<>>
  \/ \E m \in Nat : \A p \in Period : bar[p].open = Start(p, m)

BarsRise ==
  \A p \in Period : \A i \in DOMAIN closed[p] :
    closed[p][i].open < (IF i = Len(closed[p]) THEN bar[p].open ELSE closed[p][i + 1].open)

SameTicks == \A p \in Period : \A q \in Period : Ticks(p) = Ticks(q)

StoryInv == OneClock /\ BarsRise /\ SameTicks

LEMMA MultipleBelow ==
  ASSUME NEW m \in Nat \ {0}, NEW k \in Int, NEW l \in Int, m * k < m * l + m
  PROVE  m * k <= m * l
<1>1. ASSUME k > l PROVE FALSE
  <2>1. m * (k - l) >= m
    BY <1>1
  <2>2. m * (k - l) = m * k - m * l
    OBVIOUS
  <2>3. m * k \in Int /\ m * l \in Int
    OBVIOUS
  <2> QED
    BY <2>1, <2>2, <2>3
<1>2. m * (l - k) >= 0
  BY <1>1
<1>3. m * (l - k) = m * l - m * k /\ m * k \in Int /\ m * l \in Int
  OBVIOUS
<1> QED
  BY <1>2, <1>3

LEMMA StartsRise ==
  ASSUME NEW p \in Period, NEW s \in Int, NEW t \in Int, s <= t
  PROVE  Start(p, s) <= Start(p, t)
<1>1. PICK a \in Int : Start(p, s) = a * p
  BY StartType
<1>2. PICK b \in Int : Start(p, t) = b * p
  BY StartType
<1>3. Start(p, s) <= s /\ t < Start(p, t) + p /\ p \in Nat \ {0}
  BY StartType, FeedConstants
<1>4. p * a < p * b + p
  BY <1>1, <1>2, <1>3
<1>5. p * a <= p * b
  BY <1>3, <1>4, MultipleBelow
<1> QED
  BY <1>1, <1>2, <1>3, <1>5

(* The bar that a time falls into opened inside the longer bar.            *)
LEMMA StartsNest ==
  ASSUME NEW p \in Period, NEW q \in Period, q % p = 0, NEW m \in Int
  PROVE  Start(p, m) \in Start(q, m) .. Start(q, m) + q - 1
<1>1. PICK a \in Int : Start(p, m) = a * p
  BY StartType
<1>2. PICK b \in Int : Start(q, m) = b * q
  BY StartType
<1>3. p \in Nat \ {0} /\ q \in Nat \ {0}
  BY FeedConstants
<1>4. PICK c \in Int : q = p * c
  <2>1. q \div p \in Int /\ q = p * (q \div p) + (q % p)
    BY <1>3, DivMod
  <2> DEFINE d == q \div p
  <2>2. d \in Int /\ q = p * d + 0
    BY <2>1
  <2> HIDE DEF d
  <2>3. q = p * d
    BY <1>3, <2>2
  <2> QED
    BY <2>2, <2>3
<1>5. /\ Start(p, m) \in Int /\ Start(p, m) <= m /\ m < Start(p, m) + p
      /\ Start(q, m) \in Int /\ Start(q, m) <= m /\ m < Start(q, m) + q
  BY StartType
<1>6. Start(q, m) = p * (b * c) /\ b * c \in Int
  BY <1>2, <1>3, <1>4
<1>7. p * (b * c) < p * a + p
  BY <1>1, <1>3, <1>5, <1>6
<1>8. p * (b * c) <= p * a
  BY <1>3, <1>6, <1>7, MultipleBelow
<1>9. Start(q, m) <= Start(p, m)
  BY <1>1, <1>3, <1>6, <1>8
<1> QED
  BY <1>3, <1>5, <1>9

LEMMA TicksAreTotal == \A p : Ticks(p) = Total(bar[p].vol, closed[p])
BY DEF Ticks, Total, CountedBars

(* A tick in a period without a bar, in the running bar, and in a new one. *)
LEMMA TickCases ==
  ASSUME FeedTypeOK, NEW s \in Nat, FeedBars(s), NEW p \in Period
  PROVE  /\ bar[p] = NoBar =>
              bar'[p].open = Start(p, s) /\ bar'[p].vol = 1 /\ closed'[p] = closed[p]
         /\ bar[p] # NoBar /\ Start(p, s) > bar[p].open =>
              /\ bar'[p].open = Start(p, s) /\ bar'[p].vol = 1
              /\ closed'[p] = Append(closed[p], bar[p])
         /\ bar[p] # NoBar /\ ~(Start(p, s) > bar[p].open) =>
              /\ bar'[p].open = bar[p].open
              /\ bar'[p].vol = (bar[p].vol + 1) % VolCycle
              /\ closed'[p] = closed[p]
<1>1. /\ bar'[p] = Folds(p, s)
      /\ closed'[p] = IF Closes(p, s) THEN Append(closed[p], bar[p]) ELSE closed[p]
  BY DEF FeedBars, FeedTypeOK
<1>2. bar[p] \in BarType
  BY DEF FeedTypeOK
<1>3. bar[p].open \in Int /\ Start(p, s) \in Int
  BY <1>2, StartType DEF BarType
<1>4. CASE bar[p] = NoBar
  BY <1>1, <1>4 DEF Folds, Closes
<1>5. CASE bar[p] # NoBar /\ Start(p, s) > bar[p].open
  <2>1. Folds(p, s) = [open |-> Start(p, s), vol |-> 1]
    BY <1>5 DEF Folds
  <2>2. Folds(p, s).open = Start(p, s) /\ Folds(p, s).vol = 1
    BY <2>1
  <2>3. Closes(p, s)
    BY <1>3, <1>5, <2>2 DEF Closes
  <2> QED
    BY <1>1, <1>5, <2>2, <2>3
<1>6. CASE bar[p] # NoBar /\ ~(Start(p, s) > bar[p].open)
  <2>1. Folds(p, s) = [bar[p] EXCEPT !.vol = (@ + 1) % VolCycle]
    BY <1>6 DEF Folds
  <2>2. /\ Folds(p, s).open = bar[p].open
        /\ Folds(p, s).vol = (bar[p].vol + 1) % VolCycle
    BY <1>2, <2>1 DEF BarType
  <2> QED
    BY <1>1, <1>6, <2>2 DEF Closes
<1> QED
  BY <1>4, <1>5, <1>6

(* Every bar counts every tick.                                            *)
LEMMA TickIsCounted ==
  ASSUME FeedTypeOK, NEW s \in Nat, FeedBars(s), NEW p \in Period, bar[p] # NoBar
  PROVE  Ticks(p)' = (Ticks(p) + 1) % VolCycle
<1>1. Ticks(p)' = Total(bar'[p].vol, closed'[p]) /\ Ticks(p) = Total(bar[p].vol, closed[p])
  BY TicksAreTotal DEF Ticks, Total, CountedBars
<1>2. bar[p] \in BarType /\ bar[p].vol \in Vol /\ closed[p] \in Seq(BarType)
  BY DEF FeedTypeOK, BarType, Vol
<1>3. CASE Start(p, s) > bar[p].open
  <2>1. bar'[p].vol = 1 /\ closed'[p] = Append(closed[p], bar[p])
    BY <1>3, TickCases
  <2> QED
    BY <1>1, <1>2, <2>1, ClosingCounts
<1>4. CASE ~(Start(p, s) > bar[p].open)
  <2>1. bar'[p].vol = (bar[p].vol + 1) % VolCycle /\ closed'[p] = closed[p]
    BY <1>4, TickCases
  <2> QED
    BY <1>1, <1>2, <2>1, RunningCounts
<1> QED
  BY <1>3, <1>4

LEMMA FirstTick ==
  ASSUME FeedTypeOK, NEW s \in Nat, FeedBars(s),
         \A p \in Period : bar[p] = NoBar /\ closed[p] = <<>>
  PROVE  StoryInv'
<1>1. ASSUME NEW p \in Period
      PROVE  bar'[p].open = Start(p, s) /\ bar'[p].vol = 1 /\ closed'[p] = <<>>
  BY <1>1, TickCases
<1>2. OneClock'
  <2>1. \A p \in Period : bar'[p].open = Start(p, s)
    BY <1>1
  <2> QED
    BY <2>1 DEF OneClock
<1>3. BarsRise'
  <2>1. DOMAIN (<<>>) = {}
    OBVIOUS
  <2> QED
    BY <1>1, <2>1 DEF BarsRise
<1>4. SameTicks'
  <2>1. ASSUME NEW p \in Period PROVE Ticks(p)' = Total(1, <<>>)
    <3>1. Ticks(p)' = Total(bar'[p].vol, closed'[p])
      BY TicksAreTotal DEF Ticks, Total, CountedBars
    <3> QED
      BY <1>1, <3>1
  <2> QED
    BY <2>1 DEF SameTicks
<1> QED
  BY <1>2, <1>3, <1>4 DEF StoryInv

LEMMA LaterTick ==
  ASSUME FeedTypeOK, StoryInv, NEW s \in Nat, FeedBars(s),
         NEW m \in Nat, \A p \in Period : bar[p].open = Start(p, m)
  PROVE  StoryInv'
<1>1. ASSUME NEW p \in Period
      PROVE  /\ bar[p] # NoBar /\ bar[p].open = Start(p, m) /\ bar[p] \in BarType
             /\ Start(p, m) \in Int /\ Start(p, s) \in Int
  <2>1. Start(p, m) \in Int /\ Start(p, m) >= 0 /\ Start(p, s) \in Int
    BY StartType
  <2> QED
    BY <2>1 DEF NoBar, FeedTypeOK
<1>2. OneClock'
  <2>1. CASE s > m
    <3>1. ASSUME NEW p \in Period PROVE bar'[p].open = Start(p, s)
      <4>1. Start(p, m) <= Start(p, s)
        BY <2>1, StartsRise
      <4>2. CASE Start(p, s) > bar[p].open
        BY <1>1, <4>2, TickCases
      <4>3. CASE ~(Start(p, s) > bar[p].open)
        <5>1. Start(p, s) = Start(p, m)
          BY <1>1, <4>1, <4>3
        <5> QED
          BY <1>1, <4>3, <5>1, TickCases
      <4> QED
        BY <4>2, <4>3
    <3> QED
      BY <3>1 DEF OneClock
  <2>2. CASE s <= m
    <3>1. ASSUME NEW p \in Period PROVE bar'[p].open = Start(p, m)
      <4>1. Start(p, s) <= Start(p, m)
        BY <2>2, StartsRise
      <4>2. ~(Start(p, s) > bar[p].open)
        BY <1>1, <4>1
      <4> QED
        BY <1>1, <4>2, TickCases
    <3> QED
      BY <3>1 DEF OneClock
  <2> QED
    BY <2>1, <2>2
<1>3. BarsRise'
  <2> SUFFICES ASSUME NEW p \in Period, NEW i \in DOMAIN closed'[p]
               PROVE  closed'[p][i].open < (IF i = Len(closed'[p]) THEN bar'[p].open
                                                                ELSE closed'[p][i + 1].open)
    BY DEF BarsRise
  <2> DEFINE old == closed[p]
             n == Len(old)
  <2>1. old \in Seq(BarType) /\ n \in Nat /\ DOMAIN old = 1 .. n
    BY DEF FeedTypeOK
  <2>2. \A k \in DOMAIN old : old[k].open < (IF k = n THEN bar[p].open ELSE old[k + 1].open)
    BY DEF StoryInv, BarsRise
  <2> HIDE DEF old, n
  <2>3. CASE Start(p, s) > bar[p].open
    <3>1. bar'[p].open = Start(p, s) /\ closed'[p] = Append(old, bar[p])
      BY <1>1, <2>3, TickCases DEF old
    <3>2. /\ Len(closed'[p]) = n + 1 /\ DOMAIN closed'[p] = 1 .. n + 1
          /\ closed'[p][n + 1] = bar[p] /\ \A k \in 1 .. n : closed'[p][k] = old[k]
      BY <1>1, <2>1, <3>1 DEF n
    <3>3. CASE i = n + 1
      BY <1>1, <2>3, <3>1, <3>2, <3>3
    <3>4. CASE i \in 1 .. n
      <4>1. i # n + 1 /\ (i = n \/ i + 1 \in 1 .. n)
        BY <2>1, <3>4
      <4>2. closed'[p][i].open = old[i].open
        BY <3>2, <3>4
      <4>3. closed'[p][i + 1].open = IF i = n THEN bar[p].open ELSE old[i + 1].open
        BY <3>2, <4>1
      <4> QED
        BY <2>1, <2>2, <3>2, <3>4, <4>1, <4>2, <4>3
    <3> QED
      BY <2>1, <3>2, <3>3, <3>4
  <2>4. CASE ~(Start(p, s) > bar[p].open)
    <3>1. bar'[p].open = bar[p].open /\ closed'[p] = old
      BY <1>1, <2>4, TickCases DEF old
    <3> QED
      BY <2>2, <3>1 DEF n
  <2> QED
    BY <2>3, <2>4
<1>4. SameTicks'
  <2>1. ASSUME NEW p \in Period PROVE Ticks(p)' = (Ticks(p) + 1) % VolCycle
    BY <1>1, TickIsCounted
  <2>2. ASSUME NEW p \in Period, NEW q \in Period PROVE Ticks(p)' = Ticks(q)'
    <3>1. Ticks(p) = Ticks(q)
      BY DEF StoryInv, SameTicks
    <3> QED
      BY <2>1, <3>1
  <2> QED
    BY <2>2 DEF SameTicks
<1> QED
  BY <1>2, <1>3, <1>4 DEF StoryInv

LEMMA StoryStep ==
  ASSUME FeedTypeOK, TapeOrdered, StoryInv, [FeedNext]_feedVars
  PROVE  StoryInv'
<1>1. ASSUME UNCHANGED <<bar, closed>> PROVE StoryInv'
  <2>1. OneClock' /\ BarsRise'
    BY <1>1 DEF StoryInv, OneClock, BarsRise
  <2>2. \A p : Ticks(p)' = Ticks(p)
    BY <1>1 DEF Ticks
  <2>3. SameTicks'
    BY <2>2 DEF StoryInv, SameTicks
  <2> QED
    BY <2>1, <2>3 DEF StoryInv
<1>2. ASSUME NEW s \in Nat, FeedBars(s) PROVE StoryInv'
  BY <1>2, FirstTick, LaterTick DEF StoryInv, OneClock
<1>3. CASE Process
  <2>1. todo # {} /\ todo \subseteq DOMAIN tape /\ todo \subseteq Nat
    BY <1>3, TapeIndices DEF Process, FeedTypeOK
  <2>2. Earliest(todo) \in DOMAIN tape
    BY <2>1, EarliestIn
  <2>3. FeedBars(tape[Earliest(todo)].stamp) /\ tape[Earliest(todo)].stamp \in Nat
    BY <1>3, <2>2, TickType DEF Process
  <2> QED
    BY <1>2, <2>3
<1>4. CASE Mock
  <2>1. FeedBars(now) /\ now \in Nat
    BY <1>4, FeedConstants DEF Mock, FeedTypeOK
  <2> QED
    BY <1>2, <2>1
<1>5. CASE UNCHANGED feedVars \/ BrokerTick \/ FeedClock \/ Poll \/ FeedStop
  BY <1>1, <1>5 DEF feedVars, BrokerTick, FeedClock, Poll, FeedStop
<1> QED
  BY <1>3, <1>4, <1>5 DEF FeedNext

LEMMA StoryBegins == FeedInit => StoryInv
<1> SUFFICES ASSUME FeedInit PROVE StoryInv
  OBVIOUS
<1>1. now + Lead \in Nat /\ \A p \in Period : closed[p] = <<>>
  BY FeedConstants DEF FeedInit, Constructed
<1>2. CASE bar = [p \in Period |-> NoBar]
  <2>1. OneClock
    BY <1>1, <1>2 DEF OneClock
  <2>2. \A p \in Period : Ticks(p) = Total(NoBar.vol, <<>>)
    BY <1>1, <1>2, TicksAreTotal
  <2> QED
    BY <1>1, <2>1, <2>2 DEF StoryInv, BarsRise, SameTicks
<1>3. CASE bar = [p \in Period |-> [open |-> Start(p, now + Lead), vol |-> 0]]
  <2>1. OneClock
    BY <1>1, <1>3 DEF OneClock
  <2>2. \A p \in Period : Ticks(p) = Total(0, <<>>)
    <3>1. \A p \in Period : bar[p].vol = 0
      BY <1>3
    <3> QED
      BY <1>1, <3>1, TicksAreTotal
  <2> QED
    BY <1>1, <2>1, <2>2 DEF StoryInv, BarsRise, SameTicks
<1> QED
  BY <1>2, <1>3 DEF FeedInit

LEMMA StoryIsNested == StoryInv => BarsNest
<1> SUFFICES ASSUME StoryInv, NEW p \in Period, NEW q \in Period, q % p = 0, bar[p] # NoBar
             PROVE  bar[p].open \in bar[q].open .. bar[q].open + q - 1
  BY DEF StoryInv, BarsRise, SameTicks, BarsNest
<1>1. PICK m \in Nat : \A r \in Period : bar[r].open = Start(r, m)
  BY DEF StoryInv, OneClock
<1> QED
  BY <1>1, StartsNest

(* The bars tell the truth about the tape, for any set of timeframes, any  *)
(* batch that the terminal sends and any volume cycle.                     *)
THEOREM BarsAreFaithful == FeedSpec => []BarsFaithful
<1>1. TapeInv => FeedTypeOK /\ TapeOrdered
  BY DEF TapeInv
<1>2. TapeInv /\ StoryInv => BarsFaithful
  BY StoryIsNested DEF TapeInv, BarsFaithful
<1> QED
  BY <1>1, <1>2, FeedInitHolds, TapeStep, StoryBegins, StoryStep, PTL DEF FeedSpec

-----------------------------------------------------------------------------
(* BrokerClock. The invariant says that an offset which was found on a     *)
(* fresh or on an old tick is the one that the broker keeps.               *)

(* An offset that was found on a fresh or an old tick is the broker's.     *)
OffsetFound ==
  offset # Unknown /\ (basis.idle = 0 \/ basis.idle >= 10) => offset = basis.zone

ClockInv == ClockTypeOK /\ OffsetFound

LEMMA ClockInvHolds == ClockSpec => []ClockInv
<1>1. ClockInit => ClockInv
  BY ClockAssumption DEF ClockInit, ClockInv, ClockTypeOK, OffsetFound, Zones
<1>2. ClockInv /\ [ClockNext]_clockVars => ClockInv'
  <2> SUFFICES ASSUME ClockInv, [ClockNext]_clockVars PROVE ClockInv'
    OBVIOUS
  <2>1. CASE Pass
    <3>1. halves' \in First .. Latest
      BY <2>1, ClockAssumption DEF Pass, ClockInv, ClockTypeOK
    <3>2. idle' \in 0 .. MaxAge
      BY <2>1, ClockAssumption DEF Pass, ClockInv, ClockTypeOK
    <3> QED
      BY <2>1, <3>1, <3>2 DEF Pass, ClockInv, ClockTypeOK, OffsetFound
  <2>2. ASSUME NEW answers \in BOOLEAN, Learn(answers) PROVE ClockInv'
    <3> DEFINE ahead == 2 * zone - idle
    <3>1. ahead \in Int /\ zone \in {2, 3} /\ idle \in Nat
      BY ClockAssumption DEF ClockInv, ClockTypeOK, Zones
    <3>2. /\ offset' = IF answers /\ WithinTwoHours(ahead) THEN ahead \div 2 ELSE zone
          /\ basis' = [zone |-> zone, idle |-> idle]
          /\ UNCHANGED <<halves, zone, idle>>
      BY <2>2 DEF Learn
    <3>3. offset' \in Int
      BY <3>1, <3>2
    <3>4. idle = 0 \/ idle >= 10 => offset' = zone
      BY <3>1, <3>2 DEF WithinTwoHours
    <3> QED
      BY <3>2, <3>3, <3>4 DEF ClockInv, ClockTypeOK, OffsetFound
  <2>3. CASE ClockRestart
    BY <2>3 DEF ClockRestart, ClockInv, ClockTypeOK, OffsetFound
  <2>4. CASE UNCHANGED clockVars
    BY <2>4 DEF clockVars, ClockInv, ClockTypeOK, OffsetFound
  <2> QED
    BY <2>1, <2>2, <2>3, <2>4 DEF ClockNext
<1> QED
  BY <1>1, <1>2, PTL DEF ClockSpec

(* The clock's variables keep their types, for any stretch of hours with   *)
(* one weekend and any age of the ticks.                                   *)
THEOREM ClockTypeCorrect == ClockSpec => []ClockTypeOK
  BY ClockInvHolds, PTL DEF ClockInv

(* By the right offset a weekend is told from its first half hour to its   *)
(* last, with the opening to come.                                         *)
LEMMA RightOffsetTells ==
  ASSUME ClockTypeOK, offset = zone
  PROVE  /\ WeekendTold <=> ~MarketOpen
         /\ WeekendTold => \E late \in {0, 2} : ResumeTold = 336 - 2 * zone + late
         /\ MarketOpen /\ idle < 6 => ~ClosedTold
<1>1. halves \in Nat /\ halves < 570 /\ zone \in {2, 3} /\ idle \in Nat
  BY ClockAssumption DEF ClockTypeOK, Zones
<1>2. WeekendTold <=> ~MarketOpen
  BY DEF WeekendTold, MarketOpen
<1>3. ASSUME WeekendTold PROVE \E late \in {0, 2} : ResumeTold = 336 - 2 * zone + late
  <2>1. 240 - 2 * zone <= halves /\ halves < 336 - 2 * zone
    BY <1>1, <1>3 DEF WeekendTold, Weekday, FreeDays
  <2>2. SundayTold = 332
    <3>1. halves \div 48 \in {4, 5, 6} /\ Weekday(halves) = halves \div 48
      BY <1>1, <2>1 DEF Weekday
    <3> QED
      BY <1>1, <2>1, <3>1 DEF SundayTold
  <2>3. ~HolidayTold
    BY <1>3 DEF HolidayTold
  <2> QED
    BY <1>1, <2>2, <2>3 DEF ResumeTold
<1>4. MarketOpen /\ idle < 6 => ~ClosedTold
  BY <1>1, <1>2 DEF ClosedTold, HolidayTold
<1> QED
  BY <1>2, <1>3, <1>4

(* What the payloads say of the week is right wherever the offset was      *)
(* found on a fresh tick or on none, at any of its hours.                  *)
THEOREM ClockIsTrusted == ClockSpec => []ClockTrusted
<1>1. ClockInv => ClockTrusted
  BY RightOffsetTells DEF ClockInv, OffsetFound, ClockTrusted
<1> QED
  BY <1>1, ClockInvHolds, PTL

-----------------------------------------------------------------------------
(* SessionRanges. The invariant compares what the detector has kept of a   *)
(* day with what it was shown: the highs are those of bars inside the      *)
(* session's hours, a settled range is one of a session that is over, and  *)
(* the open hour is not counted among the past ones.                       *)

-----------------------------------------------------------------------------
(* Highest is the greatest element, where values of a day are compared.    *)
LEMMA HighestOf ==
  ASSUME NEW f \in [0 .. 24 -> Nat], NEW A \in SUBSET (0 .. 24)
  PROVE  LET top == Highest({f[a] : a \in A})
         IN  /\ A = {} => top = 0
             /\ A # {} => \E a \in A : top = f[a]
             /\ \A a \in A : f[a] <= top
<1> DEFINE T == {f[a] : a \in A}
<1>1. T \subseteq Nat /\ (T = {} <=> A = {})
  OBVIOUS
<1>2. PICK m \in Nat : \A a \in 0 .. 24 : f[a] <= m
  BY BoundOf
<1>3. \A x \in T : x <= m
  BY <1>2
<1>4. T # {} => Highest(T) \in T /\ \A y \in T : y <= Highest(T)
  <2> HIDE DEF T
  <2>1. T # {} => \E x \in T : \A y \in T : y <= x
    BY <1>1, <1>3, GreatestOf
  <2> QED
    BY <2>1 DEF Highest
<1>5. T = {} => Highest(T) = 0
  BY DEF Highest
<1> QED
  BY <1>1, <1>4, <1>5

-----------------------------------------------------------------------------
(* The hours of a session are those between two of one day, by the bars    *)
(* and by the payloads, and it opens once.                                 *)
LondonOpens == Opens("London", 8)
YorkOpens   == Opens("New York", 13)
BarFrom(s) == IF s = "Asian" THEN 0 ELSE IF s = "London" THEN LondonOpens ELSE 13
BarTo(s)   == IF s = "Asian" THEN LondonOpens - 1 ELSE IF s = "London" THEN LondonOpens + 7 ELSE 20
TickFrom(s) == IF s = "Asian" THEN 0 ELSE IF s = "London" THEN 8 ELSE LondonOpens + 8
TickTo(s) ==
  IF s = "Asian" THEN 7 ELSE IF s = "London" THEN LondonOpens + 7 ELSE YorkOpens + 7

LEMMA SessionHours ==
  ASSUME NEW s \in Ranged
  PROVE  /\ BarFrom(s) \in 0 .. 13 /\ BarTo(s) \in 6 .. 20
         /\ BarFrom(s) + 5 <= BarTo(s) /\ BarTo(s) <= BarFrom(s) + 7
         /\ TickFrom(s) \in 0 .. 16 /\ TickTo(s) \in 7 .. 20
         /\ BarHours(s) = BarFrom(s) .. BarTo(s)
         /\ TickHours(s) = TickFrom(s) .. TickTo(s)
         /\ Openings(s) = {BarFrom(s)}
<1>1. /\ LondonOpens \in {7, 8} /\ YorkOpens \in {12, 13}
      /\ LondonHours = LondonOpens .. LondonOpens + 7
  BY DEF Opens, LondonOpens, YorkOpens, LondonHours, Hours
<1>2. s \in {"Asian", "London", "New York"}
  BY DEF Ranged
<1>3. /\ BarFrom(s) \in 0 .. 13 /\ BarTo(s) \in 6 .. 20
      /\ BarFrom(s) + 5 <= BarTo(s) /\ BarTo(s) <= BarFrom(s) + 7
      /\ TickFrom(s) \in 0 .. 16 /\ TickTo(s) \in 7 .. 20
  <2>1. CASE s = "Asian"
    BY <1>1, <2>1 DEF BarFrom, BarTo, TickFrom, TickTo
  <2>2. CASE s = "London"
    BY <1>1, <2>2 DEF BarFrom, BarTo, TickFrom, TickTo
  <2>3. CASE s = "New York"
    <3>1. BarFrom(s) = 13 /\ BarTo(s) = 20
      BY <2>3 DEF BarFrom, BarTo
    <3>2. TickFrom(s) = LondonOpens + 8 /\ TickTo(s) = YorkOpens + 7
      BY <2>3 DEF TickFrom, TickTo
    <3> QED
      BY <1>1, <3>1, <3>2
  <2> QED
    BY <1>2, <2>1, <2>2, <2>3
<1>4. BarHours(s) = BarFrom(s) .. BarTo(s)
  BY <1>1, <1>2 DEF BarHours, BarFrom, BarTo, LondonOpens
<1>5. TickHours(s) = TickFrom(s) .. TickTo(s)
  <2>1. CASE s = "Asian"
    BY <2>1 DEF TickHours, TickFrom, TickTo
  <2>2. CASE s = "London"
    <3>1. (LondonOpens .. LondonOpens + 7) \ (0 .. 7) = 8 .. LondonOpens + 7
      BY <1>1
    <3> QED
      BY <1>1, <2>2, <3>1 DEF TickHours, TickFrom, TickTo
  <2>3. CASE s = "New York"
    <3> DEFINE york == Hours("New York", 13, 8)
    <3>1. TickHours(s) = york \ ((0 .. 7) \cup LondonHours)
      BY <2>3 DEF TickHours
    <3>2. york = YorkOpens .. YorkOpens + 8 - 1
      BY Zenon DEF Hours, YorkOpens
    <3> HIDE DEF york
    <3>3. TickFrom(s) = LondonOpens + 8 /\ TickTo(s) = YorkOpens + 7
      BY <2>3 DEF TickFrom, TickTo
    <3>4. (YorkOpens .. YorkOpens + 7) \ ((0 .. 7) \cup (LondonOpens .. LondonOpens + 7)) = LondonOpens + 8 .. YorkOpens + 7
      BY <1>1
    <3> QED
      BY <1>1, <3>1, <3>2, <3>3, <3>4
  <2> QED
    BY <1>2, <2>1, <2>2, <2>3
<1>6. Openings(s) = {BarFrom(s)}
  <2> DEFINE lo == BarFrom(s)
             hi == BarTo(s)
  <2>1. lo \in 0 .. 13 /\ hi \in 6 .. 20 /\ lo + 5 <= hi
    BY <1>3
  <2>2. Openings(s) = {h \in lo .. hi : (h - 1) % 24 \notin lo .. hi}
    BY <1>4 DEF Openings
  <2> HIDE DEF lo, hi
  <2>3. \A h \in lo .. hi : (h - 1) % 24 \notin lo .. hi <=> h = lo
    BY <2>1
  <2>4. lo \in lo .. hi
    BY <2>1
  <2>5. Openings(s) = {lo}
    BY <2>2, <2>3, <2>4
  <2> QED
    BY <2>5 DEF lo
<1> QED
  BY <1>3, <1>4, <1>5, <1>6

-----------------------------------------------------------------------------
(* The hours that seen is about: those of the session that runs, or of the *)
(* last one.                                                               *)
Window(s) ==
  IF hour \in BarHours(s) THEN 0 .. hour - BarFrom(s)
  ELSE {a \in 0 .. 23 : HourOf(a) \in BarHours(s)}

SeenInWindow ==
  \A s \in Ranged :
    /\ \A a \in Window(s) : past[a] <= seen[s]
    /\ seen[s] # 0 => \E a \in Window(s) : past[a] = seen[s]

ShownIsSeen ==
  \A s \in Ranged :
    /\ shown[s] <= seen[s]
    /\ hour \in BarHours(s) /\ hour < TickFrom(s) => shown[s] = 0

SettledIsOver == \A s \in settled : hour \notin BarHours(s) \cup TickHours(s)
FreshHour == unclosed > 0 => past[0] = 0

(* The part of RangesTold that is about the ranges.                        *)
RangesCover ==
  \A s \in Ranged :
    /\ s \in settled /\ seen[s] # 0 => highs[s] = seen[s]
    /\ hour \in BarHours(s) \cap TickHours(s) => highs[s] >= shown[s]

RangesInv ==
  /\ RangesTypeOK /\ SeenInWindow /\ ShownIsSeen /\ SettledIsOver /\ FreshHour
  /\ RangesCover

LEMMA Types ==
  ASSUME RangesTypeOK
  PROVE  /\ hour \in 0 .. 23 /\ past \in [0 .. 24 -> Nat] /\ Bid \subseteq Nat \ {0}
         /\ \A s \in Ranged : highs[s] \in Nat /\ seen[s] \in Nat /\ shown[s] \in Nat
<1>1. Bid \subseteq Nat \ {0} /\ Bid \cup {0} \subseteq Nat
  BY RangesAssumption
<1>2. hour \in 0 .. 23
  BY DEF RangesTypeOK
<1>3. past \in [0 .. 24 -> Nat]
  BY <1>1 DEF RangesTypeOK
<1>4. \A s \in Ranged : highs[s] \in Nat /\ seen[s] \in Nat /\ shown[s] \in Nat
  BY <1>1 DEF RangesTypeOK
<1> QED
  BY <1>1, <1>2, <1>3, <1>4

LEMMA WindowInDay ==
  ASSUME RangesTypeOK, NEW s \in Ranged
  PROVE  Window(s) \subseteq 0 .. 23
<1>1. BarFrom(s) \in 0 .. 13 /\ hour \in 0 .. 23
  BY SessionHours, Types
<1>2. CASE hour \in BarHours(s)
  BY <1>1, <1>2 DEF Window
<1>3. CASE hour \notin BarHours(s)
  BY <1>3 DEF Window
<1> QED
  BY <1>2, <1>3

(* An hour later the same hours are looked at, an hour older, unless the   *)
(* session starts.                                                         *)
LEMMA WindowAges ==
  ASSUME RangesTypeOK, NEW s \in Ranged, hour' = (hour + 1) % 24, summer' = summer
  PROVE  /\ BarHours(s)' = BarHours(s) /\ TickHours(s)' = TickHours(s)
         /\ BarFrom(s)' = BarFrom(s) /\ TickFrom(s)' = TickFrom(s)
         /\ hour' \in Openings(s) => Window(s)' = {0}
         /\ hour' \notin Openings(s) =>
              /\ \A a \in Window(s)' : a = 0 \/ a - 1 \in Window(s)
              /\ \A a \in Window(s) : a + 1 \in Window(s)'
<1>1. /\ BarHours(s)' = BarHours(s) /\ TickHours(s)' = TickHours(s)
      /\ BarFrom(s)' = BarFrom(s) /\ TickFrom(s)' = TickFrom(s)
  BY DEF BarHours, TickHours, BarFrom, TickFrom, LondonOpens, LondonHours, Hours, Opens
<1> DEFINE lo == BarFrom(s)
           hi == BarTo(s)
<1>2. /\ lo \in 0 .. 13 /\ hi \in 6 .. 20 /\ lo + 5 <= hi /\ hi <= lo + 7
      /\ BarHours(s) = lo .. hi /\ Openings(s) = {lo}
  BY SessionHours
<1>3. hour \in 0 .. 23 /\ hour' \in 0 .. 23 /\ hour' = IF hour = 23 THEN 0 ELSE hour + 1
  BY Types
<1>4. \A x \in -23 .. 23 : x % 24 = IF x < 0 THEN x + 24 ELSE x
  OBVIOUS
<1> DEFINE Looks(h, a) ==
             IF lo <= h /\ h <= hi THEN a <= h - lo
             ELSE LET x == IF h < a THEN h - a + 24 ELSE h - a IN lo <= x /\ x <= hi
<1>5. /\ \A a : a \in Window(s) <=> a \in 0 .. 23 /\ Looks(hour, a)
      /\ \A a : a \in Window(s)' <=> a \in 0 .. 23 /\ Looks(hour', a)
  <2>1. \A h, a \in 0 .. 23 :
          /\ h - a \in -23 .. 23
          /\ (h - a) % 24 = IF h < a THEN h - a + 24 ELSE h - a
    BY <1>4
  <2>2. Window(s) = IF hour \in lo .. hi THEN 0 .. hour - lo
                    ELSE {a \in 0 .. 23 : (hour - a) % 24 \in lo .. hi}
    BY <1>2 DEF Window, HourOf
  <2>3. Window(s)' = IF hour' \in lo .. hi THEN 0 .. hour' - lo
                     ELSE {a \in 0 .. 23 : (hour' - a) % 24 \in lo .. hi}
    BY <1>1, <1>2 DEF Window, HourOf
  <2> HIDE DEF lo, hi
  <2>4. ASSUME NEW h \in 0 .. 23, NEW W,
               W = IF h \in lo .. hi THEN 0 .. h - lo
                   ELSE {a \in 0 .. 23 : (h - a) % 24 \in lo .. hi},
               NEW a
        PROVE  a \in W <=> a \in 0 .. 23 /\ Looks(h, a)
    <3>1. CASE h \in lo .. hi
      <4>1. a \in W <=> a \in 0 .. h - lo
        BY <2>4, <3>1
      <4>2. lo <= h /\ h <= hi /\ h - lo <= 23 /\ h - lo \in Int
        BY <1>2, <3>1
      <4>3. a \in 0 .. h - lo <=> a \in 0 .. 23 /\ a <= h - lo
        BY <4>2
      <4>4. Looks(h, a) <=> a <= h - lo
        BY <4>2
      <4> QED
        BY <4>1, <4>3, <4>4
    <3>2. CASE h \notin lo .. hi
      <4>1. a \in W <=> a \in 0 .. 23 /\ (h - a) % 24 \in lo .. hi
        BY <2>4, <3>2
      <4>2. a \in 0 .. 23 => (h - a) % 24 = IF h < a THEN h - a + 24 ELSE h - a
        BY <2>1
      <4>3. ~(lo <= h /\ h <= hi)
        BY <1>2, <3>2
      <4> DEFINE x == IF h < a THEN h - a + 24 ELSE h - a
      <4>4. Looks(h, a) <=> lo <= x /\ x <= hi
        BY <4>3
      <4>5. a \in 0 .. 23 => x \in Int /\ (x \in lo .. hi <=> lo <= x /\ x <= hi)
        BY <1>2
      <4> QED
        BY <4>1, <4>2, <4>4, <4>5
    <3> QED
      BY <3>1, <3>2
  <2> QED
    BY <1>3, <2>2, <2>3, <2>4
<1> HIDE DEF lo, hi
<1>6. ASSUME hour' = lo PROVE Window(s)' = {0}
  BY <1>2, <1>5, <1>6
<1>7. ASSUME hour' # lo, NEW a \in Window(s)' PROVE a = 0 \/ a - 1 \in Window(s)
  <2>1. a \in 0 .. 23 /\ Looks(hour', a)
    BY <1>5
  <2>2. a # 0 => a - 1 \in 0 .. 23 /\ Looks(hour, a - 1)
    BY <1>2, <1>3, <1>7, <2>1
  <2> HIDE DEF Looks
  <2> QED
    BY <1>5, <2>2
<1>8. ASSUME hour' # lo, NEW a \in Window(s) PROVE a + 1 \in Window(s)'
  <2>1. a \in 0 .. 23 /\ Looks(hour, a)
    BY <1>5
  <2>2. a + 1 \in 0 .. 23 /\ Looks(hour', a + 1)
    BY <1>2, <1>3, <1>8, <2>1
  <2> HIDE DEF Looks
  <2> QED
    BY <1>5, <2>2
<1> QED
  BY <1>1, <1>2, <1>6, <1>7, <1>8

(* Ranges that are taken from the bars, in an hour that has no tick yet:   *)
(* nothing that was seen in the session is missing, and when it is over    *)
(* there is nothing else.                                                  *)
LEMMA BarsCover ==
  ASSUME RangesInv, unclosed > 0, NEW s \in Ranged
  PROVE  /\ FromBars(s) \in Bid \cup {0} /\ FromBars(s) >= seen[s]
         /\ hour \notin BarHours(s) /\ seen[s] # 0 => FromBars(s) = seen[s]
<1> DEFINE fullBars  == {a \in 1 .. 24 : past[a] # 0}
           within  == {a \in fullBars : InWindow(a) /\ HourOf(a) \in BarHours(s)}
           earlier == {a \in fullBars : Cardinality({b \in fullBars : b <= a}) \in 5 .. 12}
           ages    == IF within = {} /\ s = "Asian" THEN earlier ELSE within
           top     == Highest({past[a] : a \in ages})
<1>1. FromBars(s) = top
  BY DEF FromBars
<1>2. RangesTypeOK /\ past \in [0 .. 24 -> Nat] /\ seen[s] \in Nat /\ hour \in 0 .. 23
  BY Types DEF RangesInv
<1>3. /\ ages = {} => top = 0
      /\ ages # {} => \E a \in ages : top = past[a]
      /\ \A a \in ages : past[a] <= top
  <2>1. ages \in SUBSET (0 .. 24)
    OBVIOUS
  <2> HIDE DEF ages
  <2> QED
    BY <1>2, <2>1, HighestOf
<1>4. ages \subseteq 0 .. 24
  OBVIOUS
<1>5. top \in Bid \cup {0}
  <2>1. \A a \in ages : past[a] \in Bid \cup {0}
    BY <1>2, <1>4 DEF RangesTypeOK
  <2> HIDE DEF ages, top
  <2> QED
    BY <1>3, <2>1
<1>6. top \in Nat
  <2>1. Bid \cup {0} \subseteq Nat
    BY RangesAssumption
  <2> HIDE DEF top
  <2> QED
    BY <1>5, <2>1
<1>7. ASSUME seen[s] # 0 PROVE \E a \in within : past[a] = seen[s]
  <2>1. PICK a \in Window(s) : past[a] = seen[s]
    BY <1>7 DEF RangesInv, SeenInWindow
  <2>2. a \in 0 .. 23
    BY <1>2, <2>1, WindowInDay
  <2>3. /\ BarFrom(s) \in 0 .. 13 /\ BarTo(s) \in 6 .. 20
        /\ BarHours(s) = BarFrom(s) .. BarTo(s)
    BY SessionHours
  <2>4. HourOf(a) \in BarHours(s)
    <3>1. CASE hour \in BarHours(s)
      <4>1. a \in 0 .. hour - BarFrom(s)
        BY <3>1 DEF Window
      <4> DEFINE lo == BarFrom(s)
                 hi == BarTo(s)
      <4>4. lo \in 0 .. 13 /\ hi \in 6 .. 20 /\ hour \in lo .. hi /\ a \in 0 .. hour - lo
        BY <2>3, <3>1, <4>1
      <4> HIDE DEF lo, hi
      <4>5. hour - a \in lo .. hi /\ hour - a \in 0 .. 23
        BY <1>2, <2>2, <4>4
      <4>2. hour - a \in BarFrom(s) .. BarTo(s) /\ hour - a \in 0 .. 23
        BY <4>5 DEF lo, hi
      <4>3. \A x \in 0 .. 23 : x % 24 = x
        OBVIOUS
      <4> QED
        BY <2>3, <4>2, <4>3 DEF HourOf
    <3>2. CASE hour \notin BarHours(s)
      BY <3>2 DEF Window
    <3> QED
      BY <3>1, <3>2
  <2>5. a # 0
    BY <1>7, <2>1 DEF RangesInv, FreshHour
  <2>6. InWindow(a)
    BY <2>2 DEF InWindow
  <2> QED
    BY <1>7, <2>1, <2>2, <2>4, <2>5, <2>6
<1>8. top >= seen[s]
  <2>1. CASE seen[s] = 0
    BY <1>2, <1>6, <2>1
  <2>2. CASE seen[s] # 0
    <3>1. PICK a \in within : past[a] = seen[s]
      BY <1>7, <2>2
    <3>2. a \in ages
      BY <3>1
    <3> HIDE DEF ages, top, within
    <3> QED
      BY <1>3, <1>6, <3>1, <3>2
  <2> QED
    BY <2>1, <2>2
<1>9. ASSUME hour \notin BarHours(s), seen[s] # 0 PROVE top = seen[s]
  <2>1. ages = within
    BY <1>7, <1>9
  <2>2. \A a \in within : a \in Window(s)
    BY <1>9 DEF Window, InWindow
  <2>3. \A a \in within : past[a] <= seen[s]
    BY <2>2 DEF RangesInv, SeenInWindow
  <2>4. within # {}
    BY <1>7, <1>9
  <2> HIDE DEF ages, top, within
  <2>5. top <= seen[s]
    BY <1>3, <2>1, <2>3, <2>4
  <2> QED
    BY <1>2, <1>6, <1>8, <2>5
<1> QED
  BY <1>1, <1>5, <1>8, <1>9

LEMMA RangeTickKeeps ==
  ASSUME RangesInv, NEW quote \in Bid, NEW payload \in BOOLEAN, RangeTick(quote, payload)
  PROVE  RangesInv'
<1> DEFINE closes == unclosed > 0
           tells  == payload \/ closes
           ranges == IF closes THEN [s \in Ranged |-> FromBars(s)] ELSE highs
<1>1. /\ past' = [past EXCEPT ![0] = Higher(past[0], quote)] /\ unclosed' = 0
      /\ highs' = IF tells THEN Extended(ranges, quote) ELSE highs
      /\ seen' = [s \in Ranged |-> IF hour \in BarHours(s) THEN Higher(seen[s], quote) ELSE seen[s]]
      /\ shown' = [s \in Ranged |-> IF tells /\ hour \in BarHours(s) \cap TickHours(s)
                                     THEN Higher(shown[s], quote) ELSE shown[s]]
      /\ settled' = IF closes THEN {s \in Ranged : hour \notin BarHours(s) \cup TickHours(s)}
                    ELSE settled
      /\ UNCHANGED <<hour, summer>>
  BY DEF RangeTick
<1>2. /\ RangesTypeOK /\ hour \in 0 .. 23 /\ past \in [0 .. 24 -> Nat]
      /\ \A s \in Ranged : highs[s] \in Nat /\ seen[s] \in Nat /\ shown[s] \in Nat
      /\ quote \in Nat /\ unclosed \in Nat
  BY Types, RangesAssumption DEF RangesInv, RangesTypeOK
<1>3. \A s \in Ranged : /\ BarHours(s)' = BarHours(s) /\ TickHours(s)' = TickHours(s)
                       /\ BarFrom(s)' = BarFrom(s) /\ TickFrom(s)' = TickFrom(s)
                       /\ Window(s)' = Window(s)
  BY <1>1 DEF BarHours, TickHours, BarFrom, TickFrom, LondonOpens, LondonHours, Hours, Opens,
              Window, HourOf
<1>4. \A s \in Ranged :
        /\ ranges[s] \in Bid \cup {0} /\ ranges[s] \in Nat
        /\ hour \in BarHours(s) \cap TickHours(s) => ranges[s] >= shown[s]
        /\ closes /\ hour \notin BarHours(s) /\ seen[s] # 0 => ranges[s] = seen[s]
  <2> SUFFICES ASSUME NEW s \in Ranged
               PROVE  /\ ranges[s] \in Bid \cup {0} /\ ranges[s] \in Nat
                      /\ hour \in BarHours(s) \cap TickHours(s) => ranges[s] >= shown[s]
                      /\ closes /\ hour \notin BarHours(s) /\ seen[s] # 0 => ranges[s] = seen[s]
    OBVIOUS
  <2>1. Bid \cup {0} \subseteq Nat
    BY RangesAssumption
  <2>2. CASE closes
    <3>1. ranges[s] = FromBars(s)
      BY <2>2
    <3>2. /\ FromBars(s) \in Bid \cup {0} /\ FromBars(s) >= seen[s]
          /\ hour \notin BarHours(s) /\ seen[s] # 0 => FromBars(s) = seen[s]
      BY <2>2, BarsCover
    <3>3. shown[s] <= seen[s]
      BY DEF RangesInv, ShownIsSeen
    <3> HIDE DEF ranges
    <3>4. FromBars(s) \in Nat /\ seen[s] \in Nat /\ shown[s] \in Nat
      BY <1>2, <2>1, <3>2
    <3> QED
      BY <2>2, <3>1, <3>2, <3>3, <3>4
  <2>3. CASE ~closes
    <3>1. ranges[s] = highs[s]
      BY <2>3
    <3>2. highs[s] \in Bid \cup {0}
      BY DEF RangesInv, RangesTypeOK
    <3>3. hour \in BarHours(s) \cap TickHours(s) => highs[s] >= shown[s]
      BY DEF RangesInv, RangesCover
    <3> QED
      BY <2>1, <2>3, <3>1, <3>2, <3>3
  <2> QED
    BY <2>2, <2>3
<1> HIDE DEF ranges
<1>5. highs' \in [Ranged -> Bid \cup {0}]
  <2>1. Extended(ranges, quote) \in [Ranged -> Bid \cup {0}]
    BY <1>4 DEF Extended
  <2> QED
    BY <1>1, <2>1 DEF RangesInv, RangesTypeOK
<1>6. \A x \in Bid \cup {0} : Higher(x, quote) \in Bid \cup {0}
  BY DEF Higher
<1>7. RangesTypeOK'
  <2>1. past' \in [0 .. 24 -> Bid \cup {0}]
    BY <1>1, <1>6 DEF RangesInv, RangesTypeOK
  <2>2. seen' \in [Ranged -> Bid \cup {0}]
    BY <1>1, <1>6 DEF RangesInv, RangesTypeOK
  <2>3. shown' \in [Ranged -> Bid \cup {0}]
    BY <1>1, <1>6 DEF RangesInv, RangesTypeOK
  <2>4. settled' \subseteq Ranged
    BY <1>1 DEF RangesInv, RangesTypeOK
  <2> QED
    BY <1>1, <1>5, <2>1, <2>2, <2>3, <2>4 DEF RangesInv, RangesTypeOK
<1>8. SeenInWindow'
  <2> SUFFICES ASSUME NEW s \in Ranged
               PROVE  /\ \A a \in Window(s) : past'[a] <= seen'[s]
                      /\ seen'[s] # 0 => \E a \in Window(s) : past'[a] = seen'[s]
    BY <1>3 DEF SeenInWindow
  <2>1. Window(s) \subseteq 0 .. 23
    BY <1>2, WindowInDay
  <2>2. /\ \A a \in Window(s) : past[a] <= seen[s] /\ past[a] \in Nat
        /\ seen[s] # 0 => \E a \in Window(s) : past[a] = seen[s]
    BY <1>2, <2>1 DEF RangesInv, SeenInWindow
  <2>3. CASE hour \in BarHours(s)
    <3>1. 0 \in Window(s)
      <4>1. BarFrom(s) \in 0 .. 13 /\ BarHours(s) = BarFrom(s) .. BarTo(s) /\ BarTo(s) \in 6 .. 20
        BY SessionHours
      <4>2. hour - BarFrom(s) >= 0 /\ hour - BarFrom(s) \in Int
        <5> DEFINE lo == BarFrom(s)
                   hi == BarTo(s)
        <5>1. lo \in 0 .. 13 /\ hi \in 6 .. 20 /\ hour \in lo .. hi
          BY <2>3, <4>1
        <5> HIDE DEF lo, hi
        <5>2. hour - lo >= 0 /\ hour - lo \in Int
          BY <1>2, <5>1
        <5> QED
          BY <5>2 DEF lo
      <4> QED
        BY <2>3, <4>2 DEF Window
    <3>2. seen'[s] = Higher(seen[s], quote)
      BY <1>1, <2>3
    <3>3. past'[0] = Higher(past[0], quote) /\ \A a \in Window(s) \ {0} : past'[a] = past[a]
      BY <1>1, <1>2, <2>1
    <3>4. seen[s] \in Nat /\ past[0] \in Nat /\ past[0] <= seen[s]
      BY <1>2, <2>2, <3>1
    <3>5. \A a \in Window(s) : past'[a] <= seen'[s]
      BY <1>2, <2>2, <3>2, <3>3, <3>4 DEF Higher
    <3>6. CASE seen[s] < quote
      <4>1. past'[0] = quote /\ seen'[s] = quote
        BY <1>2, <3>2, <3>3, <3>4, <3>6 DEF Higher
      <4> QED
        BY <3>1, <3>5, <4>1
    <3>7. CASE ~(seen[s] < quote)
      <4>1. seen'[s] = seen[s]
        BY <3>2, <3>7 DEF Higher
      <4>2. ASSUME seen[s] # 0 PROVE \E a \in Window(s) : past'[a] = seen[s]
        <5>1. PICK a \in Window(s) : past[a] = seen[s]
          BY <2>2, <4>2
        <5>2. past'[a] = seen[s]
          BY <1>2, <3>3, <3>4, <3>7, <5>1 DEF Higher
        <5> QED
          BY <5>2
      <4> QED
        BY <3>5, <4>1, <4>2
    <3> QED
      BY <3>6, <3>7
  <2>4. CASE hour \notin BarHours(s)
    <3>1. 0 \notin Window(s)
      <4>1. (hour - 0) % 24 = hour
        BY <1>2
      <4> QED
        BY <2>4, <4>1 DEF Window, HourOf
    <3>2. seen'[s] = seen[s] /\ \A a \in Window(s) : past'[a] = past[a]
      BY <1>1, <1>2, <2>1, <2>4, <3>1
    <3> QED
      BY <2>2, <3>2
  <2> QED
    BY <2>3, <2>4
<1>9. ShownIsSeen'
  <2> SUFFICES ASSUME NEW s \in Ranged
               PROVE  /\ shown'[s] <= seen'[s]
                      /\ hour \in BarHours(s) /\ hour < TickFrom(s) => shown'[s] = 0
    BY <1>1, <1>3 DEF ShownIsSeen
  <2>1. /\ shown[s] <= seen[s] /\ seen[s] \in Nat /\ shown[s] \in Nat
        /\ hour \in BarHours(s) /\ hour < TickFrom(s) => shown[s] = 0
    BY <1>2 DEF RangesInv, ShownIsSeen
  <2>2. shown'[s] = IF tells /\ hour \in BarHours(s) \cap TickHours(s)
                    THEN Higher(shown[s], quote) ELSE shown[s]
    BY <1>1
  <2>3. seen'[s] = IF hour \in BarHours(s) THEN Higher(seen[s], quote) ELSE seen[s]
    BY <1>1
  <2>4. shown'[s] <= seen'[s]
    BY <1>2, <2>1, <2>2, <2>3 DEF Higher
  <2>5. hour < TickFrom(s) => hour \notin TickHours(s)
    <3>1. TickHours(s) = TickFrom(s) .. TickTo(s) /\ TickFrom(s) \in 0 .. 16
      BY SessionHours
    <3> DEFINE from == TickFrom(s)
               to   == TickTo(s)
    <3>2. TickHours(s) = from .. to /\ from \in Int
      BY <3>1
    <3> HIDE DEF from, to
    <3>3. hour < from => hour \notin TickHours(s)
      BY <1>2, <3>2
    <3> QED
      BY <3>3 DEF from
  <2> QED
    BY <2>1, <2>2, <2>4, <2>5
<1>10. SettledIsOver'
  BY <1>1, <1>3 DEF RangesInv, SettledIsOver, RangesTypeOK
<1>11. FreshHour'
  BY <1>1 DEF FreshHour
<1>12. RangesCover'
  <2> SUFFICES ASSUME NEW s \in Ranged
               PROVE  /\ s \in settled' /\ seen'[s] # 0 => highs'[s] = seen'[s]
                      /\ hour \in BarHours(s) \cap TickHours(s) => highs'[s] >= shown'[s]
    BY <1>1, <1>3 DEF RangesCover
  <2>1. tells => highs'[s] = IF hour \in TickHours(s) /\ quote > ranges[s] THEN quote ELSE ranges[s]
    BY <1>1 DEF Extended
  <2>2. ~tells => highs'[s] = highs[s]
    BY <1>1
  <2>3. /\ ranges[s] \in Nat
        /\ hour \in BarHours(s) \cap TickHours(s) => ranges[s] >= shown[s]
        /\ closes /\ hour \notin BarHours(s) /\ seen[s] # 0 => ranges[s] = seen[s]
        /\ ~closes => ranges[s] = highs[s]
    BY <1>4 DEF ranges
  <2>4. ASSUME s \in settled', seen'[s] # 0 PROVE highs'[s] = seen'[s]
    <3>1. hour \notin BarHours(s) /\ hour \notin TickHours(s)
      BY <1>1, <2>4 DEF RangesInv, SettledIsOver
    <3>2. seen'[s] = seen[s]
      BY <1>1, <3>1
    <3>3. ~closes => highs[s] = seen[s]
      BY <1>1, <2>4, <3>2 DEF RangesInv, RangesCover
    <3> QED
      BY <2>1, <2>2, <2>3, <2>4, <3>1, <3>2, <3>3
  <2>5. ASSUME hour \in BarHours(s) \cap TickHours(s) PROVE highs'[s] >= shown'[s]
    <3>1. shown'[s] = IF tells THEN Higher(shown[s], quote) ELSE shown[s]
      BY <1>1, <2>5
    <3>2. highs[s] >= shown[s]
      BY <2>5 DEF RangesInv, RangesCover
    <3> HIDE DEF tells, closes
    <3> QED
      BY <1>2, <2>1, <2>2, <2>3, <2>5, <3>1, <3>2 DEF Higher
  <2> QED
    BY <2>4, <2>5
<1> QED
  BY <1>7, <1>8, <1>9, <1>10, <1>11, <1>12 DEF RangesInv

LEMMA HourPassesKeeps ==
  ASSUME RangesInv, HourPasses
  PROVE  RangesInv'
<1> DEFINE next   == (hour + 1) % 24
           starts == {s \in Ranged : next \in Openings(s)}
<1>1. /\ hour' = next /\ unclosed' = unclosed + 1
      /\ past' = [a \in 0 .. 24 |-> IF a = 0 THEN 0 ELSE past[a - 1]]
      /\ seen' = [s \in Ranged |-> IF s \in starts THEN 0 ELSE seen[s]]
      /\ shown' = [s \in Ranged |-> IF s \in starts THEN 0 ELSE shown[s]]
      /\ settled' = {s \in settled : next \notin BarHours(s) \cup TickHours(s)}
      /\ UNCHANGED <<summer, highs>>
  BY DEF HourPasses
<1>2. /\ RangesTypeOK /\ hour \in 0 .. 23 /\ past \in [0 .. 24 -> Nat]
      /\ \A s \in Ranged : highs[s] \in Nat /\ seen[s] \in Nat /\ shown[s] \in Nat
      /\ unclosed \in Nat
  BY Types DEF RangesInv, RangesTypeOK
<1>3. \A s \in Ranged :
        /\ BarHours(s)' = BarHours(s) /\ TickHours(s)' = TickHours(s)
        /\ BarFrom(s)' = BarFrom(s) /\ TickFrom(s)' = TickFrom(s)
        /\ s \in starts => Window(s)' = {0}
        /\ s \notin starts =>
             /\ \A a \in Window(s)' : a = 0 \/ a - 1 \in Window(s)
             /\ \A a \in Window(s) : a + 1 \in Window(s)'
  <2>1. hour' = (hour + 1) % 24 /\ summer' = summer
    BY <1>1
  <2> QED
    BY <1>2, <2>1, WindowAges
<1> HIDE DEF starts
<1>4. RangesTypeOK'
  <2>1. hour' \in 0 .. 23 /\ unclosed' \in Nat
    BY <1>1, <1>2
  <2>2. past' \in [0 .. 24 -> Bid \cup {0}]
    <3>1. \A a \in 0 .. 24 : a # 0 => a - 1 \in 0 .. 24
      OBVIOUS
    <3>2. \A a \in 0 .. 24 : past[a] \in Bid \cup {0}
      BY <1>2 DEF RangesTypeOK
    <3> QED
      BY <1>1, <3>1, <3>2
  <2>3. seen' \in [Ranged -> Bid \cup {0}] /\ shown' \in [Ranged -> Bid \cup {0}]
    BY <1>1 DEF RangesInv, RangesTypeOK
  <2> QED
    BY <1>1, <2>1, <2>2, <2>3 DEF RangesInv, RangesTypeOK
<1>5. SeenInWindow'
  <2> SUFFICES ASSUME NEW s \in Ranged
               PROVE  /\ \A a \in Window(s)' : past'[a] <= seen'[s]
                      /\ seen'[s] # 0 => \E a \in Window(s)' : past'[a] = seen'[s]
    BY DEF SeenInWindow
  <2>1. Window(s) \subseteq 0 .. 23 /\ Window(s)' \subseteq 0 .. 23
    <3>1. Window(s) \subseteq 0 .. 23
      BY <1>2, WindowInDay
    <3>2. BarFrom(s) \in 0 .. 13 /\ hour' \in 0 .. 23
      BY <1>4, SessionHours DEF RangesTypeOK
    <3>3. Window(s)' \subseteq 0 .. 23
      <4>1. CASE s \in starts
        BY <1>3, <4>1
      <4>2. CASE s \notin starts
        <5>1. CASE hour' \in BarHours(s)'
          <6>1. Window(s)' = 0 .. hour' - BarFrom(s)
            BY <1>3, <5>1 DEF Window
          <6> DEFINE lo == BarFrom(s)
          <6> HIDE DEF lo
          <6>2. lo \in 0 .. 13 /\ Window(s)' = 0 .. hour' - lo
            BY <3>2, <6>1 DEF lo
          <6>3. \A h \in 0 .. 23 : 0 .. h - lo \subseteq 0 .. 23
            BY <6>2
          <6> QED
            BY <3>2, <6>2, <6>3
        <5>2. CASE hour' \notin BarHours(s)'
          BY <5>2 DEF Window
        <5> QED
          BY <5>1, <5>2
      <4> QED
        BY <4>1, <4>2
    <3> QED
      BY <3>1, <3>3
  <2>2. /\ \A a \in Window(s) : past[a] <= seen[s]
        /\ seen[s] # 0 => \E a \in Window(s) : past[a] = seen[s]
    BY DEF RangesInv, SeenInWindow
  <2>3. past'[0] = 0 /\ \A a \in 1 .. 24 : past'[a] = past[a - 1]
    BY <1>1
  <2>4. CASE s \in starts
    BY <1>1, <1>3, <2>3, <2>4
  <2>5. CASE s \notin starts
    <3>1. seen'[s] = seen[s] /\ seen[s] \in Nat
      BY <1>1, <1>2, <2>5
    <3>2. ASSUME NEW a \in Window(s)' PROVE past'[a] <= seen[s]
      <4>1. CASE a = 0
        BY <2>3, <3>1, <4>1
      <4>2. CASE a # 0
        <5>1. a - 1 \in Window(s) /\ a \in 1 .. 24
          BY <1>3, <2>1, <2>5, <4>2
        <5> QED
          BY <2>2, <2>3, <5>1
      <4> QED
        BY <4>1, <4>2
    <3>3. ASSUME seen[s] # 0 PROVE \E a \in Window(s)' : past'[a] = seen[s]
      <4>1. PICK a \in Window(s) : past[a] = seen[s]
        BY <2>2, <3>3
      <4>2. a + 1 \in Window(s)' /\ a \in 0 .. 23
        BY <1>3, <2>1, <2>5
      <4>3. past'[a + 1] = past[a]
        <5>1. a + 1 \in 1 .. 24 /\ (a + 1) - 1 = a
          BY <4>2
        <5> QED
          BY <2>3, <5>1
      <4> QED
        BY <4>1, <4>2, <4>3
    <3> QED
      BY <3>1, <3>2, <3>3
  <2> QED
    BY <2>4, <2>5
<1>6. SettledIsOver'
  BY <1>1, <1>3 DEF RangesInv, SettledIsOver, RangesTypeOK
<1>7. FreshHour'
  BY <1>1 DEF FreshHour
<1>8. ASSUME NEW s \in Ranged, s \notin starts, hour' \in BarHours(s)
      PROVE  hour \in BarHours(s) /\ hour' = hour + 1
  <2> DEFINE lo == BarFrom(s)
             hi == BarTo(s)
  <2>1. lo \in 0 .. 13 /\ hi \in 6 .. 20 /\ BarHours(s) = lo .. hi /\ Openings(s) = {lo}
    BY SessionHours
  <2>2. hour' # lo
    BY <1>1, <1>8, <2>1 DEF starts
  <2>3. hour' = IF hour = 23 THEN 0 ELSE hour + 1
    BY <1>1, <1>2
  <2>4. hour' \in lo .. hi
    BY <1>8, <2>1
  <2> HIDE DEF lo, hi
  <2>5. hour \in 0 .. 23 /\ lo \in 0 .. 13 /\ hi \in 6 .. 20
    BY <1>2, <2>1
  <2>6. hour \in lo .. hi /\ hour' = hour + 1
    BY <2>2, <2>3, <2>4, <2>5
  <2> QED
    BY <2>1, <2>6
<1>9. ShownIsSeen'
  <2> SUFFICES ASSUME NEW s \in Ranged
               PROVE  /\ shown'[s] <= seen'[s]
                      /\ hour' \in BarHours(s) /\ hour' < TickFrom(s) => shown'[s] = 0
    BY <1>3 DEF ShownIsSeen
  <2>1. /\ shown[s] <= seen[s]
        /\ hour \in BarHours(s) /\ hour < TickFrom(s) => shown[s] = 0
    BY DEF RangesInv, ShownIsSeen
  <2>2. CASE s \in starts
    BY <1>1, <2>2
  <2>3. CASE s \notin starts
    <3>1. shown'[s] = shown[s] /\ seen'[s] = seen[s]
      BY <1>1, <2>3
    <3>2. ASSUME hour' \in BarHours(s), hour' < TickFrom(s) PROVE shown[s] = 0
      <4>1. hour \in BarHours(s) /\ hour' = hour + 1
        BY <1>8, <2>3, <3>2
      <4>2. TickFrom(s) \in 0 .. 16
        BY SessionHours
      <4> DEFINE from == TickFrom(s)
      <4>3. hour' < from /\ from \in Nat
        BY <3>2, <4>2
      <4> HIDE DEF from
      <4>4. hour < from
        BY <1>2, <4>1, <4>3
      <4> QED
        BY <2>1, <4>1, <4>4 DEF from
    <3> QED
      BY <2>1, <3>1, <3>2
  <2> QED
    BY <2>2, <2>3
<1>10. RangesCover'
  <2> SUFFICES ASSUME NEW s \in Ranged
               PROVE  /\ s \in settled' /\ seen'[s] # 0 => highs[s] = seen'[s]
                      /\ hour' \in BarHours(s) \cap TickHours(s) => highs[s] >= shown'[s]
    BY <1>1, <1>3 DEF RangesCover
  <2>1. highs[s] \in Nat /\ shown[s] \in Nat
    BY <1>2
  <2>2. s \in settled' /\ seen'[s] # 0 => highs[s] = seen'[s]
    BY <1>1 DEF RangesInv, RangesCover
  <2>3. CASE s \in starts
    BY <1>1, <2>1, <2>2, <2>3
  <2>4. CASE s \notin starts
    <3>1. shown'[s] = shown[s]
      BY <1>1, <2>4
    <3>2. ASSUME hour' \in BarHours(s), hour' \in TickHours(s) PROVE highs[s] >= shown[s]
      <4>1. hour \in BarHours(s) /\ hour' = hour + 1
        BY <1>8, <2>4, <3>2
      <4>2. CASE hour \in TickHours(s)
        BY <4>1, <4>2 DEF RangesInv, RangesCover
      <4>3. CASE hour \notin TickHours(s)
        <5> DEFINE from == TickFrom(s)
                   to   == TickTo(s)
        <5>1. TickHours(s) = from .. to /\ from \in 0 .. 16 /\ to \in 7 .. 20
          BY SessionHours
        <5> HIDE DEF from, to
        <5>2. hour < from
          <6>1. hour' \in from .. to /\ hour \notin from .. to
            BY <3>2, <4>3, <5>1
          <6>2. hour \in Nat
            BY <1>2
          <6>3. from \in Nat /\ to \in Nat
            BY <5>1
          <6> QED
            BY <4>1, <6>1, <6>2, <6>3
        <5>3. shown[s] = 0
          BY <4>1, <5>2 DEF from, RangesInv, ShownIsSeen
        <5> QED
          BY <2>1, <5>3
      <4> QED
        BY <4>2, <4>3
    <3> QED
      BY <2>2, <3>1, <3>2
  <2> QED
    BY <2>3, <2>4
<1> QED
  BY <1>4, <1>5, <1>6, <1>7, <1>9, <1>10 DEF RangesInv

LEMMA RangesInvHolds == RangesSpec => []RangesInv
<1>1. RangesInit => RangesInv
  <2> SUFFICES ASSUME RangesInit PROVE RangesInv
    OBVIOUS
  <2>1. hour \in 0 .. 23 /\ summer \subseteq {"London", "New York"} /\ settled = {}
    BY DEF RangesInit
  <2>2. past \in [0 .. 24 -> Bid \cup {0}] /\ past[0] = 0 /\ \A a \in 1 .. 24 : past[a] = 1
    <3>1. past = [a \in 0 .. 24 |-> IF a = 0 THEN 0 ELSE 1]
      BY DEF RangesInit
    <3>2. 0 \in Bid \cup {0} /\ 1 \in Bid \cup {0}
      BY RangesAssumption
    <3> QED
      BY <3>1, <3>2
  <2>3. \A s \in Ranged : highs[s] = 1 /\ shown[s] = 0
    BY DEF RangesInit
  <2>4. \A s \in Ranged : seen[s] = IF hour \in Openings(s) THEN 0 ELSE 1
    BY DEF RangesInit
  <2>5. RangesTypeOK
    <3>1. highs \in [Ranged -> Bid \cup {0}] /\ shown \in [Ranged -> Bid \cup {0}]
      BY RangesAssumption DEF RangesInit
    <3>2. seen \in [Ranged -> Bid \cup {0}]
      BY RangesAssumption DEF RangesInit
    <3>3. unclosed \in Nat
      BY DEF RangesInit
    <3> QED
      BY <2>1, <2>2, <3>1, <3>2, <3>3 DEF RangesTypeOK
  <2>6. SeenInWindow
    <3> SUFFICES ASSUME NEW s \in Ranged
                 PROVE  /\ \A a \in Window(s) : past[a] <= seen[s]
                        /\ seen[s] # 0 => \E a \in Window(s) : past[a] = seen[s]
      BY DEF SeenInWindow
    <3> DEFINE lo == BarFrom(s)
               hi == BarTo(s)
    <3>1. /\ lo \in 0 .. 13 /\ hi \in 6 .. 20 /\ lo + 5 <= hi
          /\ BarHours(s) = lo .. hi /\ Openings(s) = {lo}
      BY SessionHours
    <3>2. Window(s) \subseteq 0 .. 23 /\ hour \in 0 .. 23
      BY <2>1, <2>5, WindowInDay
    <3>3. Window(s) = IF hour \in lo .. hi THEN 0 .. hour - lo
                      ELSE {a \in 0 .. 23 : (hour - a) % 24 \in lo .. hi}
      BY <3>1 DEF Window, HourOf
    <3> HIDE DEF lo, hi
    <3>4. CASE hour = lo
      <4>1. Window(s) = {0}
        <5>1. lo \in lo .. hi /\ 0 .. lo - lo = {0}
          BY <3>1
        <5> QED
          BY <3>3, <3>4, <5>1
      <4>2. seen[s] = 0
        BY <2>4, <3>1, <3>4
      <4> QED
        BY <2>2, <4>1, <4>2
    <3>5. CASE hour # lo
      <4>1. seen[s] = 1
        BY <2>4, <3>1, <3>5
      <4>2. \E a \in 1 .. 23 : a \in Window(s)
        <5>1. CASE hour \in lo .. hi
          <6>1. 1 \in 0 .. hour - lo
            BY <3>1, <3>2, <3>5, <5>1
          <6> QED
            BY <3>3, <5>1, <6>1
        <5>2. CASE hour \notin lo .. hi
          <6> DEFINE b == IF hour < lo THEN hour - lo + 24 ELSE hour - lo
          <6>1. b \in 1 .. 23 /\ (hour - b = lo \/ hour - b = lo - 24)
            BY <3>1, <3>2, <3>5
          <6>2. \A x \in 0 .. 23 : x % 24 = x /\ (x - 24) % 24 = x
            OBVIOUS
          <6> HIDE DEF b
          <6>3. (hour - b) % 24 = lo
            BY <3>1, <6>1, <6>2
          <6>4. (hour - b) % 24 \in lo .. hi
            BY <3>1, <6>3
          <6>5. b \in Window(s)
            BY <3>3, <5>2, <6>1, <6>4
          <6> QED
            BY <6>1, <6>5
        <5> QED
          BY <5>1, <5>2
      <4>3. \A a \in Window(s) : past[a] = 0 \/ past[a] = 1
        <5>1. \A a \in 0 .. 23 : a = 0 \/ a \in 1 .. 24
          OBVIOUS
        <5> QED
          BY <2>2, <3>2, <5>1
      <4>4. \A a \in Window(s) : past[a] <= seen[s]
        BY <4>1, <4>3
      <4>5. \E a \in Window(s) : past[a] = seen[s]
        <5>1. PICK a \in 1 .. 23 : a \in Window(s)
          BY <4>2
        <5>2. a \in 1 .. 24
          OBVIOUS
        <5> QED
          BY <2>2, <4>1, <5>1, <5>2
      <4> QED
        BY <4>4, <4>5
    <3> QED
      BY <3>4, <3>5
  <2>7. ShownIsSeen
    <3>1. \A s \in Ranged : seen[s] \in {0, 1}
      BY <2>4
    <3> QED
      BY <2>3, <3>1 DEF ShownIsSeen
  <2>8. SettledIsOver /\ FreshHour
    BY <2>1, <2>2 DEF SettledIsOver, FreshHour
  <2>9. RangesCover
    <3>1. \A s \in Ranged : highs[s] >= shown[s]
      BY <2>3
    <3> QED
      BY <2>1, <3>1 DEF RangesCover
  <2> QED
    BY <2>5, <2>6, <2>7, <2>8, <2>9 DEF RangesInv
<1>2. RangesInv /\ [RangesNext]_rangeVars => RangesInv'
  <2> SUFFICES ASSUME RangesInv, [RangesNext]_rangeVars PROVE RangesInv'
    OBVIOUS
  <2>1. CASE \E quote \in Bid, payload \in BOOLEAN : RangeTick(quote, payload)
    BY <2>1, RangeTickKeeps
  <2>2. CASE HourPasses
    BY <2>2, HourPassesKeeps
  <2>3. CASE UNCHANGED rangeVars
    <3>1. UNCHANGED <<hour, summer, past, unclosed, highs, seen, shown, settled>>
      BY <2>3 DEF rangeVars
    <3>2. \A s \in Ranged : /\ BarHours(s)' = BarHours(s) /\ TickHours(s)' = TickHours(s)
                           /\ TickFrom(s)' = TickFrom(s) /\ Window(s)' = Window(s)
      BY <3>1 DEF BarHours, TickHours, BarFrom, TickFrom, LondonOpens, LondonHours, Hours, Opens,
                  Window, HourOf
    <3>3. RangesTypeOK' /\ FreshHour'
      BY <3>1 DEF RangesInv, RangesTypeOK, FreshHour
    <3>4. SeenInWindow'
      BY <3>1, <3>2 DEF RangesInv, SeenInWindow
    <3>5. ShownIsSeen'
      BY <3>1, <3>2 DEF RangesInv, ShownIsSeen
    <3>6. SettledIsOver'
      BY <3>1, <3>2 DEF RangesInv, SettledIsOver, RangesTypeOK
    <3>7. RangesCover'
      BY <3>1, <3>2 DEF RangesInv, RangesCover
    <3> QED
      BY <3>3, <3>4, <3>5, <3>6, <3>7 DEF RangesInv
  <2> QED
    BY <2>1, <2>2, <2>3 DEF RangesNext
<1> QED
  BY <1>1, <1>2, PTL DEF RangesSpec

(* The ranges' variables keep their types: highs are bids that were shown  *)
(* or nothing, for any set of bids.                                        *)
THEOREM RangesTypeCorrect == RangesSpec => []RangesTypeOK
  BY RangesInvHolds, PTL DEF RangesInv

-----------------------------------------------------------------------------
(* The hours that a session has left, from one hour to the next.           *)
LEMMA Countdown ==
  ASSUME NEW h \in 0 .. 23, NEW next, next = (h + 1) % 24, NEW o \in 0 .. 22, NEW len \in 8 .. 9,
         NEW c \in 0 .. 23, c = o + len \/ c = o + len - 24
  PROVE  /\ Left(h, o, c, len) > 1 => Left(next, o, c, len) = Left(h, o, c, len) - 1
         /\ Left(h, o, c, len) = 0 <=>
              ~((o <= h /\ h < o + len) \/ (c < o /\ h < c))
<1>1. next = IF h = 23 THEN 0 ELSE h + 1
  OBVIOUS
<1> QED
  BY <1>1 DEF Left

LEMMA YorkCountdown ==
  ASSUME NEW h \in 0 .. 23, NEW next, next = (h + 1) % 24, NEW o \in 12 .. 13
  PROVE  /\ Left(h, o, o + 8, 9) > 1 =>
              \/ Left(next, o, o + 8, 9) = Left(h, o, o + 8, 9) - 1
              \/ Left(h, o, o + 8, 9) = 2 /\ Left(next, o, o + 8, 9) = 0
         /\ Left(h, o, o + 8, 9) = 0 <=> ~(o <= h /\ h < o + 8)
<1>1. next = IF h = 23 THEN 0 ELSE h + 1
  OBVIOUS
<1> QED
  BY <1>1 DEF Left

(* The part of RangesTold that is about the times.                         *)
TimesTold ==
  \A southern \in BOOLEAN :
    LET left  == Details(hour, southern)
        next == Details((hour + 1) % 24, southern)
    IN  /\ \A place \in DOMAIN left :
             left[place] > 1 =>
               \/ next[place] = left[place] - 1
               \/ place = "York" /\ left[place] = 2 /\ next[place] = 0
        /\ (\A place \in DOMAIN left : left[place] = 0) => hour \in 20 .. 21

LEMMA TimesAreTold ==
  ASSUME hour \in 0 .. 23
  PROVE  TimesTold
<1> SUFFICES ASSUME NEW southern \in BOOLEAN
             PROVE  LET left  == Details(hour, southern)
                        next == Details((hour + 1) % 24, southern)
                    IN  /\ \A place \in DOMAIN left :
                             left[place] > 1 =>
                               \/ next[place] = left[place] - 1
                               \/ place = "York" /\ left[place] = 2 /\ next[place] = 0
                        /\ (\A place \in DOMAIN left : left[place] = 0) => hour \in 20 .. 21
  BY DEF TimesTold
<1> DEFINE next   == (hour + 1) % 24
           sydney == IF southern THEN 21 ELSE 22
           sat(h) == Left(h, sydney, (sydney + 9) % 24, 9)
           tok(h) == Left(h, 0, 9, 9)
           lon(h) == Left(h, LondonOpens, LondonOpens + 8, 8)
           nyc(h) == Left(h, YorkOpens, YorkOpens + 8, 9)
<1>1. \A h : Details(h, southern) = [Sydney |-> sat(h), Tokyo |-> tok(h), London |-> lon(h), York |-> nyc(h)]
  BY DEF Details, LondonOpens, YorkOpens
<1>2. next = (hour + 1) % 24
  OBVIOUS
<1>3. LondonOpens \in {7, 8} /\ YorkOpens \in {12, 13}
  BY DEF Opens, LondonOpens, YorkOpens
<1>4. /\ sat(hour) > 1 => sat(next) = sat(hour) - 1
      /\ sat(hour) = 0 <=> ~((sydney <= hour /\ hour < sydney + 9) \/ hour < sydney - 15)
  <2>1. sydney \in {21, 22} /\ (sydney + 9) % 24 = sydney - 15
    OBVIOUS
  <2> HIDE DEF sydney, next
  <2>2. /\ sydney \in 0 .. 22 /\ 9 \in 8 .. 9 /\ sydney - 15 \in 0 .. 23
        /\ sydney - 15 = sydney + 9 - 24 /\ sydney - 15 < sydney
    BY <2>1
  <2>3. /\ Left(hour, sydney, sydney - 15, 9) > 1 =>
             Left(next, sydney, sydney - 15, 9) = Left(hour, sydney, sydney - 15, 9) - 1
        /\ Left(hour, sydney, sydney - 15, 9) = 0 <=>
             ~((sydney <= hour /\ hour < sydney + 9) \/ (sydney - 15 < sydney /\ hour < sydney - 15))
    BY <1>2, <2>2, Countdown
  <2> QED
    BY <2>1, <2>2, <2>3
<1>5. /\ tok(hour) > 1 => tok(next) = tok(hour) - 1
      /\ tok(hour) = 0 <=> ~(0 <= hour /\ hour < 9)
  <2> HIDE DEF next
  <2>1. 0 \in 0 .. 22 /\ 9 \in 8 .. 9 /\ 9 \in 0 .. 23 /\ 9 = 0 + 9
    OBVIOUS
  <2>2. /\ Left(hour, 0, 9, 9) > 1 => Left(next, 0, 9, 9) = Left(hour, 0, 9, 9) - 1
        /\ Left(hour, 0, 9, 9) = 0 <=> ~((0 <= hour /\ hour < 0 + 9) \/ (9 < 0 /\ hour < 9))
    BY <1>2, <2>1, Countdown
  <2> QED
    BY <2>2
<1>6. /\ lon(hour) > 1 => lon(next) = lon(hour) - 1
      /\ lon(hour) = 0 <=> ~(LondonOpens <= hour /\ hour < LondonOpens + 8)
  <2> HIDE DEF next
  <2>1. /\ LondonOpens \in 0 .. 22 /\ 8 \in 8 .. 9 /\ LondonOpens + 8 \in 0 .. 23
        /\ ~(LondonOpens + 8 < LondonOpens)
    BY <1>3
  <2>2. /\ Left(hour, LondonOpens, LondonOpens + 8, 8) > 1 =>
             Left(next, LondonOpens, LondonOpens + 8, 8) = Left(hour, LondonOpens, LondonOpens + 8, 8) - 1
        /\ Left(hour, LondonOpens, LondonOpens + 8, 8) = 0 <=>
             ~((LondonOpens <= hour /\ hour < LondonOpens + 8)
                 \/ (LondonOpens + 8 < LondonOpens /\ hour < LondonOpens + 8))
    BY <1>2, <2>1, Countdown
  <2> QED
    BY <2>1, <2>2
<1>7. /\ nyc(hour) > 1 =>
           \/ nyc(next) = nyc(hour) - 1
           \/ nyc(hour) = 2 /\ nyc(next) = 0
      /\ nyc(hour) = 0 <=> ~(YorkOpens <= hour /\ hour < YorkOpens + 8)
  <2> HIDE DEF next
  <2>1. YorkOpens \in 12 .. 13
    BY <1>3
  <2> HIDE DEF nyc
  <2>2. /\ Left(hour, YorkOpens, YorkOpens + 8, 9) > 1 =>
             \/ Left(next, YorkOpens, YorkOpens + 8, 9) = Left(hour, YorkOpens, YorkOpens + 8, 9) - 1
             \/ Left(hour, YorkOpens, YorkOpens + 8, 9) = 2 /\ Left(next, YorkOpens, YorkOpens + 8, 9) = 0
        /\ Left(hour, YorkOpens, YorkOpens + 8, 9) = 0 <=> ~(YorkOpens <= hour /\ hour < YorkOpens + 8)
    BY <1>2, <2>1, YorkCountdown
  <2>3. nyc(hour) = Left(hour, YorkOpens, YorkOpens + 8, 9)
        /\ nyc(next) = Left(next, YorkOpens, YorkOpens + 8, 9)
    BY Zenon DEF nyc
  <2> QED
    BY <2>2, <2>3
<1>8. sat(hour) = 0 /\ tok(hour) = 0 /\ lon(hour) = 0 /\ nyc(hour) = 0 => hour \in 20 .. 21
  <2>1. sydney \in {21, 22}
    OBVIOUS
  <2> HIDE DEF sydney, sat, tok, lon, nyc
  <2> QED
    BY <1>3, <1>4, <1>5, <1>6, <1>7, <2>1
<1> HIDE DEF sat, tok, lon, nyc, next
<1> QED
  BY <1>1, <1>2, <1>4, <1>5, <1>6, <1>7, <1>8

(* However ticks, payloads and hours take turns, on any day of any bids:   *)
(* the range of a session that is over is that of its hours, and while it  *)
(* runs its range covers what a payload was made at.                       *)
THEOREM RangesAreTold == RangesSpec => []RangesTold
<1>1. RangesInv => RangesTold
  <2> SUFFICES ASSUME RangesInv PROVE RangesTold
    OBVIOUS
  <2>1. TimesTold
    BY TimesAreTold, Types DEF RangesInv
  <2> QED
    BY <2>1 DEF RangesInv, RangesCover, RangesTold, TimesTold
<1> QED
  BY <1>1, RangesInvHolds, PTL

-----------------------------------------------------------------------------
(* MCEngines: every component keeps its own specification.                 *)

(* Whichever component moves, each takes steps of its own.                 *)
LEMMA EnginesStep ==
  ASSUME [MCNext]_enginesVars
  PROVE  /\ [Next]_vars /\ [GuardNext]_guardVars /\ [FeedNext]_feedVars
         /\ [WatchNext]_watchVars /\ [LevelsNext]_levelVars /\ [TrackerNext]_trackerVars
         /\ [LiquidityNext]_liquidityVars /\ [WorldNext]_worldVars
         /\ [DetectorNext]_detectorVars /\ [PeaksNext]_peakVars /\ [TempoNext]_tempoVars
         /\ [RegimeNext]_regimeVars /\ [ClockNext]_clockVars /\ [RangesNext]_rangeVars
         /\ [StopsNext]_stopVars
<1>1. CASE UNCHANGED enginesVars
  BY <1>1 DEF enginesVars
<1>2. CASE MCNext
  BY <1>2 DEF MCNext
<1> QED
  BY <1>1, <1>2

LEMMA EnginesKeepSpecs ==
  MCSpec =>
    /\ Spec /\ GuardSpec /\ FeedSpec /\ WatchSpec /\ LevelsSpec /\ TrackerSpec
    /\ LiquiditySpec /\ WorldSpec /\ DetectorSpec /\ PeaksSpec /\ TempoSpec /\ RegimeSpec
    /\ ClockSpec /\ RangesSpec /\ StopsSpec
<1>1. MCInit =>
        /\ Init /\ GuardInit /\ FeedInit /\ WatchInit /\ LevelsInit /\ TrackerInit
        /\ LiquidityInit /\ WorldInit /\ DetectorInit /\ PeaksInit /\ TempoInit /\ RegimeInit
        /\ ClockInit /\ RangesInit /\ StopsInit
  BY DEF MCInit
<1> QED
  BY <1>1, EnginesStep, PTL
     DEF MCSpec, Spec, GuardSpec, FeedSpec, WatchSpec, LevelsSpec, TrackerSpec, LiquiditySpec,
         WorldSpec, DetectorSpec, PeaksSpec, TempoSpec, RegimeSpec, ClockSpec, RangesSpec,
         StopsSpec

(* The variables of all components keep their types, for all prices, bars, *)
(* levels, clocks and thresholds that their assumptions allow.             *)
THEOREM EnginesTypeCorrect == MCSpec => []EnginesTypeOK
<1>1. MCSpec =>
        /\ []TypeOK /\ []GuardTypeOK /\ []FeedTypeOK /\ []WatchTypeOK /\ []LevelsTypeOK
        /\ []TrackerTypeOK /\ []LiquidityTypeOK /\ []WorldTypeOK /\ []DetectorTypeOK
        /\ []PeaksTypeOK /\ []TempoTypeOK /\ []RegimeTypeOK /\ []ClockTypeOK /\ []RangesTypeOK
        /\ []StopsTypeOK
  BY EnginesKeepSpecs, EntryTypeCorrect, GuardTypeCorrect, FeedTypeCorrect, WatchTypeCorrect,
     LevelsTypeCorrect, TrackerTypeCorrect, LiquidityTypeCorrect, WorldTypeCorrect,
     DetectorTypeCorrect, PeaksTypeCorrect, TempoTypeCorrect, RegimeTypeCorrect,
     ClockTypeCorrect, RangesTypeCorrect, StopsTypeCorrect
<1>2. /\ TypeOK /\ GuardTypeOK /\ FeedTypeOK /\ WatchTypeOK /\ LevelsTypeOK
      /\ TrackerTypeOK /\ LiquidityTypeOK /\ WorldTypeOK /\ DetectorTypeOK
      /\ PeaksTypeOK /\ TempoTypeOK /\ RegimeTypeOK /\ ClockTypeOK /\ RangesTypeOK
      /\ StopsTypeOK
      => EnginesTypeOK
  BY DEF EnginesTypeOK
<1> QED
  BY <1>1, <1>2, PTL

(* A regime payload tells the truth about the day, whatever the broker's   *)
(* clock, the holidays and the gaps in the bars: of the broker's clock and *)
(* the sessions' ranges at once.                                           *)
THEOREM PayloadsAreTrusted == MCSpec => []PayloadTrusted
<1>1. MCSpec => []ClockTrusted /\ []RangesTold
  BY EnginesKeepSpecs, ClockIsTrusted, RangesAreTold
<1>2. ClockTrusted /\ RangesTold => PayloadTrusted
  BY DEF PayloadTrusted
<1> QED
  BY <1>1, <1>2, PTL
=============================================================================
