------------------------------ MODULE MCEngines ------------------------------
(* What the daemon works with besides its threads, one component in each   *)
(* behaviour: part names the one that moves, and all the others stand      *)
(* still.  They share no state that these modules keep, so that one run    *)
(* checks what a run of each would.                                        *)
EXTENDS EntryMachine, RiskGuard, TickFeed, TradeWatch, PriceLevels, LevelTracker,
        Liquidity, LiveWorld, EventDetector, Peaks, Tempo, MarketRegime, BrokerClock,
        SessionRanges, OrderStops

VARIABLE part
enginesVars == <<part, vars, guardVars, feedVars, watchVars, levelVars, trackerVars,
                 liquidityVars, worldVars, detectorVars, peakVars, tempoVars, regimeVars,
                 clockVars, rangeVars, stopVars>>

(* Prices in tenths of a pip, on either side of both thresholds; times in  *)
(* units of 5 seconds, so that a step of 2 or more is a gap.               *)
MCPrice == {-51, -4, 0, 4, 51}

(* Of an opening equity of 1000, 960 is within both limits, 951 beyond the *)
(* amount only and 903 beyond both; of 951, 903 is beyond the percentage   *)
(* only.                                                                   *)
MCEquity == {903, 951, 960, 1000}

MCPips == {-3, 11}

(* The broker's clock behind the host's, and so far ahead of it that a     *)
(* trade just opened seems older than the stagnation limit.                *)
MCSkews == {-2, 3}

MCHand == {-15, 5, 100}
MCReach == {-9, -4, -1, 0, 2, 4, 9}
MCKind == <<"h4", "swing", "high">>
MCPlaces == {-12, -6, -4, -1, 1, 3, 6}
MCDistances == {-90, -60, -30, -5, 5, 30, 60, 90}
MCReadings == [trap : BOOLEAN, decays : BOOLEAN]
MCQuietReadings == [trap : {FALSE}, decays : {FALSE}]

Bar(open, high, low, close) == [open |-> open, high |-> high, low |-> low, close |-> close]

(* A bar that pierces both swings and closes falling, one that breaks the  *)
(* lower swing, one that rises, and one that ends far from all levels.     *)
MCBars == {Bar(95, 110, 90, 96), Bar(98, 99, 80, 85), Bar(104, 108, 90, 106),
           Bar(100, 101, 20, 30)}
MCLists == {[highs |-> {100}, lows |-> {102}, latest |-> {100, 102}, keys |-> {60, 94}]}
MCMoments ==
  {[asian |-> FALSE, safe |-> TRUE, hours |-> TRUE],
   [asian |-> TRUE, safe |-> TRUE, hours |-> TRUE],
   [asian |-> FALSE, safe |-> FALSE, hours |-> FALSE]}

Move(rank, score, path, ratio, eff) ==
  [rank |-> rank, score |-> score, path |-> path, ratio |-> ratio, eff |-> eff]

(* A fast straight move, a slow tight one, one that goes nowhere for its   *)
(* path, one of no class, and a fast one that turned back.                 *)
MCMoves == {Move(95, 10, 10, 70, 70), Move(50, -8, 40, 10, 10), Move(50, 22, 40, 10, 20),
            Move(50, 16, 40, 50, 20), Move(95, 22, 40, 20, 10)}

Quarter(ema, move, eff, rank, ratio, fading, rising, tight) ==
  [ema |-> ema, class |-> move, eff |-> eff, rank |-> rank, ratio |-> ratio,
   fading |-> fading, skewed |-> FALSE, rising |-> rising, surge |-> rising,
   unusual |-> rising, squeeze |-> tight, shrinking |-> tight, slow |-> tight]

(* An expansion, a compression, an exhaustion, and a fading market in      *)
(* which a reversal leads only while exhaustion rules.                     *)
MCExpansion == Quarter(8, "IMPULSE", 60, 95, 80, FALSE, TRUE, FALSE)
MCQuarters == {MCExpansion, Quarter(1, "COMPRESSION", 20, 20, 20, FALSE, FALSE, TRUE),
               Quarter(20, "EXHAUSTION", 20, 85, 40, TRUE, FALSE, FALSE),
               Quarter(20, "NEUTRAL", 40, 80, 10, TRUE, FALSE, FALSE)}

(* A component that stands still starts in one state only.                 *)
MCInit ==
  /\ part \in {"entry", "guard", "feed", "watch", "levels", "tracker", "liquidity",
             "world", "detector", "peaks", "tempo", "regime", "clock", "ranges", "stops"}
  /\ Init
  /\ GuardInit /\ (part # "guard" => equity = 1000)
  /\ FeedInit /\ (part # "feed" => \A p \in Period : bar[p] = NoBar)
  /\ WatchInit
  /\ LevelsInit /\ (part # "levels" => mid = 0 /\ listed = {})
  /\ TrackerInit /\ (part # "tracker" => peak = 1)
  /\ LiquidityInit /\ (part # "liquidity" => spot = 5 /\ ~major)
  /\ WorldInit
  /\ (part # "world" => /\ session = "asian" /\ spread = 5 /\ atr = 0 /\ trend = 0
                        /\ regime = "ranging" /\ confidence = 100 /\ quality = 0
                        /\ volatility = "low")
  /\ DetectorInit
  /\ PeaksInit /\ (part # "peaks" => variant = "base")
  /\ TempoInit
  /\ RegimeInit /\ (part # "regime" => lastReading = MCExpansion)
  /\ ClockInit /\ (part # "clock" => zone = 2 /\ idle = 0)
  /\ RangesInit /\ (part # "ranges" => hour = 0 /\ summer = {})
  /\ StopsInit /\ (part # "stops" => quoted = 1000 /\ width = 6 /\ sizing = "dry_run")

MCNext ==
  /\ UNCHANGED part
  /\ part # "entry" => UNCHANGED vars
  /\ part # "guard" => UNCHANGED guardVars
  /\ part # "feed" => UNCHANGED feedVars
  /\ part # "watch" => UNCHANGED watchVars
  /\ part # "levels" => UNCHANGED levelVars
  /\ part # "tracker" => UNCHANGED trackerVars
  /\ part # "liquidity" => UNCHANGED liquidityVars
  /\ part # "world" => UNCHANGED worldVars
  /\ part # "detector" => UNCHANGED detectorVars
  /\ part # "peaks" => UNCHANGED peakVars
  /\ part # "tempo" => UNCHANGED tempoVars
  /\ part # "regime" => UNCHANGED regimeVars
  /\ part # "clock" => UNCHANGED clockVars
  /\ part # "ranges" => UNCHANGED rangeVars
  /\ part # "stops" => UNCHANGED stopVars
  /\ \/ part = "entry" /\ Next
     \/ part = "guard" /\ GuardNext
     \/ part = "feed" /\ FeedNext
     \/ part = "watch" /\ WatchNext
     \/ part = "levels" /\ LevelsNext
     \/ part = "tracker" /\ TrackerNext
     \/ part = "liquidity" /\ LiquidityNext
     \/ part = "world" /\ WorldNext
     \/ part = "detector" /\ DetectorNext
     \/ part = "peaks" /\ PeaksNext
     \/ part = "tempo" /\ TempoNext
     \/ part = "regime" /\ RegimeNext
     \/ part = "clock" /\ ClockNext
     \/ part = "ranges" /\ RangesNext
     \/ part = "stops" /\ StopsNext

MCSpec ==
  /\ MCInit /\ [][MCNext]_enginesVars
  /\ (part = "feed") => FeedFairness

(* The variables of all components stay in their types.                    *)
EnginesTypeOK ==
  TypeOK /\ GuardTypeOK /\ FeedTypeOK /\ WatchTypeOK /\ LevelsTypeOK /\ TrackerTypeOK
  /\ LiquidityTypeOK /\ WorldTypeOK /\ DetectorTypeOK /\ PeaksTypeOK /\ TempoTypeOK
  /\ RegimeTypeOK /\ ClockTypeOK /\ RangesTypeOK /\ StopsTypeOK

(* What a regime payload tells of the day: whether the market is closed    *)
(* and until when, and the ranges and times of the sessions.               *)
PayloadTrusted == ClockTrusted /\ RangesTold
=============================================================================
