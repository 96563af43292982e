SPECIFICATION MCSpec
CONSTANTS
  Price <- MCPrice
  Step = {1, 2, 5}
  Timeout = 6
  GapLimit = 1
  AdverseLimit = 50
  TriggerMove = 3
  Equity <- MCEquity
  DrawdownPct = 5
  LossAmount = 49
  Bridge = FALSE
  Faults = TRUE
  SaveFails = FALSE
  MaxDay = 2
  MaxRestarts = 2
  Period = {2, 4}
  Second = 2
  StaleAfter = 2
  Lead = 1
  Weekend = {5, 6}
  Batch = 3
  Market = 110
  InfoSpread = 2
  PointsPerUnit = 100
  MaxTime = 6
  MaxTape = 2
  VolCycle = 3
  Gaps = {1, 4}
  WatchGap = 2
  Pips <- MCPips
  TrendDrawdown = 1
  RangeDrawdown = 2
  Stagnation = 2
  ShiftAge = 1
  Skews <- MCSkews
  MaxTicks = 9
  Kind <- MCKind
  Reach <- MCReach
  MaxVisits = 2
  Places <- MCPlaces
  Pauses = {1, 3}
  GapAfter = 2
  MaxApproach = 2
  OuterZone = 5
  InnerZone = 2
  RejectionConfirm = 5
  PullbackReset = 10
  MaxAttacks = 4
  Distances <- MCDistances
  TickGaps = {1, 6}
  Readings <- MCQuietReadings
  Spreads = {5, 40}
  Ranges = {0, 40, 160}
  Scores = {0, 45, 100}
  Base = 60
  SuppressAsian = TRUE
  Warmup = 2
  ActiveLevels = {100, 104}
  Swings = {100, 102}
  Bids = {100}
  Bars <- MCBars
  Lists <- MCLists
  Moments <- MCMoments
  Atrs = {20}
  ResetMult = 2
  Asian = TRUE
  TestMode = FALSE
  QueueSize = 1
  Mids = {20, 40, 60}
  TickPauses = {1, 3}
  SwingRule = TRUE
  Speeds = {0, 1, 3, 6}
  Lulls = {0, 1, 6, 11}
  Lull = 5
  SpeedWindow = 10
  MoveReadings <- MCMoves
  DecayTicks = 3
  Patience = 5
  FadeTo = 700
  RankAfter = 4
  ScoreAfter = 6
  BacktestMode = FALSE
  BarReadings <- MCQuarters
  Settling = 8
  First = 228
  Latest = 348
  MaxAge = 11
  Unknown = Unknown
  Bid = {1, 2}
  QuietFrom = {0}
  MaxQuiet = 8
  MaxSpikes = 1
  Quotes = {900, 1000, 1100}
  Widths = {6, 100}
  Slippage = {0, 8}
  HourlyRange = {0, 50}
  FallbackRange = 95
  MinStop = 80
  TargetTimes = 3
  Pip = 10
  Budget = {1, 20}
  MaxLot = 24
  UsualLot = 10
  Sizing = {"dry_run", "default", "dynamic"}
  HandStop <- MCHand
  Nothing = Nothing
CHECK_DEADLOCK FALSE
INVARIANT SweepsWait
