SPECIFICATION MCSpec
CONSTANTS
  c1 = c1
  c2 = c2
  Loop = Loop
  Clients = {c1, c2}
  EURUSD = EURUSD
  GBPUSD = GBPUSD
  Typo = Typo
  Symbols = {EURUSD, GBPUSD, Typo}
  Good = {EURUSD, GBPUSD}
  Home = EURUSD
  None = None
  LastKind = 2
  MaxSwitches = 1
  MaxFails = 1
  b1 = b1
  t1 = t1
  t2 = t2
  b2 = b2
  Browsers = {b1, b2}
  FirstTab = b1
  Threads = {t1, t2}
  TickThread = t1
  LastDashKind = 2
  Saved = {2}
  Fetched = {1}
  Torn = Torn
  MaxVersion = 2
  MaxReboots = 1
  r1 = r1
  r2 = r2
  r3 = r3
  Requests = {r1, r2, r3}
  NoRequest = NoRequest
  MaxMs = 2
  MaxDrops = 1
  p1 = p1
  p2 = p2
  k1 = k1
  k2 = k2
  Callers = {p1, p2}
  Tickets = {k1, k2}
  Held = {k1}
  Absent = Absent
  MaxCalls = 2
  Trades = {1, 2}
  Hidden = {}
  Deals <- MCDeals
  Bid = 45
  Openings <- MCOpenings
  MinuteBars <- MCBars
  NoBars = NoBars
  Untold = Untold
  MaxLines = 3
  MaxOrders = 2
CHECK_DEADLOCK FALSE
INVARIANTS ServersTypeOK ViewsCurrent AnswersMatch AnswersBacked LogsTell
PROPERTIES SwitchAnswered ClientsCatchUp SessionKept StopAnswered
