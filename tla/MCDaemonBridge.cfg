SPECIFICATION PartSpec
CONSTANTS
  Side = {"BUY"}
  NoSide = ""
  Ticket = {t1, t2}
  NoTicket = none
  QueueCap = 1
  EntryCooldown = 2
  WinCooldown = 1
  LossCloseCooldown = 2
  LossCooldown = 1
  Bridge = FALSE
  DryRun = TRUE
  Faults = FALSE
  MaxRestarts = 0
  c1 = c1
  c2 = c2
  Loop = Loop
  Clients = {c1, c2}
  EURUSD = EURUSD
  GBPUSD = GBPUSD
  Typo = Typo
  Symbols = {EURUSD, GBPUSD, Typo}
  Good = {EURUSD, GBPUSD}
  Home = EURUSD
  None = None
  LastKind = 2
  MaxSwitches = 2
  MaxFails = 1
CHECK_DEADLOCK FALSE
SYMMETRY Interchangeable
INVARIANTS
  TypeOK OnePositionPerMagic EntrySpacing FalseCloseOnlyInFlight
  RegistryExact StaleOnItsWay ViewsAgree
PROPERTY DeskImplemented
