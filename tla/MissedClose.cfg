SPECIFICATION FairSpec
CONSTANTS
  Side = {"BUY"}
  NoSide = ""
  Ticket = {t1}
  NoTicket = none
  QueueCap = 1
  EntryCooldown = 1
  WinCooldown = 1
  LossCloseCooldown = 2
  LossCooldown = 1
  Bridge = FALSE
  DryRun = TRUE
  Faults = FALSE
  MaxRestarts = 0
CHECK_DEADLOCK FALSE
PROPERTY ClosedDetected
