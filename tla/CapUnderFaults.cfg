SPECIFICATION Spec
CONSTANTS
  Side = {"BUY"}
  NoSide = ""
  Ticket = {t1, t2}
  NoTicket = none
  QueueCap = 1
  EntryCooldown = 1
  WinCooldown = 1
  LossCloseCooldown = 2
  LossCooldown = 1
  Bridge = TRUE
  DryRun = TRUE
  Faults = TRUE
  MaxRestarts = 0
CHECK_DEADLOCK FALSE
INVARIANT OnePositionPerMagic
