SPECIFICATION Spec
CONSTANTS
  Side = {"BUY"}
  NoSide = ""
  Ticket = {t1, t2}
  NoTicket = none
  QueueCap = 1
  EntryCooldown = 1
  WinCooldown = 1
  LossCloseCooldown = 1
  LossCooldown = 1
  Bridge = TRUE
  DryRun = TRUE
  Faults = TRUE
  MaxRestarts = 1
CHECK_DEADLOCK FALSE
SYMMETRY TicketSymmetry
INVARIANTS CooldownRespected DirectedEntries
