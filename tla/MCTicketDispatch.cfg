SPECIFICATION TicketFairSpec
CONSTANTS
  p1 = p1
  p2 = p2
  ticket = ticket
  NoOwner = NoOwner
  Proc = {p1, p2}
  Job = {ticket}
  MCTTLValue = 2
  MCCycleValue = 2
  TTL <- MCTTL
  MaxCycle <- MCMaxCycle
  Skew = 0
  MaxTime = 4
  MaxAlert = 2
  Qualifying = {1}
  Batch = 2
  MaxAttempts = 2
  PostMax = 1
  OnlyPostsTakeTime = FALSE
  MaxFailures = 2
INVARIANTS TicketTypeOK TicketsAccounted
PROPERTIES SettledStays EveryAlertSettles
CHECK_DEADLOCK FALSE
