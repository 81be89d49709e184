SPECIFICATION TicketSpec
CONSTANTS
  p1 = p1
  p2 = p2
  ticket = ticket
  NoOwner = NoOwner
  Proc = {p1, p2}
  Job = {ticket}
  MCTTLValue = 4
  MCCycleValue = 5
  TTL <- MCTTL
  MaxCycle <- MCMaxCycle
  Skew = 0
  MaxTime = 6
  MaxAlert = 5
  Qualifying = {1, 2, 3, 4, 5}
  Batch = 5
  MaxAttempts = 3
  PostMax = 1
  OnlyPostsTakeTime = TRUE
  MaxFailures = 0
INVARIANT OneSenderPerAlert
CHECK_DEADLOCK FALSE
