SPECIFICATION FairSpec
CONSTANTS
  p1 = p1
  p2 = p2
  ticket = ticket
  NoOwner = NoOwner
  Proc = {p1, p2}
  Job = {ticket}
  MCTTLValue = 2
  MCCycleValue = 1
  TTL <- MCTTL
  MaxCycle <- MCMaxCycle
  Skew = 1
  MaxTime = 5
INVARIANTS TypeOK LeaseLag
PROPERTIES ImplementsJobMutex TakeOver
CHECK_DEADLOCK FALSE
