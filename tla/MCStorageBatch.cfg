SPECIFICATION FairSpec
CONSTANTS
  w1 = w1
  w2 = w2
  Worker = {w1, w2}
  Config <- MCConfigs
  Threshold = 2
  MaxEvent = 5
  MaxErrors = 2
INVARIANTS TypeOK PendingCovers HitsUsedOnce EvidenceStored
PROPERTY TailFlushed
CHECK_DEADLOCK FALSE
