SPECIFICATION SpecRecords
CONSTANTS
  Active = {"workflow"}
  a1 = a1
  a2 = a2
  r1 = r1
  r2 = r2
  Alert = {a1}
  Request = {r1, r2}
  Person = {"alice"}
  MaxEvents = 2
  Emitters = {"e1", "e2"}
  Streams = {"k1", "k2"}
  KeysKept = 1
  EmitBackends = {"sqlite", "postgres"}
  MaxAlerts = 3
  MaxFound = 5
  MaxEmitEvents = 3
  Cycles = {"c1", "c2"}
  MaxId = 3
  BatchRows = 2
  MaxSegments = 3
  MaxDamage = 1
  Monitors = {"m1", "m2"}
  Sources = {"s1"}
  MaxSilence = 2
  MaxLag = 1
  MaxNow = 6
  MaxMonEvents = 1
  MaxFrame = 2
  MaxDigits = 2
  MaxChunk = 3
  MaxStream = 6
  MaxGen = 2
  MaxLines = 2
  MaxRestarts = 2
  Senders = {"t1", "t2"}
  MaxRows = 2
  MaxConns = 2
  MaxRelayed = 3
  MaxEntries = 5
  SaveEvery = 2
  MaxEnds = 2
  Channels = {1, 2}
  BatchSize = 2
  MaxRecords = 3
  MaxOutages = 2
  Jobs = {"j1", "j2"}
  FieldBackends = {"sqlite", "postgres"}
  MaxLogs = 2
  BatchLogs = 1
  MaxPatterns = 2
  MaxRuns = 1
INVARIANT NeverForced
CHECK_DEADLOCK FALSE
