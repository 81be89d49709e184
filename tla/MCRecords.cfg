SPECIFICATION SpecRecords
CONSTANTS
  Active = {"workflow", "emit", "telemetry", "archive", "frames", "tail", "relay",
            "journal", "windows", "fields"}
  a1 = a1
  a2 = a2
  r1 = r1
  r2 = r2
  Alert = {a1, a2}
  Request = {r1, r2}
  Person = {"alice"}
  MaxEvents = 2
  Emitters = {r1, r2}
  Streams = {"k1", "k2"}
  KeysKept = 1
  EmitBackends = {"sqlite", "postgres"}
  MaxAlerts = 3
  MaxFound = 5
  MaxEmitEvents = 3
  Cycles = {r1, r2}
  MaxId = 2
  BatchRows = 2
  MaxSegments = 3
  MaxDamage = 1
  Monitors = {r1, r2}
  Sources = {"s1"}
  MaxSilence = 2
  MaxLag = 1
  MaxNow = 7
  MaxMonEvents = 1
  MaxFrame = 2
  MaxDigits = 2
  MaxChunk = 3
  MaxStream = 6
  MaxGen = 2
  MaxLines = 2
  MaxRestarts = 2
  Senders = {r1, r2}
  MaxRows = 3
  MaxConns = 2
  MaxRelayed = 2
  MaxEntries = 5
  SaveEvery = 2
  MaxEnds = 2
  Channels = {1, 2}
  BatchSize = 2
  MaxRecords = 3
  MaxOutages = 2
  Jobs = {r1, r2}
  FieldBackends = {"sqlite", "postgres"}
  MaxLogs = 2
  BatchLogs = 1
  MaxPatterns = 2
  MaxRuns = 1
INVARIANTS RecordTypes ClosedWasResolved AloneIsTold FindingsAccounted OutagesWarned
INVARIANTS ParsedExactly LinesForwarded RelayHonest
PROPERTY ImplementsEventStore
SYMMETRY Symmetry
CHECK_DEADLOCK FALSE
