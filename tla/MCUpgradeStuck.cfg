SPECIFICATION Spec
CONSTANTS
  Deploying = {"upgrade"}
  Backends = {"sqlite", "postgres"}
  ToolsImport = TRUE
  MaxFaults = 3
  MaxEvents = 2
  FreshBackends = {"sqlite", "postgres"}
  FreshFaults = 3
  Starting = {"listener", "dashboard"}
  SchemaBackends = {"sqlite", "postgres"}
  Versions = {1, 2, 3, 4, 5}
  Indexed = {1}
  Tables = {4}
  Helpers = {2}
  MaxStartStops = 2
  MaxMonth = 4
  Window = 2
  Legacy = {1, 2, 3}
  MonthOf <- LogMonths
  Backfillers = {"o1", "o2"}
  MaxBreaks = 1
  Makers = {"b1", "b2"}
  KeepCopies = 2
  MaxCopies = 4
  MaxLedger = 2
  Restorers = {"o1", "o2"}
  Targets = {"d1", "d2"}
  MaxCutOffs = 3
PROPERTY RecoveryCompletes
CHECK_DEADLOCK FALSE
