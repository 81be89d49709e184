SPECIFICATION SpecServices
CONSTANTS
  Active = {"triage"}
  Schedulers = {"d1", "d2"}
  Findings = {"f1", "f2"}
  MaxReports = 2
  MaxChanges = 1
  MaxStops = 1
  Triagers = {"w1", "w2"}
  TriageAlerts = {1, 2, 3}
  TwinOf <- Twins
  TooMinor = {3}
  NoSource = {1}
  DedupGroups = TRUE
  TriageBackends = {"sqlite", "postgres"}
  MaxAttempts = 2
  MaxAdmin = 1
  MaxTrouble = 1
  Readers = {"r1", "r2"}
  Records = {1, 2}
  MaxVersion <- VersionsOf
  PageSize = 1
  MaxAborts = 1
  NoReader = "none"
  Fetchers = {"p1", "p2"}
  Indicators = {"i1", "bad"}
  FeedItems <- FeedTexts
  Rejected = {"bad"}
  MaxEdits = 1
  MaxSlips = 1
PROPERTY EveryAlertTriaged
CHECK_DEADLOCK FALSE
