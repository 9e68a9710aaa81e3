SPECIFICATION SuiteSpec
CONSTANTS
  Threads = {t1, t2, t3}
  Events = {a, b}
  None = none
  Garbage = garbage
  MaxRecords = 4
  MaxFaults = 3
  Scans = {"s1", "s2"}
  NTools <- ToolsOf
  Capacity = 1
  MaxRaises = 2
  Calls = {"c1", "c2", "c3"}
  Scan <- ScanOf
  Mode <- ModeOf
  Prompts = {"p"}
  NProviders = 2
  Provider <- ProviderAt
  Retries = 1
  Input = 1
  Answers = {1, 2}
  ScanLimit = 4
  DayLimit = 6
  MaxCharges = 3
  Callers = {"c1", "c2"}
  GlobalPolicy <- OfAll
  KeyPolicy <- OfKey
  Policies <- Assigned
  MaxTime = 3
  MaxBuckets = 3
  MaxGrants = 5
  Subscribers = {"all", "tools"}
  Topics = {"tool.started"}
  Matches <- Subscribed
  HeartbeatTopic = "log.heartbeat"
  QueueSize = 2
  MaxEvents = 4
  Workers = {"w1", "w2"}
  Tools = {"t"}
  Sizes = {1, 2}
  Limit = 3
  ToolLimit = 2
  MaxCalls = 4
  Starts = {"p1", "p2"}
  Versions = {1, 2, 3}
  Texts = {1, 2}
  MaxEdits = 1
  MaxRuns = 2
  Secrets = {"k1", "k2"}
  Requests = {"u1", "u2"}
  MaxSaves = 3
  MaxStarts = 2
INVARIANT CeilingsAreHard
\* Every part stops at its bounds.
CHECK_DEADLOCK FALSE
