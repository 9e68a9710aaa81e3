SPECIFICATION SuiteSpec
CONSTANTS
  Hosts = {h, g}
  Home = h
  Requests = {u1}
  MaxTime = 1
  MaxConsents = 2
  MaxScans = 1
  Catalog = {"t1"}
  Chain <- ChainOf
  Keyed = {"t1"}
  Askers = {"u1", "u2"}
  TTL = 1
  MaxFlips = 1
  Tools = {"t1", "t2"}
  Pinned = {"t1"}
  Workers = {"w1", "w2"}
  MaxOps = 3
  MaxFaults = 2
  Proxied = {"f1"}
  Rules <- ProxyRules
  MaxRules = 2
  Width = 3
  MaxRange = 4
  Caps = {0, 1, 3}
  Seeds = {"up", "down"}
  Shuffle <- ShuffleOf
  MaxRuns = 3
  Size = 3
  Builtin = {1}
  Terms = {2}
  MaxMatches = 3
  Artifacts = {1, 3, 6, 7}
  Flows = {2, 5}
  None = none
  Scans = {"s1", "s2"}
  MaxBuilds = 2
  Jobs = {"j1"}
  MaxBlock = 2
  MaxRows = 1
  MaxObservations = 2
  Runs = {1, 2}
  Prints = {"f", "g"}
  MaxWrites = 4
  Pages = {"p1", "p2", "p3"}
  First = "p1"
  MaxPages = 3
  Findings = {"f", "g"}
  Scores = {1}
  MaxSeen = 2
  MaxVerified = 1
  Targets = {"a", "b"}
  Ids = {"h1"}
  MaxLearned = 2
  Users = {"u1", "u2"}
  MaxSteps = 4
INVARIANTS
  AuthorizedOnly
  PlanWasTrue
  ReadyIsWhole
  CapturedWasSent
  ProbesAreAccounted
  NoMatchStaysWhole
  VerifiedIsExact
  BundlesResolve
  AuditIsWitnessed
  ReportListsItsCases
  HistoryReachesItsEnd
  ReportsAreWhole
  MemoryIsJoined
PROPERTIES
  WorkflowIsKept
\* Every part stops at its bounds.
CHECK_DEADLOCK FALSE
