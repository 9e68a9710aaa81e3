SPECIFICATION FairSpec
CONSTANTS
  passive1 = passive1
  passive2 = passive2
  other = other
  active = active
  stage = stage
  shared = shared
  own = own
  Tasks <- ScanTasks
  Deps <- ScanDeps
  Order <- ScanOrder
  Tools <- ToolKeys
  ToolOf <- ScanToolOf
  Weight <- ScanWeight
  ContinueOnError <- StageOnly
  Stubborn <- OtherAndStage
  GlobalCap = 2
  ToolCap <- OneEach
  MaxCancels = 2
INVARIANTS
  PermitConservation
  VerdictIsSettled
  CancelIsNotLost
PROPERTIES
  RefinesDagExecution
  KeepsItsPromises
