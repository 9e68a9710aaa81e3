SPECIFICATION SuiteSpec
CONSTANTS
  Drivers = {d1, d2}
  NStages = 3
  None = none
  MaxFaults = 2
INVARIANTS
  CommitsAreAccounted
PROPERTIES
  ImplementsStagedWork
  WorkEnds
