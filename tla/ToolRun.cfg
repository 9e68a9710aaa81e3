SPECIFICATION FairSpec
CONSTANTS
  Backends = 2
  Retries = 1
  MaxFaults = 1
INVARIANTS
  ProcessesAreHeld
PROPERTIES
  RevocationEndsWithAttempt
  RunSettles
