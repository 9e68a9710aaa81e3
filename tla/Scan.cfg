SPECIFICATION FairSpec
CONSTANTS
  stop1 = stop1
  Stops <- OneStop
  Limit = 2
  MaxWork = 1
  MaxFaults = 2
  MaxDrops = 1
INVARIANTS
  GapFreeReplay
PROPERTIES
  VerdictIsTheEnd
  EventsArrive
  ScanEnds
\* A request that failed before the authorization was saved leaves nothing to do.
CHECK_DEADLOCK FALSE
