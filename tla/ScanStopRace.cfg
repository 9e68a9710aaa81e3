SPECIFICATION FairSpec
CONSTANTS
  stop1 = stop1
  Stops <- OneStop
  Limit = 2
  MaxWork = 1
  MaxFaults = 0
  MaxDrops = 0
PROPERTIES
  StoppedScanSettles
