SPECIFICATION Spec
CONSTANTS
  Threads = {t1, t2, t3}
  Events = {a, b}
  None = none
  Garbage = garbage
  MaxRecords = 4
  MaxFaults = 3
INVARIANT
  AckedIsInChain
