SPECIFICATION Spec
CONSTANTS
  Contents = {a, b}
  ToolRuns = {t}
  KeyIds = {k1, k2}
  Readers = {r}
  None = none
  MaxFaults = 1
  MaxSeals = 1
  MaxDeletes = 1
SYMMETRY Symmetry
INVARIANTS
  LiveIsReadable
  CustodyIsKept
PROPERTIES
  DeletedIsUnreadable
