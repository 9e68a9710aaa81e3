SPECIFICATION Spec
CONSTANTS
  Targets = {a, b}
  Ids = {h1}
  MaxLearned = 2
INVARIANT
  StoredHypothesisInScope
\* Every analysis comes to its end.
CHECK_DEADLOCK FALSE
