SPECIFICATION AlertSpec
CONSTANTS
  n1 = n1
  n2 = n2
  e1 = e1
  e2 = e2
  Node = {n1, n2}
  Evaluator = {e1, e2}
  Tilts = {0, 3}
  Skew <- Apart
  Limit = 3
  RateLimit = 3
  RetentionDays = 1
  MaxRows = 2
  NoRow = NoRow
  MaxTime = 3
SYMMETRY SymmetricEvaluators
INVARIANTS
  AlertsHaveCause
PROPERTIES
  SettlesWhenAlone
