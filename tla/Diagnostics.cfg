SPECIFICATION Spec
CONSTANTS
  Attempts = 2
  Families = 1
  MaxNode = 2
  MaxFaults = 2
  MaxChanges = 1
  MaxLosses = 3
INVARIANTS
  StableVerdict
  CauseSeen
  ReadyWitnessed
CHECK_DEADLOCK FALSE
