SPECIFICATION Spec
CONSTANTS
  c1 = c1
  c2 = c2
  Client = {c1, c2}
  Delivered <- McDelivered
  Value = {0, 1}
  Further = {"sampling"}
  MaxPlans = 2
  MaxCalls = 3
SYMMETRY Symmetry
INVARIANTS
  LatestPlanOnce
  ProfileStays
  ProfileWhole
PROPERTIES
  ChangesAsShown
CHECK_DEADLOCK FALSE
