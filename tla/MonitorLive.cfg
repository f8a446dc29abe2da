SPECIFICATION Spec
CONSTANTS
  c1 = c1
  c2 = c2
  t1 = t1
  t2 = t2
  Caller = {c1, c2}
  Thread = {t1, t2}
  MeasureEvery = 2
  HealthEvery = 2
  Retry = 2
  JoinSeconds = 1
  MissingAfter = 2
  Retention = 2
  NoSample = NoSample
  MaxFaults = 1
  MaxRestarts = 1
INVARIANTS
  OneMonitor
PROPERTIES
  DisabledStops
  MissingFollows
