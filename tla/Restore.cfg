SPECIFICATION Spec
CONSTANTS
  MaxValue = 2
  Deployed <- McDeployed
  Backups <- McBackups
  Disturbs = {"calibration", "sampling"}
  Validated <- McValidated
  Retries = 1
  MaxPending = 3
INVARIANTS
  RestoredMeansTarget
  OnlyUnackedMayDiffer
  VerifiedBeforeNext
PROPERTIES
  KeepsPromise
  Terminates
CHECK_DEADLOCK FALSE
