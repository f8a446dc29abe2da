SPECIFICATION Spec
CONSTANTS
  Selections <- McSelections
  BackupNames <- McBackupNames
  MaxNode = 2
  Retries = 1
  MaxRecords = 2
  MaxHeld = 1
  MaxRequests = 4
INVARIANTS
  TypeOK
  CompleteIsOwn
  LagBounded
  SnapshotWhole
PROPERTIES
  Ended
CHECK_DEADLOCK FALSE
