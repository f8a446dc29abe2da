SPECIFICATION Spec
CONSTANTS
  Offered <- AllFlows
  Ignored = {"general", "uplink", "channels", "slot", "network"}
  Disturbs <- Coupled
CHECK_DEADLOCK FALSE
INVARIANTS
  TypeOK
  SuccessMeansConfigured
  FailureIsUndone
PROPERTIES
  ConfirmedNodeOnly
