SPECIFICATION Spec
CONSTANTS
  Blocks = 5
  Modulus = 4
  Tries = 5
  EotTries = 4
  Probes = 1
  MaxFaults = 4
  MaxStrays = 3
CHECK_DEADLOCK FALSE
INVARIANTS
  TypeOK
  LeadBounded
  TriesSuffice
PROPERTIES
  TransferEnds
