SPECIFICATION Spec
CONSTANTS
  j1 = j1
  j2 = j2
  c1 = c1
  c2 = c2
  t1 = t1
  t2 = t2
  NoJob = NoJob
  Job = {j1}
  Client = {c1}
  Thread = {t1}
  First <- McFirst1
  End <- McEnd1
  ChunkSeconds = 2
  Recorded = {0, 1, 2}
  Storable = {0, 2}
  Losable = {2}
  StoreFaults = FALSE
  MaxRestarts = 1
INVARIANTS
  UnfinishedIsResumable
