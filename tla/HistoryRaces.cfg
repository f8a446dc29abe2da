SPECIFICATION Spec
CONSTANTS
  j1 = j1
  j2 = j2
  c1 = c1
  c2 = c2
  t1 = t1
  t2 = t2
  NoJob = NoJob
  Job = {j1, j2}
  Client = {c1, c2}
  Thread = {t1, t2}
  First <- McFirst
  End <- McEnd
  ChunkSeconds = 2
  Recorded = {0, 1, 2}
  Storable = {0, 2}
  Losable = {2}
  StoreFaults = FALSE
  MaxRestarts = 0
SYMMETRY Symmetric
INVARIANTS
  OneWorker
  RowsClaimedOnce
  StatusHonest
