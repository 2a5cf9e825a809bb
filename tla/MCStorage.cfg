CONSTANTS
  Writes = {w1, w2}
  Tables = {t1, t2}
  Shards = {0}
  SyncWrites = {w1}
  PromptCleanup = TRUE
  MaxSegments = 2
  MaxCrashes = 2
  MaxTruncations = 1
SPECIFICATION Spec
SYMMETRY Symmetry
INVARIANTS
  DirtyCountsHandles
  StorageInv
PROPERTY
  Durable
CHECK_DEADLOCK FALSE
