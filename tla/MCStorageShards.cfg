\* One table on two shards, and a single write.
CONSTANTS
  Writes = {w1}
  Tables = {t1}
  Shards = {0, 1}
  SyncWrites = {}
  PromptCleanup = TRUE
  MaxSegments = 2
  MaxCrashes = 1
  MaxTruncations = 1
SPECIFICATION Spec
INVARIANT TruncatedStaysGone
CHECK_DEADLOCK FALSE
