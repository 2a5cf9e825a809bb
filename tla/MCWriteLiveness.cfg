CONSTANTS
  me = me
  n2 = n2
  n3 = n3
  n4 = n4
  n5 = n5
  w1 = w1
  w2 = w2
  Writes = {w1, w2}
  Endpoints = {me, n2}
  Me = me
  Datacenters = {1}
  Dc <- OneDc
  RF <- Two
  Cases <- Simple
  HintsEnabled = TRUE
  Threshold = 0
  QueueLimit = 0
SPECIFICATION FairSpec
PROPERTY EveryWriteAnswered
CHECK_DEADLOCK FALSE
