CONSTANTS
  me = me
  n2 = n2
  n3 = n3
  n4 = n4
  n5 = n5
  w1 = w1
  w2 = w2
  w3 = w3
  Writes = {w1, w2, w3}
  Endpoints = {me, n2}
  Me = me
  Datacenters = {1}
  Dc <- OneDc
  RF <- Two
  Cases <- Simple
  HintsEnabled = FALSE
  Threshold = 0
  QueueLimit = 1
SPECIFICATION Spec
SYMMETRY Symmetry
INVARIANT TypeOK
INVARIANT AnsweredOnce
INVARIANT BackgroundExact
INVARIANT NobodyLeftThrottled
CHECK_DEADLOCK FALSE
