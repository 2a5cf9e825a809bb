CONSTANTS
  me = me
  n2 = n2
  n3 = n3
  n4 = n4
  n5 = n5
  w1 = w1
  Writes = {w1}
  Endpoints = {me, n2, n3, n4, n5}
  Me = me
  Datacenters = {1, 2}
  Dc <- TwoDcs
  RF <- OneAndThree
  Cases <- AllLevels
  HintsEnabled = TRUE
  Threshold = 1
  QueueLimit = 9
SPECIFICATION Spec
SYMMETRY ReplicaSymmetry
INVARIANT SuccessIsConsistent
INVARIANT FailureIsHopeless
INVARIANT StragglersHinted
INVARIANT CompletesOrTimesOut
CHECK_DEADLOCK FALSE
