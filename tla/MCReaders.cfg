CONSTANTS
  Queriers = {q1, q2}
  ShardReaders = {s1}
  TableOf <- OneTable
  Count = 2
  Memory = 2
  MaxQueue = 2
  MaxUnits = 1
  MaxIds = 4
SPECIFICATION FairSpec
INVARIANTS
  NoInactiveWhileWaiting
  WaitersCannotProceed
  ResourcesAddUp
  EntriesAreRegistered
PROPERTIES
  AdmittedInOrder
  EveryWaiterServed
CHECK_DEADLOCK FALSE
