SPECIFICATION FairSpec
CONSTANTS
  u1 = u1
  u2 = u2
  u3 = u3
  Updates = {u1, u2, u3}
  Columns = {1, 2}
  CellsOf <- MCCellsOf
  IdOf <- MCIdOf
  MaxFaults = 2
INVARIANTS
  TypeOK
  NoUpdateLost
  ReplicasAgree
PROPERTY LocksAreGranted
CHECK_DEADLOCK FALSE
