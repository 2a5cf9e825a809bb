CONSTANTS
  na = na
  nb = nb
  nc = nc
  nd = nd
  m1 = m1
  m2 = m2
  b1 = b1
  Nodes = {na, nb, nc, nd}
  Me = na
  Rack <- MCRack
  Batches = {b1}
  Mutations = {m1, m2}
  BatchOf <- MCBatchOf
  Owners <- MCOwners
  BlockFor = 1
  MaxFaults = 1

SPECIFICATION FairSpec

INVARIANTS
  BatchInv
  RemovedWhenWhole
  PartialIsRecoverable

PROPERTY LogIsEmptied

CHECK_DEADLOCK FALSE
