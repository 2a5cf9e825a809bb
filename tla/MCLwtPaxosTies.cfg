CONSTANTS
  a1 = a1
  a2 = a2
  a3 = a3
  c1 = c1
  c2 = c2
  Natural = {a1, a2, a3}
  Pending = {}
  Coordinators = {c1, c2}
  Views = {{a1, a2}, {a1, a3}, {a2, a3}, {a1, a2, a3}}
  Nonces = {1, 2}
  MaxTs = 1
  LearnBlockFor = 1
SPECIFICATION Spec
SYMMETRY Symmetry
INVARIANT OneProposalPerTimestamp
CHECK_DEADLOCK FALSE
