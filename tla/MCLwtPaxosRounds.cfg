CONSTANTS
  a1 = a1
  p1 = p1
  c1 = c1
  c2 = c2
  Natural = {a1}
  Pending = {p1}
  Coordinators = {c1, c2}
  Views = {{a1, p1}}
  Nonces = {1}
  MaxTs = 3
  LearnBlockFor = 1
SPECIFICATION Spec
SYMMETRY Symmetry
INVARIANTS
  NoLostUpdate
  AnswersAreCurrent
CHECK_DEADLOCK FALSE
