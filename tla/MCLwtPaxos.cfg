CONSTANTS
  a1 = a1
  a2 = a2
  a3 = a3
  c1 = c1
  c2 = c2
  Natural = {a1, a2, a3}
  Pending = {}
  Coordinators = {c1, c2}
  Views = {{a1, a2, a3}}
  Nonces = {1}
  MaxTs = 2
  LearnBlockFor = 2
SPECIFICATION Spec
SYMMETRY Symmetry
INVARIANTS
  TypeOK
  NoLostUpdate
  AnswersAreCurrent
  OnlyChosenIsVisible
  RefusedNeverChosen
  AcceptedIsRemembered
CHECK_DEADLOCK FALSE
