CONSTANTS
  MaxHints = 3
  MaxFaults = 2

SPECIFICATION FairSpec

INVARIANTS
  HintsInv
  DrainIsComplete

PROPERTIES
  NoHintForgotten
  MappingsAreFound
  HintsAreSent

CHECK_DEADLOCK FALSE
