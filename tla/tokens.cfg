CONSTANTS
  BASE = BASE
  Treatments = {rtk}
  Series = {s1, s2}
  BaselineWindow = 1
  Contexts = {1, 3}
  Outputs = {0, 1}
  MaxLines = 4
  MaxRuns = 3
  MaxDays = 2
SPECIFICATION Spec
SYMMETRY MCSymmetry
INVARIANTS
  SharesAreExact
  ComparedInFull
PROPERTIES
  RepeatsAddNothing
  PastStays
CHECK_DEADLOCK FALSE
