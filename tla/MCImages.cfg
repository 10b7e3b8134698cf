\* Two photos, two captures at a time and three in all.
SPECIFICATION Spec
CONSTANTS
  Photos = {p1, p2}
  Requests = {r1, r2}
  MaxCaptures = 3
  None = None
INVARIANTS
  TypeOK
  RowsHaveObjects
  OnlyLateFailuresStrand
PROPERTIES
  ReconciliationIsExact
SYMMETRY Symmetry
CHECK_DEADLOCK FALSE
