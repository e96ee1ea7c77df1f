SPECIFICATION Spec
CONSTANTS
  Tasks = {t1, t2, t3}
  Sizes = {1, 2}
  Limit = 3
  Targets = {2, 5}
  Resident = {0, 1, 3}
SYMMETRY TaskSymmetry
INVARIANTS
  LedgerExact
  PeakExact
PROPERTIES
  GrantIsFresh
  ImplementsLedger
CHECK_DEADLOCK FALSE
