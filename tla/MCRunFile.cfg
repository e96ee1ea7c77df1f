SPECIFICATION Spec
CONSTANTS
  Readers = {r1, r2}
  Sizes = {1, 2, 3, 4}
  Weights = {1, 2}
  MaxLen = 2
  Limit = 3
  MaxRows = 3
SYMMETRY ReaderSymmetry
INVARIANTS
  RowsExact
  NoShortRead
  RunComplete
CHECK_DEADLOCK FALSE
