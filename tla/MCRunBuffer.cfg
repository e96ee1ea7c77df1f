SPECIFICATION Spec
CONSTANTS
  Sizes = {0, 2, 7, 11}
  RowSize = 1
  RunBytes = 100
  Metadata = 11
  Works = {5, 11}
  Limit = 90
  Headrooms = {0, 30, 60, 200}
  Others = {0, 15, 45}
  FanIn = 2
  SourceBytes = 1
  Dedup = TRUE
INVARIANTS
  BoundedBetweenCalls
  NeverRefusedAlone
PROPERTIES
  ImplementsLedger
CHECK_DEADLOCK FALSE
