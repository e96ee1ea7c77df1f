SPECIFICATION FairPipeSpec
CONSTANTS
  Levels = 3
  MaxFanIn = 1
  MaxRows = 8
  Keys = {1, 2}
INVARIANTS
  NothingLost
  HigherIsOlder
  CarryEnds
PROPERTIES
  CascadeEnds
  ImplementsSorting
CHECK_DEADLOCK FALSE
