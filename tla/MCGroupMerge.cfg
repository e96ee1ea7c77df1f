SPECIFICATION GroupSpec
CONSTANTS
  Keys = {1, 2}
  SortRows = 5
  MaxFiles = 3
INVARIANT
  GroupKept
CHECK_DEADLOCK FALSE
