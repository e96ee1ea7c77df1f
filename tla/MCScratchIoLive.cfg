SPECIFICATION FairSpec
CONSTANTS
  sort = sort
  replay = replay
  SortOps = {s1}
  ReplayOps = {r1}
  Owners <- MCOwners
  Sorts <- MCSorts
  Ops <- MCOps
  scopeOf <- MCScopeOf
  Permits = 1
PROPERTIES
  DroppedIsCleaned
  QueueServed
CHECK_DEADLOCK FALSE
