SPECIFICATION Spec
CONSTANTS
  sort = sort
  replay = replay
  SortOps = {s1, s2}
  ReplayOps = {r1, r2}
  Owners <- MCOwners
  Sorts <- MCSorts
  Ops <- MCOps
  scopeOf <- MCScopeOf
  Permits = 1
SYMMETRY OpSymmetry
INVARIANTS
  PermitsConserved
  ClosedIsClean
  ReservedWhilePresent
  CleanerNotStranded
PROPERTIES
  ScopesKept
CHECK_DEADLOCK FALSE
