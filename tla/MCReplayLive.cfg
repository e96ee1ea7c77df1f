SPECIFICATION FairSpec
CONSTANTS
  Cursors = {c1, c2}
  MaxRows = 1
  MaxDetached = 1
PROPERTIES
  WaitEnds
  ScratchReclaimed
CHECK_DEADLOCK FALSE
