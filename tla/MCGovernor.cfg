SPECIFICATION FairSpec
CONSTANTS
  Mib = 1
  MaxU32 = 100
  submitter = submitter
  replayer1 = replayer1
  replayer2 = replayer2
  observer = observer
  Calls <- MCCalls
  Kind <- MCKind
  Config <- MCConfig
  Capacity = 1
  MaxId = 2
  FdTotal = 6
  Estimates = {4}
  Targets = {4}
  Residents = {0}
INVARIANTS
  ActiveExact
  IdsUnique
PROPERTIES
  FanInShared
  CallsAnswered
CHECK_DEADLOCK FALSE
