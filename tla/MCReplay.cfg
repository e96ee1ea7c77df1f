SPECIFICATION Spec
CONSTANTS
  Cursors = {c1, c2}
  MaxRows = 2
  MaxDetached = 1
INVARIANTS
  ExhaustedIsFinal
  CommittedRowReadable
  CheckpointConsistent
  ArmedOnce
  RemovalExclusive
  NoReaderStranded
PROPERTIES
  ImplementsLog
  ImplementsScope
CHECK_DEADLOCK FALSE
