SPECIFICATION Spec
CONSTANTS
  Mib = 2
  MaxU32 = 31
  SoftLimits = {0, 96, 136, 256}
  Estimates = {0, 2, 15, 16, 17, 700, 3000, 100000}
  Targets = {0, 1, 16, 100, 1000}
  Residents = {0, 3, 90}
  Headrooms = {0, 4, 9, 100}
  Actives = {0, 1, 3, 31}
INVARIANTS
  TwoPasses
  AvailableButFloor
PROPERTIES
  DescriptorPressure
CHECK_DEADLOCK FALSE
