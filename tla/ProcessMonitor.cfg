SPECIFICATION FairSpec
CONSTANTS
  MaxRestarts = 2
  Threshold = 2
  MaxFailures = 3
  MaxStable = 2
INVARIANTS
  TypeOK
  LiveIsSupervised
PROPERTIES
  IsSupervisor
  StopReturns
CHECK_DEADLOCK FALSE
