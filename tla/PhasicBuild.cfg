SPECIFICATION Spec
CONSTANTS
  Names = {n1, n2}
  Inputs = {i1, i2}
  Turns = {t1, t2}
  MaxPhases = 4
  RechargedTo = 3
INVARIANTS
  TypeOK
  OneUnfinishedPhase
  PendingHasBudget
PROPERTIES
  IsSavedQueue
  MVPMeansPhasesDone
  BuildEnds
CHECK_DEADLOCK FALSE
