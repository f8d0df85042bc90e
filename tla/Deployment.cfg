CONSTANTS
  Callers = {c1, c2, c3}
  Loops = {l1, l2}
  NoLoop = NoLoop
  MaxLate = 1
SPECIFICATION FairSpec
INVARIANTS
  TypeOK
  InstanceIsRecorded
  InstanceIsWatched
PROPERTIES
  IsSharedCall
  CallersAreAnswered
