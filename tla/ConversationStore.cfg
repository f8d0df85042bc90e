SPECIFICATION Spec
CONSTANTS
  Messages = {m1, m2, m3}
  Summary = summary
  Updates = {u1, u2}
  NoSnapshot = none
  MaxWrites = 3
SYMMETRY Symmetry
INVARIANTS
  TypeOK
  WholeHistories
  RestartFindsCache
  RunningWithinFull
  NoMessageTwice
CHECK_DEADLOCK FALSE
