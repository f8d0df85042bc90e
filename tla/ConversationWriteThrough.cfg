SPECIFICATION Spec
CONSTANTS
  Messages = {m1, m2, m3}
  Summary = summary
  Updates = {u1, u2}
  NoSnapshot = none
  MaxWrites = 3
INVARIANT WriteThrough
CHECK_DEADLOCK FALSE
