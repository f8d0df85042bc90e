SPECIFICATION Spec
CONSTANTS
  Builds = {b1, b2}
  Inputs = {i1, i2}
  NoBuild = NoBuild
INVARIANT AtMostOneBuild
CHECK_DEADLOCK FALSE
