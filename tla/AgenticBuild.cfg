SPECIFICATION Spec
CONSTANTS
  Builds = {b1, b2}
  Inputs = {i1, i2}
  NoBuild = NoBuild
INVARIANTS
  TypeOK
  NoStrandedInput
  GeneratingMeansAlive
  InferenceIsStoppable
PROPERTIES
  IsRequestQueue
  InputTaken
CHECK_DEADLOCK FALSE
