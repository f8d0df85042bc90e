SPECIFICATION Spec
CONSTANTS
  DebounceTicks = 2
  MaxVersion = 4
INVARIANTS
  TypeOK
  ShutdownSaves
PROPERTIES
  StateIsSaved
  IsDurableCell
