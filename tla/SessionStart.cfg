SPECIFICATION Spec
CONSTANTS
  Tabs = {t1, t2}
  SendAttempts = 2
  MaxVisits = 2
  MaxLost = 1
  MaxBoots = 2
INVARIANTS
  TypeOK
  CommandsWaitForAgent
PROPERTIES
  ProjectInitialisedOnce
  FreshSessionGenerates
CHECK_DEADLOCK FALSE
