SPECIFICATION Spec
CONSTANTS
  Tabs = {t1, t2}
  SendAttempts = 1
  MaxVisits = 2
  MaxLost = 0
  MaxBoots = 1
PROPERTY JoiningRestores
CHECK_DEADLOCK FALSE
