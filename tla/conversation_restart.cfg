SPECIFICATION FairSpec
CONSTANTS
  Free = Free
  c1 = c1
  c2 = c2
  Attempts = {c1, c2}
  Faults = {}
  MaxLeases = 1
  MaxRestarts = 1
PROPERTIES
  RestartClosesConversation
CHECK_DEADLOCK FALSE
