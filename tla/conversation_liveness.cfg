SPECIFICATION FairSpec
CONSTANTS
  Free = Free
  c1 = c1
  c2 = c2
  Attempts = {c1, c2}
  Faults = {"configure", "open", "end"}
  MaxLeases = 1
  MaxRestarts = 0
PROPERTIES
  ClosingSettles
  RetiredLeaseReleased
  ShutdownEnds
