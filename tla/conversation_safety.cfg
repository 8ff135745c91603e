SPECIFICATION Spec
CONSTANTS
  Free = Free
  c1 = c1
  c2 = c2
  Attempts = {c1, c2}
  Faults = {"open", "commit", "send", "end", "settle"}
  MaxLeases = 2
  MaxRestarts = 1
SYMMETRY Symmetry
INVARIANTS
  NothingLeaked
  WorkersFenced
  FailureRecordedOnce
  EndedIsDurable
  ShutdownClean
PROPERTIES
  LateDisconnectHarmless
  LedgerSpec
