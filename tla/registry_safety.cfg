SPECIFICATION Spec
CONSTANTS
  None = None
  s1 = s1
  s2 = s2
  Sockets = {s1, s2}
  a1 = a1
  a2 = a2
  Requests = {a1, a2}
  Operations = {"rotate", "disable", "enable"}
  Faults = {"marking", "marked", "replacing", "checking", "staging", "sending", "committing", "serving", "beating", "beaten", "offlining"}
  MaxRestarts = 1
SYMMETRY Symmetry
INVARIANTS
  TypeOK
  LeaseFence
  NoOfflineUnderOwner
  OnlyRetiredNotified
  OnlineHasOwner
PROPERTIES
  DisabledStaysDisabled
