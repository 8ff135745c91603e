SPECIFICATION FairSpec
CONSTANTS
  None = None
  s1 = s1
  s2 = s2
  Sockets = {s1, s2}
  a1 = a1
  Requests = {a1}
  Operations = {"rotate", "disable"}
  Faults = {"marking", "marked", "replacing", "sending", "serving", "beaten", "offlining"}
  MaxRestarts = 1
PROPERTIES
  PresenceConverges
  RetiredLeaseNotified
  HandlerSettles
