\* Expected to be violated: a heartbeat that gets the row between the COMMIT of a
\* rotation and its after_commit hook restores ONLINE.
SPECIFICATION Spec
CONSTANTS
  None = None
  s1 = s1
  Sockets = {s1}
  a1 = a1
  Requests = {a1}
  Operations = {"rotate"}
  Faults = {}
  MaxRestarts = 0
PROPERTIES
  HeartbeatRespectsRotation
