SPECIFICATION FairSpec
CONSTANTS
  k1 = k1
  Commands = {k1}
  h1 = h1
  h2 = h2
  Handlers = {h1, h2}
  r1 = r1
  r2 = r2
  Results = {r1, r2}
  Faults = {"dispatch", "reply", "expire"}
  MaxReplies = 4
INVARIANTS
  TypeOK
  TrailIsPath
  SentMeansDelivered
PROPERTIES
  TerminalIsFinal
  WaitersReleased
  CommandsEnd
