CONSTANTS
  Commands = {"k1", "k2"}
  Captures = {"k1"}
  MaxConnections = 2
  MaxBeats = 1
  MaxFaults = 1
SPECIFICATION Spec
INVARIANTS RefreshOwesNothing FileMatchesRow CompletedHasMedia
PROPERTIES FrameOrder
