CONSTANTS
  Writers = {"sender", "events", "finalizer", "handler"}
  MaxWaiters = 2
  MaxPendingCancels = 1
  MaxResponses = 2
  MaxEvents = 4
  Pipe = 1
  InputCapacity = 1
  OutputCapacity = 1
SPECIFICATION Spec
INVARIANTS TypeOK SilencedStaysSilent CancelledWorkersEnd OverflowClearedOnce EndLeavesNothing
PROPERTIES OnlyForgottenCancelsFail SilentAfterRetire
