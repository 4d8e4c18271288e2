SPECIFICATION CtxFairSpec
CONSTANTS
  Long = {"VERIFY", "CAPTURE"}
  Short = {"PROBE", "OPEN", "CLOSE", "CLEAR_STORAGE"}
  MaxCritical = 2
INVARIANTS
  QueuedIsFlushed
  Overheating
  SuspendedActionAgreed
  SuspendTellsBusy
  RemovedClosed
  FinalizedUntouched
PROPERTIES
  CancelOnlyBusy
  CancelHeard
  SuspendEnds
  ClosedLeavesList
CHECK_DEADLOCK FALSE
