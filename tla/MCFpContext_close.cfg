SPECIFICATION CtxSpec
CONSTANTS
  Long = {"VERIFY"}
  Short = {"PROBE", "OPEN", "CLOSE"}
  MaxCritical = 1
INVARIANT
  RemovedCanBeClosed
CHECK_DEADLOCK FALSE
