SPECIFICATION FairSpec
CONSTANTS
  Args = {none, k1, k2, k3}
  NoArg = none
  Keys = {k1, k2, k3}
  Factory = factory
  NoKey = nokey
  Torn = torn
  RunsFirst = TRUE
  MaxQueue = 3
  MaxWire = 2
  MaxFaults = 2
  MaxTries = 2
INVARIANTS
  TypeOK
  AnswerIsOwn
  InstalledMatches
PROPERTIES
  PairKept
  ProgramReturns
CHECK_DEADLOCK FALSE
