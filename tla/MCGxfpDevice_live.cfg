SPECIFICATION FairSpec
CONSTANTS
  MaxQueue = 2
  MaxRetries = 1
  EnrollStages = 2
  Actions = {"VERIFY"}
INVARIANT NoAbort
INVARIANT StatesAgree
PROPERTY CancelCompletes
PROPERTY CaptureEnds
PROPERTY WaitOffRetried
