SPECIFICATION Spec
CONSTANTS
  MaxQueue = 2
  MaxRetries = 1
  EnrollStages = 2
  Actions = {"ENROLL", "IDENTIFY", "CAPTURE"}
INVARIANT TypeOK
INVARIANT ImageFresh
INVARIANT WaitingHasTimer
INVARIANT NotCompletedTwice
INVARIANT ReturnsQuiet
