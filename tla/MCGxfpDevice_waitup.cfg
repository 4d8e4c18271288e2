SPECIFICATION FairSpec
CONSTANTS
  MaxQueue = 2
  MaxRetries = 1
  EnrollStages = 2
  Actions = {"VERIFY"}
PROPERTY WaitUpRetried
