SPECIFICATION FairSpec
CONSTANTS
  MaxQueue = 2
  MaxRetries = 1
  EnrollStages = 2
  Actions = {"ENROLL"}
PROPERTY CancelCompletes
