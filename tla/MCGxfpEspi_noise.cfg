SPECIFICATION FairSpec
CONSTANTS
  Chunk = 2
  RxCap = 6
  SyncCap = 3
  Totals = {1, 3, 5}
  XferTries = 2
  CallTries = 2
  MaxPackets = 3
  Noise = TRUE
PROPERTY
  ChunksAcknowledged
CHECK_DEADLOCK FALSE
