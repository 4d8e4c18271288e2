SPECIFICATION Spec
CONSTANTS
  Chunk = 2
  RxCap = 6
  SyncCap = 3
  Totals = {1, 3, 5}
  XferTries = 2
  CallTries = 2
  MaxPackets = 3
  Noise = FALSE
INVARIANT
  RecordsWhole
CHECK_DEADLOCK FALSE
