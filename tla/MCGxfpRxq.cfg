SPECIFICATION FairSpec
CONSTANTS
    Threads = {t1, t2}
    Files = {f1, f2}
    OpenModes = {"rd", "rdnb"}
    Counts = {1, 2}
    Lens = {0, 1}
    Capacity = 2
    MaxPackets = 2
INVARIANTS
    TypeOK
    WellFramed
    ReadsOneRecord
    InOrder
    NoUseAfterFree
    NoLostWakeup
    SleepingReaderPinsQueue
PROPERTIES
    UnbindCompletes
    SleeperServed
CHECK_DEADLOCK FALSE
