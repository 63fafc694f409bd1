SPECIFICATION FairSpec
CONSTANTS
    Flushers = {f1}
    QueueSize = 2
    BatchSize = 2
    MaxEvents = 5
INVARIANTS FlushBarrier OrderedDrain
PROPERTIES StoreQuiet CallsReturn
CHECK_DEADLOCK FALSE
