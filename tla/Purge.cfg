SPECIFICATION FairSpec
CONSTANTS
    x = x
    y = y
    o = o
    nil = nil
    Channels = {}
    Payloads = {x, y, o}
    NoData = nil
    Other = o
    Subjects = {x, y}
    Readers = {}
    RingSize = 1
    ColdCap = 0
    QCap = 1
    MaxSeq = 2
    MaxAttempts = 2
INVARIANTS ErasedForGood 
PROPERTIES TombstonesKept PurgeFinishes
CHECK_DEADLOCK FALSE
