SPECIFICATION Spec
CONSTANTS
    x = x
    o = o
    nil = nil
    r = r
    Channels = {}
    Payloads = {x, o}
    NoData = nil
    Other = o
    Subjects = {x}
    Readers = {r}
    RingSize = 3
    ColdCap = 4
    QCap = 1
    MaxSeq = 4
    MaxAttempts = 2
INVARIANTS ServedComplete ServedCleanly
CHECK_DEADLOCK FALSE
