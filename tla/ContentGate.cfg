SPECIFICATION FairSpec
CONSTANTS
    Chans = {1, 2}
    QCap = 2
    MaxMsgs = 3
    MaxPolicy = 2
    MaxPanic = 2
INVARIANTS ChannelOrder BarrierCovers GateNotStale
PROPERTY NothingStuck
CHECK_DEADLOCK FALSE
