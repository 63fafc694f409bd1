SPECIFICATION FairSpec
CONSTANTS
    Channels = {1, 2}
    Retries = 2
    MaxActs = 2
    MaxFaults = 2
    MaxLoops = 2
INVARIANTS NoHiddenCall RoomsFollow 
PROPERTY JoinEnds
CHECK_DEADLOCK FALSE
