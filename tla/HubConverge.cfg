SPECIFICATION FairSpec
CONSTANTS
    s1 = s1
    s2 = s2
    AllSessions = {s1, s2}
    MaxEvents = 5
    SCap = 2
    RouteCap = 1
    Jump = 1
    Scenes <- ConvergeScenes
    RingSize = 3
    Channels = {1, 2}
    NoData = NoData
    Payloads = {1, 2, 3, 4, 5}
PROPERTY Convergence
CHECK_DEADLOCK FALSE
