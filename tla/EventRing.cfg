SPECIFICATION Spec
CONSTANTS
    RingSize = 3
    Channels = {1}
    Payloads = {u1, u2}
    NoData = NoData
    Seeds = {0, 4}
    MaxPush = 4
INVARIANTS ReplayComplete ReplayRight
PROPERTY AbstractSpec
