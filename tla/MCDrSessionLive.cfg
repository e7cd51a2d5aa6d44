\* Two messages a side, one of them lost, an init that travels with two messages,
\* one failure in mid-call and no reset.
CONSTANTS
    A = A
    B = B
    Party = {A, B}
    Tabs = {1}
    Otps = 1
    MAX_ARCHIVED_RATCHETS = 3
    PENDING_INIT_MAX_RESENDS = 2
    MaxMsgs = 2
    MaxClears = 0
    MaxFaults = 1
    MaxLost = 1
    MaxSkip = 10
    GlobalSkipCap = 10
SPECIFICATION FairSpec
PROPERTY AllRead
CHECK_DEADLOCK FALSE
