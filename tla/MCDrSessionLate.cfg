\* One reset, nothing lost, every call completes.
CONSTANTS
    A = A
    B = B
    Party = {A, B}
    Tabs = {1}
    Otps = 1
    MAX_ARCHIVED_RATCHETS = 3
    PENDING_INIT_MAX_RESENDS = 3
    MaxMsgs = 2
    MaxClears = 1
    MaxFaults = 0
    MaxLost = 0
    MaxSkip = 10
    GlobalSkipCap = 10
SPECIFICATION Spec
INVARIANT RepliesFollow
CHECK_DEADLOCK FALSE
