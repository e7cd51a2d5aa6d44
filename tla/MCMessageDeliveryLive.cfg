\* Two messages while the chat stays open, which pulls of another chat may precede;
\* the socket drops once.
CONSTANTS
    Msgs = 2
    DECRYPT_RETRY_CAP = 2
    MaxEdits = 0
    MaxDeletes = 0
    MaxSwitches = 0
    MaxReloads = 0
    MaxDrops = 1
    MaxForeign = 2
    MaxFaults = 0
SPECIFICATION FairSpec
INVARIANT NothingLost
PROPERTY Arrives
CHECK_DEADLOCK FALSE
