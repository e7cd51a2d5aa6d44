\* One message; it is edited once, and nothing else happens.
CONSTANTS
    Msgs = 1
    DECRYPT_RETRY_CAP = 2
    MaxEdits = 1
    MaxDeletes = 0
    MaxSwitches = 0
    MaxReloads = 0
    MaxDrops = 0
    MaxForeign = 0
    MaxFaults = 0
SPECIFICATION Spec
INVARIANT NothingLost
CHECK_DEADLOCK FALSE
