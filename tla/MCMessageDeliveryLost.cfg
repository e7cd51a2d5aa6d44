\* One message; the user leaves the chat once, and nothing else goes wrong.
CONSTANTS
    Msgs = 1
    DECRYPT_RETRY_CAP = 2
    MaxEdits = 0
    MaxDeletes = 0
    MaxSwitches = 1
    MaxReloads = 0
    MaxDrops = 0
    MaxForeign = 0
    MaxFaults = 0
SPECIFICATION Spec
INVARIANT NothingLost
CHECK_DEADLOCK FALSE
