\* One message; the user comes from another chat, whose pull is still running.
CONSTANTS
    Msgs = 1
    DECRYPT_RETRY_CAP = 2
    MaxEdits = 0
    MaxDeletes = 0
    MaxSwitches = 0
    MaxReloads = 0
    MaxDrops = 0
    MaxForeign = 1
    MaxFaults = 0
SPECIFICATION FairSpec
PROPERTY ArrivesAlways
CHECK_DEADLOCK FALSE
