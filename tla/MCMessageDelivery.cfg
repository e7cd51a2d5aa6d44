\* One message that is edited and deleted; the chat is left, the tab reloaded, the
\* socket drops and a decryption fails, each of them once.  The live pull gives a
\* message up at its first failure.
CONSTANTS
    Msgs = 1
    DECRYPT_RETRY_CAP = 1
    MaxEdits = 1
    MaxDeletes = 1
    MaxSwitches = 1
    MaxReloads = 1
    MaxDrops = 1
    MaxForeign = 0
    MaxFaults = 1
SPECIFICATION Spec
INVARIANTS TypeOK AckedIsDurable DeletedStaysGone
PROPERTY GoodStaysGood
CHECK_DEADLOCK FALSE
