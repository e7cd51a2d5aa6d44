\* Two messages a side, two resets, one failure in mid-call: a device runs up to
\* three handshakes, the first with a one-time prekey.  The skip caps are never met
\* here (DrPair meets them).
CONSTANTS
    A = A
    B = B
    Party = {A, B}
    Tabs = {1}
    Otps = 1
    MAX_ARCHIVED_RATCHETS = 3
    PENDING_INIT_MAX_RESENDS = 3
    MaxMsgs = 2
    MaxClears = 2
    MaxFaults = 1
    MaxLost = 0
    MaxSkip = 10
    GlobalSkipCap = 10
SPECIFICATION Spec
INVARIANTS TypeOK NoKeyReuse SupersededStillOpen RetiredStaysRetired OtpOnce OpenedOncePerHandshake
CHECK_DEADLOCK FALSE
