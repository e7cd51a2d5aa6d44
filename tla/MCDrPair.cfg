\* One session, five messages a side, up to ten DH steps; a bucket holds two
\* skipped keys and so does the session, so that both caps are met.
CONSTANTS
    A = A
    B = B
    Party = {A, B}
    Alice = A
    MaxMsgs = 5
    MaxSkip = 2
    GlobalSkipCap = 2
SPECIFICATION FairSpec
INVARIANTS TypeOK NoKeyReuse Deliverable ForwardSecrecy CacheExact
PROPERTY ExactlyOnce
CHECK_DEADLOCK FALSE
