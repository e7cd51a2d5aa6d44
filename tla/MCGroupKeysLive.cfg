CONSTANTS
    A = A
    B = B
    C = C
    User = {A, B, C}
    Creator = A
    First = B
    Task <- OneClient
    Key = {0, 1, 2, 3, 4, 5, 6, 7, 8, 9, 10}
    CreationKey = 0
    MaxChanges = 1
    MaxTransfers = 0
    MaxFaults = 1
    MaxEpoch = 7
SPECIFICATION FairSpec
INVARIANTS NoSilentSplit
PROPERTY Converges
CHECK_DEADLOCK FALSE
