CONSTANTS
    A = A
    B = B
    C = C
    User = {A, B, C}
    Creator = A
    First = B
    Task <- OneClient
    Key = {0, 1, 2, 3, 4}
    CreationKey = 0
    MaxChanges = 0
    MaxTransfers = 1
    MaxFaults = 0
    MaxEpoch = 3
SPECIFICATION Spec
INVARIANTS NoSilentSplit
CHECK_DEADLOCK FALSE
