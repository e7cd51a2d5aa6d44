CONSTANTS
    A = A
    B = B
    C = C
    User = {A, B, C}
    Creator = A
    First = B
    Task <- TwoClients
    Key = {0, 1, 2, 3, 4, 5, 6}
    CreationKey = 0
    MaxChanges = 1
    MaxTransfers = 1
    MaxFaults = 0
    MaxEpoch = 3
SPECIFICATION Spec
INVARIANTS TypeOK OneKeyPerEpoch DepartedSealed
CHECK_DEADLOCK FALSE
