\* As in MCKeyDirectory, but it is the answer to a publication that may be lost.
CONSTANTS
    r1 = r1
    r2 = r2
    Tabs = {1}
    Requester = {r1, r2}
    OTP_REPLENISH_THRESHOLD = 1
    OTP_BATCH_SIZE = 2
    MAX_OPKS_PER_DEVICE = 3
    OPK_POPS_PER_TARGET_PER_HOUR = 2
    LEDGER_CAP = 2
    Fragile = {"record"}
    MaxBatches = 3
    MaxFetches = 3
    MaxFaults = 1
SPECIFICATION Spec
INVARIANT IdsNeverRecycled
SYMMETRY Symmetry
CHECK_DEADLOCK FALSE
