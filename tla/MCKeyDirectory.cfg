\* Batches of two prekeys, refilled when one is left; the tab may be closed or
\* the request lost before a batch reaches the server, and a delete may fail.
CONSTANTS
    r1 = r1
    r2 = r2
    Tabs = {1}
    Requester = {r1, r2}
    OTP_REPLENISH_THRESHOLD = 1
    OTP_BATCH_SIZE = 2
    MAX_OPKS_PER_DEVICE = 3
    OPK_POPS_PER_TARGET_PER_HOUR = 2
    LEDGER_CAP = 2
    Fragile = {"start", "store", "count"}
    MaxBatches = 3
    MaxFetches = 3
    MaxFaults = 1
SPECIFICATION Spec
INVARIANTS TypeOK HandedOnce Answerable SeedsOnce IdsNeverRecycled
SYMMETRY Symmetry
CHECK_DEADLOCK FALSE
