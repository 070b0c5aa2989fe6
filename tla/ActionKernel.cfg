SPECIFICATION KernelSpec
CONSTANTS
    Resolution = 1
    Devices = {d1}
    Holders = {h1}
    Sessions = {s1}
    Leases = {l1, l2}
    None = None
    SessionTTL = 2
    LeaseTTL = 1
    ReadLag = 0
    Horizon = 1
    Attempts = {a1, a2}
    Keys = {k1, k2}
    Observations = {o1}
SYMMETRY RowSymmetry
CHECK_DEADLOCK FALSE
INVARIANTS
    KernelTypeOK
    HaltDrains
    KeyTellsAttempt
    SuccessHasEvidence
PROPERTIES
    DecidedOnce
    StaleFenceNeverActs
