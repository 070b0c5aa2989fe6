SPECIFICATION LeaseSpec
CONSTANTS
    Resolution = 2
    Devices = {d1}
    Holders = {h1, h2}
    Sessions = {s1, s2}
    Leases = {l1, l2}
    None = None
    SessionTTL = 2
    LeaseTTL = 1
    ReadLag = 1
    Horizon = 3
SYMMETRY RowSymmetry
CHECK_DEADLOCK FALSE
INVARIANTS
    LeaseTypeOK
    FenceDominates
    LeaseWithinSession
    EventsReplayToRow
    AbandonedDeviceRecoverable
PROPERTIES
    FencedStaysFenced
    DeadlinesHoldToTheSecond
    ImplementsFencedDevice
