SPECIFICATION MCSpec
CONSTANTS
    Deliveries = {d1, d2}
    Attempts = {a1}
    Serials = {s1, s2}
    None = None
    QueueSize = 1
CHECK_DEADLOCK FALSE
PROPERTY DispatchedIsDecided
