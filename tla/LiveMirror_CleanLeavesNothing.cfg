SPECIFICATION MirrorSpec
CONSTANTS
    Devices = {d1, d2}
    Sessions = {s1, s2}
    Viewers = {v1, v2}
    None = None
    Max = 2
    Carriable = 2
    Reserve = 1
CHECK_DEADLOCK FALSE
INVARIANT CleanLeavesNothing
