SPECIFICATION MirrorSpec
CONSTANTS
    Devices = {d1}
    Sessions = {s1}
    Viewers = {v1, v2, v3}
    None = None
    Max = 2
    Carriable = 2
    Reserve = 1
CHECK_DEADLOCK FALSE
PROPERTIES
    
    UnwatchedEnds
    OperatorIsServed
