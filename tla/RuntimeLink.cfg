SPECIFICATION LinkSpec
CONSTANTS
    Workers = {w1, w2}
    Keys = {k1, k2, k3}
    Actions = {a1}
    MaxSize = 2
    Retention = 0
    LastSeq = 3
    LastFence = 3
    Horizon = 2
SYMMETRY LinkSymmetry
CHECK_DEADLOCK FALSE
INVARIANTS
    LinkTypeOK
    SpoolWellFormed
    LeftBeforeDisconnectIsInDoubt
    LinkAgrees
PROPERTIES
    NoBlindReplay
