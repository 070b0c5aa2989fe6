SPECIFICATION RunSpec
CONSTANTS
    Devices = {d1, d2}
    Holders = {h1}
    Steps = {s1}
    Attempts = {a1, a2}
    None = None
    MaxToken = 2
SYMMETRY RunSymmetry
CHECK_DEADLOCK FALSE
INVARIANTS
    RunTypeOK
    SuccessRestsOnVerifiedAttempts
PROPERTIES
    DispatchIsFenced
    AttemptsDecidedOnce
    ResultsStay
