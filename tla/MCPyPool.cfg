CONSTANTS
    N = 4
    MaxSigs = 3
SPECIFICATION Spec
INVARIANTS
    MissesAtMostOne
    UnknownAtMostOne
PROPERTIES
    CtrlCEnds
CHECK_DEADLOCK FALSE
