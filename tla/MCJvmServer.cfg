CONSTANTS
    Calls = {c1, c2, c3}
SPECIFICATION Spec
INVARIANTS
    LossNeedsGrace
    NobodyLeftWaiting
PROPERTIES
    ExitHalts
    LifecycleSpec
CHECK_DEADLOCK FALSE
