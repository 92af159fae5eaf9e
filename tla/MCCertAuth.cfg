CONSTANTS
    Requests = {r1, r2, r3}
    Size <- MCSize
SPECIFICATION Spec
INVARIANTS
    AuthorizedIsCertified
    TurnedAwayAtFile
    FileIsOneCert
PROPERTIES
    EveryoneAnswered
CHECK_DEADLOCK FALSE
