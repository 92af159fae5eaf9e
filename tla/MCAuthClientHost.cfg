CONSTANTS
    N = 3
    Servers = {"certs", "api"}
    Round <- MCRound
    Catches = {1, 2}
    Refuses <- MCRefuses
SPECIFICATION Spec
INVARIANTS
    ReverseOrder
    NobodyForgotten
PROPERTIES
    StopEnds
    ErrorsSurvived
    DeadServerEndsClient
