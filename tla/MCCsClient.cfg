CONSTANTS
    p1 = p1
    p2 = p2
    Pictures <- MCPictures
    Blocks <- MCBlocks
    MaxRuns = 3
SPECIFICATION Spec
INVARIANTS
    SavedOncePerRun
    FileIsLayered
    OneRoundMore
PROPERTIES
    StopEnds
    DeadServerEndsClient
    DrawsOrEnds
