CONSTANTS
    Paths = {"/", "/index", "/aspnet-demo", "/nowhere"}
    MaxNavs = 3
    MaxResets = 1
    MaxLoads = 1
SPECIFICATION RouterSpec
CHECK_DEADLOCK FALSE
INVARIANTS
    ResolvedIsThere
