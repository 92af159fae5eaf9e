CONSTANTS
    Servers = {"envoydemo"}
    Clients = {}
    NoOne = NoOne
    GoCalls = 1
    Calls = {1, 2}
    Paths = {"/", "/aspnet-demo", "/grpc"}
    MaxNavs = 2
    MaxResets = 1
    MaxLoads = 2
SPECIFICATION WebSpec
CHECK_DEADLOCK FALSE
INVARIANTS
    LastNavigationWins
PROPERTIES
    UnarySpec
    EveryCallHeard
    WorkingPagesAnswered
    ShownAnyway
