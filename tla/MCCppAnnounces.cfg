CONSTANTS
    Servers = {"godemo", "cppdemo"}
    Clients = {"cppdemo"}
    NoOne = NoOne
    GoCalls = 3
SPECIFICATION Spec
INVARIANTS
    AnnouncedListens
