CONSTANTS
    Servers = {"godemo", "phpdemo", "cppdemo", "jsdemo"}
    Clients = {"godemo", "phpdemo", "cppdemo", "jsdemo"}
    NoOne = NoOne
    GoCalls = 2
SPECIFICATION Spec
INVARIANTS
    Mixups
PROPERTIES
    GoEnds
