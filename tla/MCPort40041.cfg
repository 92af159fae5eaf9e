CONSTANTS
    Servers = {"javademo", "dtdemo", "rsdemo", "ktdemo"}
    Clients = {"javademo", "dtdemo", "rsdemo", "ktdemo"}
    NoOne = NoOne
    GoCalls = 3
SPECIFICATION Spec
PROPERTIES
    LoopersRecover
