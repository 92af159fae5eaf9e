CONSTANTS
    Servers = {s1, s2}
    Clients = {c1}
    NoOne = NoOne
    MaxRuns = 2
SPECIFICATION Spec
PROPERTIES
    OneRun
    RefusedIsStale
    ClientEnds
