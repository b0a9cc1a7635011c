CONSTANTS
    Callers = {c1}
    Batches = {b1}
    Requests = {r1}
    Resources = {k1}
    ResourceOf <- OneResource
    NoCaller = NoCaller
    NoBatch = NoBatch
    NoRequest = NoRequest
    Points = 2
    Faults = {"point", "receipt", "crash"}
    MaxFaults = 2
    Versions = 2
    MaxUpgrades = 1
SPECIFICATION FairExecution
INVARIANTS
    Coherent
PROPERTIES
    Settles
