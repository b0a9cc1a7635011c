CONSTANTS
    Callers = {c1, c2}
    Batches = {b1, b2}
    Requests = {r1, r2}
    Resources = {k1}
    ResourceOf <- OneResource
    NoCaller = NoCaller
    NoBatch = NoBatch
    NoRequest = NoRequest
    Points = 1
    Faults = {"point", "partial", "receipt", "head", "flush", "crash"}
    MaxFaults = 2
SYMMETRY Symmetry
CONSTRAINT OneContention
SPECIFICATION Spec
INVARIANTS
    Exclusive
    HeadBacked
PROPERTIES
    ImplementsProgress
