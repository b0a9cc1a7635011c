CONSTANTS
    r1 = r1
    r2 = r2
    p1 = p1
    p2 = p2
    Runs = {r1, r2}
    OnDisk = {r1}
    NoToken = NoToken
    Registrars = {p1, p2}
    Retries = {p2}
    RunOf <- OneRunTwice
    Nobody = Nobody
    MaxMoves = 1
    MaxFaults = 2
CONSTRAINT Bounds
SPECIFICATION Spec
INVARIANTS
    TypeOK
    EnqueuedIsKnown
    CatalogTrue
PROPERTIES
    RevisionsRise
    Heals
CHECK_DEADLOCK FALSE
