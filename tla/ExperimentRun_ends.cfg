CONSTANTS
    Runs = {r1, r2}
    Operators = {o1}
    Points = 1
    Versions = {"0.1", "0.2"}
    NoRun = NoRun
    Faults = {"io", "torn", "budget", "point", "crash", "hasty", "cancel"}
    MaxFaults = 2
SYMMETRY RunSymmetry
SPECIFICATION Spec
INVARIANTS
    ResourceExclusive
    PublishedSound
    RecordTrue
    IndexedStays
PROPERTIES
    LockOutlivesRun
CHECK_DEADLOCK FALSE
