SPECIFICATION Spec
CONSTANTS
    c1 = c1
    c2 = c2
    Callers = {c1, c2}
    Nobody = Nobody
    Dead = Dead
    Faults = {"io", "late", "crash"}
    MaxFaults = 1
    Operations = {"archive", "trash"}
    CrossVolume = TRUE
    MaxCalls = 4
SYMMETRY Symmetric
INVARIANT Evidence
CHECK_DEADLOCK FALSE
