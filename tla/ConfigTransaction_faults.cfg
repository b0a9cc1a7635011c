CONSTANTS
    Clients = {c1, c2}
    Ops = {o1, o2}
    Imports = {i1, i2}
    NoTx = NoTx
    Contents <- TwoContents
    Legacy = "before"
    AnyContent = AnyContent
    Requests <- Updates
    NoRequest = NoRequest
    NoClient = NoClient
    Files <- OneFile
    Faults = {"io", "flush", "crash"}
    MaxRequests = 3
    MaxFaults = 1
SYMMETRY Symmetry
SPECIFICATION Spec
INVARIANTS
    LockHeldInside
    NothingOverwritten
    ConflictIsFinal
    DiskHeadWhole
PROPERTIES
    HeadAdvances
    ImplementsLedger
