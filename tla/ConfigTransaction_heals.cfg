CONSTANTS
    Clients = {c1, c2}
    Ops = {o1}
    Imports = {i1, i2, i3}
    NoTx = NoTx
    Contents <- TwoContents
    Legacy = "before"
    AnyContent = AnyContent
    Requests <- Updates
    NoRequest = NoRequest
    NoClient = NoClient
    Files <- TwoFiles
    Faults = {"io", "crash", "power"}
    MaxRequests = 1
    MaxFaults = 1
SPECIFICATION FairSpec
INVARIANTS
    AckedSurvive
PROPERTIES
    ProjectionHeals
