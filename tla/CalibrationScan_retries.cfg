SPECIFICATION Spec
CONSTANTS
    c1 = c1
    c2 = c2
    r1 = r1
    r2 = r2
    Callers = {c1, c2}
    Requests = {r1, r2}
    Retrier = c1
    ItsRequest = r1
    Missing = Missing
    NoRequest = NoRequest
    Nobody = Nobody
    Points = 2
    MaxCalls = 2
    Faults = {"point", "write", "rename", "flush", "record", "kill"}
    MaxFaults = 3
INVARIANTS PublishedSound AnswersTrue
PROPERTIES ProgressKept Settles
