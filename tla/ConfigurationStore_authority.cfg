CONSTANTS
    a = a
    r1 = r1
    r2 = r2
    Records = {a}
    Values = {0, 1}
    Template = 0
    Runs = {r1, r2}
    Proposal <- TwoRuns
    Manual = Manual
    Drafts = {d1}
    Editors = {e1, e2}
    Free = Free
    UnderOutput = {TRUE, FALSE}
    Uncalibrated = Uncalibrated
    MaxAutomatic = 1
    MaxCheckpoints = 2
    MaxSnapshots = 4
    MaxEdits = 2
    MaxKills = 1
SYMMETRY EditorSymmetry
ACTION_CONSTRAINT Apart
CONSTRAINT Bounds
SPECIFICATION Spec
INVARIANTS
    AuthorityPresent
    AttributionTrue
    EvidenceStays
PROPERTIES
    SavedIsEffective
CHECK_DEADLOCK FALSE
