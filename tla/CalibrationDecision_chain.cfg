CONSTANTS
    Sessions = {c1, c2}
    Targets = {q1, q2}
    RunOutputs = {x1, x2}
    DecisionOutputs = {y1, y2}
    Uncalibrated = Uncalibrated
    Nothing = Nothing
    NoPeak = NoPeak
    Seed <- SameSeed
    CoarseLow = 2
    CoarseHigh = 5
    FineHalf = 2
    ConfirmHalf = 2
    MaxRefinedShift = 0
    MaxParallelShift = 0
SYMMETRY Symmetry
CONSTRAINT Bounds
SPECIFICATION DecisionSpec
INVARIANTS
    Traceable
    Lineage
CHECK_DEADLOCK FALSE
