CONSTANTS
    q1 = q1
    q2 = q2
    c = c
    Qubits = {q1, q2}
    Couplers = {c}
    Endpoints <- TheEndpoints
    PiImpl = {q2}
    PulseLength = 1
    Offset = 1
    GateLength = 2
    DynamicPhase <- TheDynamicPhase
    Lengths = {2}
    Starts = {0, 3}
    Phases = {2}
    MaxSamples = 7
    MaxInstructions = 4
SPECIFICATION Spec
INVARIANTS
    EarliestStart
    PhaseTrue
    ArraysHold
CHECK_DEADLOCK FALSE
