SPECIFICATION Spec
CONSTANTS
    c1 = c1
    c2 = c2
    Callers = {c1}
    Nobody = Nobody
    Dead = Dead
    Faults = {"io","part","late","crash"}
    MaxFaults = 2
    Operations = {"archive", "restore_hot", "trash", "restore_trash", "keep", "unkeep", "recover_lock"}
    CrossVolume = FALSE
    MaxCalls = 6
INVARIANT HonestAnswers
PROPERTIES KeptStays ImplementsRunStorage
CHECK_DEADLOCK FALSE
