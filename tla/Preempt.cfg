SPECIFICATION Spec
CONSTANTS
    Users = {m1, m2, m3}
    Notes = {q}
    Quiet = {q}
    NoText = NoText
    NTasks = 2
    MaxFaults = 1
CHECK_DEADLOCK FALSE
SYMMETRY Symmetry
INVARIANTS
    NothingVanishes
    LastLookCounts
    WrittenOnceInOrder
