SPECIFICATION TimerSpec
CONSTANTS
    Tasks = {r, a, b}
    Root = r
    NoTask = NoTask
    Tools = {b}
    MaxDispatches = 1
    MaxKids = 2
    MaxThreads = 1
    DiskFails = FALSE
CHECK_DEADLOCK FALSE
INVARIANTS
    NoOrphanWork
    BatchHasAWaker
PROPERTIES
    ToldIsFinal
    BatchIsCollected
