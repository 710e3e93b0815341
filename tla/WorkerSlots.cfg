SPECIFICATION FairSpec
CONSTANTS
    NTasks = 3
    NEngines = 1
    Fast = {}
    Background = {1, 3}
    MaxWorkers = 2
    MaxActive = 3
    BackgroundMax = 1
    Reserve = 1
    MaxCalls = 2
    MaxBreaks = 1
INVARIANTS
    ParkedWhileItsCallsWait
    SlotsWithinLimits
    ReserveKept
    BackgroundCap
PROPERTIES
    EverythingSettles
