SPECIFICATION ReaperSpec
CONSTANTS
    Tasks = {r, a}
    Root = r
    NoTask = NoTask
    Tools = {}
    MaxDispatches = 2
    MaxKids = 2
    MaxThreads = 2
    DiskFails = FALSE
CHECK_DEADLOCK FALSE
PROPERTIES
    EveryWaitEnds
    SuspendedOncePerDispatch
