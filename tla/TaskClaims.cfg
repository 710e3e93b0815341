SPECIFICATION FairSpec
CONSTANTS
    Tasks = {t1}
    Workers = {w1}
    AutoContinue = {t1}
    Silent = {}
    NoWorker = NoWorker
    Restart = Restart
    MaxClaims = 3
    MaxResumes = 1
    MaxStarts = 1
    MaxRouters = 2
CHECK_DEADLOCK FALSE
INVARIANTS
    SingleExecution
    BoundedReexecution
PROPERTIES
    NoResurrection
    OnlyWaitingThreadsRouteEarly
    CancelSticks
    AbandonedTaskLeaves
    CancelledTaskEnds
    EveryOutcomeIsRouted
