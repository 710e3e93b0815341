SPECIFICATION Spec
CONSTANTS
    Tasks = {t1}
    Workers = {w1}
    AutoContinue = {t1}
    Silent = {}
    NoWorker = NoWorker
    Restart = Restart
    MaxClaims = 3
    MaxResumes = 1
    MaxStarts = 2
    MaxRouters = 2
CHECK_DEADLOCK FALSE
INVARIANT
    RouteWaitsForTheWorker
