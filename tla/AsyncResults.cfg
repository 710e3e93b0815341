SPECIFICATION FairSpec
CONSTANTS
    MaxDispatches = 2
    MaxMessages = 1
CHECK_DEADLOCK FALSE
INVARIANTS
    TypeOK
    HandedOnce
    PromisesHold
PROPERTIES
    AwaitedStaysHome
    ResultsArrive
