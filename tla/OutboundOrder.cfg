SPECIFICATION FairSpec
CONSTANTS
    NReplies = 2
    NBots = 1
    Parts = 1
    Planned = {2}
    MaxReplays = 0
    MaxFaults = 3
CHECK_DEADLOCK FALSE
PROPERTIES
    FirstAttemptsInOrder
    EveryReplySettles
