SPECIFICATION Spec
CONSTANTS
    NReplies = 1
    NBots = 2
    Parts = 2
    Planned = {2}
    MaxReplays = 1
    MaxFaults = 2
CHECK_DEADLOCK FALSE
INVARIANTS
    CursorBehindOutbox
    AcceptedOnce
    SentIsAccountedFor
