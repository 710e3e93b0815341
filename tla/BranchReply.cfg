SPECIFICATION Spec
CONSTANTS
    Messages = {m1}
    Supervisors = {s1, s2}
    NoOne = NoOne
    PidsTell = FALSE
    MaxPushes = 1
    MaxCrashes = 1
CHECK_DEADLOCK FALSE
INVARIANT
    OneReply
