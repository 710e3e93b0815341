SPECIFICATION FairSpec
CONSTANTS
    Messages = {m1, m2}
    Supervisors = {s1, s2}
    NoOne = NoOne
    PidsTell = FALSE
    MaxPushes = 1
    MaxCrashes = 1
CHECK_DEADLOCK FALSE
INVARIANTS
    MergeIsExact
    ForgottenOnlyWhenMerged
    OneReplyUnlessCut
PROPERTIES
    ImplementsBranchMerge
    RecoveredIsTried
