SPECIFICATION FairSpec
CONSTANTS
    Tags = {1}
    Fids = {1}
    Nil = Nil
    NoTag = NoTag
    Stale = Stale
    Types = {"attach"}
    Modes = {0}
    Implemented <- Handlers
    MaxReqs = 2
    SendMayFail = TRUE
    RealLocks = TRUE
    DupTags = FALSE
PROPERTIES WoundDown
CHECK_DEADLOCK FALSE
