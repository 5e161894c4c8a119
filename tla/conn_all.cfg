SPECIFICATION FairSpec
CONSTANTS
    Tags = {1, 2}
    Fids = {1, 2}
    Nil = Nil
    NoTag = NoTag
    Stale = Stale
    Types <- AllTypes
    Modes = {0, 1}
    Implemented <- Handlers
    MaxReqs = 3
    SendMayFail = TRUE
    RealLocks = FALSE
    DupTags = FALSE
INVARIANTS RefCount TagMapComplete OneAnswer NoReplyAfterFlush AllFlushed
PROPERTIES FlushedFirst WoundDown
CHECK_DEADLOCK FALSE
