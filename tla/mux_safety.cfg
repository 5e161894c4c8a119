SPECIFICATION Spec
CONSTANTS
    Threads = {t1, t2, t3}
    Nil = Nil
    Dangling = Dangling
    TagLimit = 2
    MaxCalls = 2
    AsyncValues = {TRUE, FALSE}
    SendMayFail = TRUE
    MaxGarbled = 0
SYMMETRY Symmetry
INVARIANTS TagTable SleepList OneMuxer ReplyToCaller ReplyAwaited ReplyAwake
PROPERTIES ImplementsRpc
CHECK_DEADLOCK FALSE
