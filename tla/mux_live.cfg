SPECIFICATION FairSpec
CONSTANTS
    Threads = {t1, t2, t3}
    Nil = Nil
    Dangling = Dangling
    TagLimit = 2
    MaxCalls = 1
    AsyncValues = {TRUE, FALSE}
    SendMayFail = TRUE
    MaxGarbled = 1
INVARIANTS SleeperHasMuxer
PROPERTIES CallsReturn
CHECK_DEADLOCK FALSE
