SPECIFICATION Spec
CONSTANTS
    MaxTime = 2
    MaxTimers = 2
    MaxBack = 1
    Nil = Nil
    Fds = {1}
    MaxConns = 1
INVARIANTS WakesInTime
CHECK_DEADLOCK FALSE
