SPECIFICATION FairSpec
CONSTANTS
    MaxTime = 1
    MaxTimers = 2
    MaxBack = 1
    Nil = Nil
    Fds = {1, 2}
    MaxConns = 3
INVARIANTS TimersAccounted ReadsReported
PROPERTIES NextKept TimersFire ServerStops
CHECK_DEADLOCK FALSE
