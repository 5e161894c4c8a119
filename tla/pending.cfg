SPECIFICATION FairSpec
CONSTANTS
    Fids = {f1, f2}
    MaxWrites = 3
    MaxReads = 4
    MaxLinks = 4
    Outstanding = 2
INVARIANTS EveryEventOnce NoReadKeptWaiting LinkedOnce
PROPERTIES WriteEnds
CHECK_DEADLOCK FALSE
