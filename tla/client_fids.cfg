SPECIFICATION Spec
CONSTANTS
    Threads = {t1, t2, t3}
    MaxFids = 3
    MaxLost = 1
SYMMETRY Symmetry
INVARIANTS OneOwner AllFidsKnown WalkIsFresh
CHECK_DEADLOCK FALSE
