SPECIFICATION Spec
CONSTANTS
    Fids = {f1, f2}
    Nil = Nil
    Paths <- SmallTree
    Volatile <- VolatileDir
    Walks <- ShortWalks
    PoolChunk = 1
    MaxFiles = 5
    MaxLost = 1
    MaxP = 2
INVARIANTS FilesCounted VerifyRight
PROPERTIES ImplementsFidPaths
SYMMETRY Symmetry
CHECK_DEADLOCK FALSE
