SPECIFICATION FairSpec
CONSTANTS
    Threads = {t1, t2}
    Nil = Nil
    Msize = 26
    Iounits = {0, 1, 9}
    UintMod = 16
    Files <- SmallFiles
    Removes = FALSE
    MaxEntries = 3
    Excess = 1
    MaxCount = 2
    MaxCalls = 3
    Kinds = {"read", "pread", "write", "pwrite"}
INVARIANTS StreamInOrder Contiguous BufferExact
PROPERTIES EndIsEnd IOReturns
CHECK_DEADLOCK FALSE
