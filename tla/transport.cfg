SPECIFICATION FairSpec
CONSTANTS
    Size = 80
    MaxWelem = 2
    Fcalls <- Script
    Junk = {0, 77}
    Split = {"TFlush", "RError", "TClunk"}
INVARIANTS Framed Unpacked
PROPERTIES Delivered
CHECK_DEADLOCK FALSE
