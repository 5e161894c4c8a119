SPECIFICATION MapSpec
CONSTANTS
    Keys = {0, 1, 2, 4, 6}
    Vals = {a, b}
    Nil = Nil
    NHash = 2
PROPERTIES ImplementsKeyMap
CHECK_DEADLOCK FALSE
