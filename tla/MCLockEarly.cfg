SPECIFICATION Spec
CONSTANTS
    p1 = p1
    p2 = p2
    p3 = p3
    Procs <- TwoProcs
    Dead = {}
    Tokens = 9
    Attempts = 2
INVARIANT Exclusive
CHECK_DEADLOCK FALSE
