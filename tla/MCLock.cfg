SPECIFICATION Spec
CONSTANTS
    p1 = p1
    p2 = p2
    p3 = p3
    Procs <- MCProcs
    Dead = {p3}
    Tokens = 11
    Attempts = 2
INVARIANTS TypeOK HolderHasLock NothingLeft
PROPERTY LoneSucceeds
CHECK_DEADLOCK FALSE
