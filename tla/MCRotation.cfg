SPECIFICATION RotationFairSpec
CONSTANTS
    a1 = a1
    a2 = a2
    c1 = c1
    b1 = b1
    A = A
    B = B
    C = C
    Observer = Observer
    Ceiling = 2
    IncreaseAfter = 2
    IdleResetMs = 1
    BypassBound = 5
    Agents <- MCAgents
    Runs <- MCRuns
    RunOf <- MCRunOf
    Abortable <- NoAborts
    RetryAfters <- OneRetryAfter
INVARIANT RunsRotate
PROPERTY EveryWaiterLeaves
