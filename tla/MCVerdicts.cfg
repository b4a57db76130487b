SPECIFICATION VerdictSpec
CONSTANTS
    a1 = a1
    a2 = a2
    b1 = b1
    main = main
    A = A
    B = B
    Observer = Observer
    Ceiling = 3
    IncreaseAfter = 2
    IdleResetMs = 2
    Agents <- MCAgents
    Runs <- MCRuns
    RunOf <- MCRunOf
    Abortable <- MCAgents
    RetryAfters <- LongRetryAfters
INVARIANTS TypeOK CapBounded InFlightCounted QueuesExact WaitersFresh
PROPERTY OneVerdictPerBatch
