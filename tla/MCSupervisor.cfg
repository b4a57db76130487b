SPECIFICATION Spec
CONSTANTS
    r1 = r1
    r2 = r2
    Releases <- MCReleases
    Cores = {1, 2}
    Budget = 1
CONSTRAINT OneSurprise
ACTION_CONSTRAINT EarlyIsLast
INVARIANTS TypeOK OneCoreUnderLock StateTellsCore RunsCurrent CurrentProven
PROPERTY OperationsEnd
