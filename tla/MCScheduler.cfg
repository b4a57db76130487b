CONSTANTS
    a1 = a1
    a2 = a2
    a3 = a3
    k1 = k1
    k2 = k2
    k3 = k3
    k4 = k4
    Actors <- MCActors
    Asks <- MCAsks
    ActorOf <- MCActorOf
    Rank <- MCRank
    Typed = {k3}
    Limits = {1, 2, 3}
    StartLimit = 2
    RepairAttempts = 1
    NudgeAttempts = 1
    NoAsk = NoAsk
SPECIFICATION Spec
INVARIANTS
    TypeOK
    ActiveAsksExact
    NoIdleSlot
    SeatsExact
    SomeoneWorks
    TurnsWithinLimit
    InAdmissionOrder
    JournalTellsOutcome
PROPERTIES
    NoPickPastParked
    QuietAfterSettled
CHECK_DEADLOCK FALSE
