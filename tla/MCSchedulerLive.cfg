CONSTANTS
    a1 = a1
    a2 = a2
    a3 = a3
    k1 = k1
    k2 = k2
    k3 = k3
    k4 = k4
    Actors <- TwoActors
    Asks <- ThreeAsks
    ActorOf <- TwoActorOf
    Rank <- TwoRank
    Typed = {k3}
    Limits = {1, 2}
    StartLimit = 2
    RepairAttempts = 1
    NudgeAttempts = 1
    NoAsk = NoAsk
SPECIFICATION FairSpec
PROPERTY EveryAskSettles
CHECK_DEADLOCK FALSE
