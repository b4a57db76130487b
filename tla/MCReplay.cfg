CONSTANTS
    b1 = b1
    b2 = b2
    b3 = b3
    Branches <- MCBranches
    Script <- MCScript
    Sites = 2
    Hops <- Alike
    MaxLives = 3
    Surprises = {"stop"}
SPECIFICATION FairSpec
INVARIANTS
    TypeOK
    ReplayFaithful
    CallsFollowSettles
PROPERTIES
    JournalOnlyGrows
    GateNeverSticks
CHECK_DEADLOCK FALSE
