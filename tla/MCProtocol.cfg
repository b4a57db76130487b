SPECIFICATION Spec
CONSTANTS
    Sizes = {1, 3}
    HighWater = 1
    LowWater = 0
    BufferMax = 2
    MaxAttempts = 1
    MaxSent <- MCMaxSent
    MaxSockets = 3
    MaxFails = 1
    Loops = {1}
INVARIANTS TypeOK NothingLost NoGap MarksAgree
PROPERTIES ReliableBothWays SaturationEnds
CHECK_DEADLOCK FALSE
