CONSTANTS
    b1 = b1
    b2 = b2
    b3 = b3
    Branches <- TwoBranches
    Script <- TwoScript
    Sites = 1
    Hops <- TwoAlike
    MaxLives = 3
    Surprises = {"stop"}
SPECIFICATION Spec
INVARIANT NeverMismatched
CHECK_DEADLOCK FALSE
