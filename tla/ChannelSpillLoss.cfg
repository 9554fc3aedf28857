SPECIFICATION GraphSpec
CONSTANTS
    Tails = {"disk"}
    a1 = a1
    a2 = a2
    b1 = b1
    b2 = b2
    Px1 = {a1, a2}
    Px2 = {b1, b2}
    Pairs <- Crossed
    Photons <- LaggingPhotons
    Tmax = 1
    Grace = 0
    IdleAfter = 0
    Tolerance = 1
    Chunk = 1
INVARIANT LaggingLosesNothing
CHECK_DEADLOCK FALSE
