SPECIFICATION GraphSpec
CONSTANTS
    Tails = {"ram", "disk"}
    a1 = a1
    a2 = a2
    b1 = b1
    b2 = b2
    Px1 = {a1, a2}
    Px2 = {b1, b2}
    Pairs <- Crossed
    Tmax = 1
    Grace = 1
    IdleAfter = 0
    Tolerance = 1
    Chunk = 1
    Photons <- CrossedPhotons
INVARIANTS TypeOK CountedOnce NothingLostSilently SafeToForget WouldReleaseExact
    SpillTypeOK Conserved NothingLostInOrder
PROPERTIES Implements RamCapped
CHECK_DEADLOCK FALSE
