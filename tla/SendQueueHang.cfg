SPECIFICATION FairSpec
CONSTANTS
    p = p
    m = m
    Pixels = {p}
    Markers = {m}
    QueueMax = 2
    MaxEvents = 3
PROPERTY TeardownNeverHangs
CHECK_DEADLOCK FALSE
