SPECIFICATION FairSpec
CONSTANTS
    MaxEra = 1
    MaxUnits = 2
    Editing = FALSE
PROPERTY SavedDiffsReproduce
CHECK_DEADLOCK FALSE
