SPECIFICATION SumSpec
CONSTANTS
    MaxEra = 2
    MaxUnits = 2
    Editing = TRUE
    Nodes = {1, 2}
    Referenced <- MarkedChips
    MaxSessions = 2
    MaxMarkers = 2
    None = None
    Unreadable = Unreadable
INVARIANTS
    WindowSound
    TrackersSound
    LevelsTrue
    PoolIsWholeArray
    PairListTrue
    OfflineIsWhole
PROPERTIES
    BatchesLand
    NothingStaysBusy
CHECK_DEADLOCK FALSE
