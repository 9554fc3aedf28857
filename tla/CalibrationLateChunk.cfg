SPECIFICATION Spec
CONSTANTS
    Nodes = {1}
    Chips = {"master", "slave"}
    MaxRuns = 2
    MaxChunks = 2
    MaxMonitors = 1
INVARIANT CalibratedOnOwnData
CHECK_DEADLOCK FALSE
