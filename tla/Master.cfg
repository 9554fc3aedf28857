SPECIFICATION SumSpec
CONSTANTS
    Nodes = {1, 2}
    MaxRuns = 2
    MaxLinks = 1
    Flaky = {}
    PromptAccept = TRUE
    MaxLaunches = 2
    MaxRefresh = 2
    MaxFaults = 2
    MarkerKinds <- TwoKinds
    MaxConns = 2
    MaxBreaks = 1
    MaxChunks = 2
    SparseNodes = {1}
    Chips = {"master", "slave"}
    MaxMonitors = 1
    Threads = {"reader"}
    MaxLogged = 3
    MaxLines = 3
INVARIANTS
    RunControlSound
    LaunchSound
    ReceiverSound
    CalibrationSound
    RunLogSound
PROPERTIES
    OncePerRun
    MasterGoesOn
CHECK_DEADLOCK FALSE
