SPECIFICATION SumSpec
CONSTANTS
    p = p
    m = m
    Pixels = {p}
    Markers = {m}
    QueueMax = 2
    MaxEvents = 4
    master = "master"
    slave = "slave"
    Resets <- FileResets
    FileRows = 2
    MaxRows = 5
    Wrap = 3
    MaxInflight = 2
    SlavePixels = 3
    MasterPixels = 2
    SpecialIds = {5}
    OverflowId = 6
    ResetId = 9
    CountsPerReset = 2
    PsPerCount = 2
    OffsetPs = 100
    Seen <- ThreeEvents
    ROWS = 2
    MaxSessions = 3
    MaxRestarts = 1
    MaxFaults = 2
    MaxRuns = 3
    MaxLinks = 2
INVARIANTS
    StreamSound
    KeyEndAfterEverything
    EpochsTrue
    FilesReadWhole
    RowsTrue
    MeasurementIsOwn
    RunControlSound
PROPERTY WhatStoppedEnds
CHECK_DEADLOCK FALSE
