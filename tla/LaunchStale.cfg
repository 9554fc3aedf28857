SPECIFICATION Spec
CONSTANTS
    MaxLaunches = 2
    MaxRefresh = 0
    MaxFaults = 1
PROPERTY StaleIsNoOp
CHECK_DEADLOCK FALSE
