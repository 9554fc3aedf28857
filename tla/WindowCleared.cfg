SPECIFICATION Spec
CONSTANTS
    MaxEra = 2
    MaxUnits = 2
    Editing = FALSE
INVARIANT ClearedStaysCleared
CHECK_DEADLOCK FALSE
