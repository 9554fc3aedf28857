SPECIFICATION Spec
CONSTANTS
    MaxEra = 2
    MaxUnits = 2
    Editing = TRUE
INVARIANT MidEditRetries
CHECK_DEADLOCK FALSE
