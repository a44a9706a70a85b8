SPECIFICATION MCSpec
CONSTANTS
    MaxItems = 2
    Faults = FALSE
INVARIANTS AckIsRead
