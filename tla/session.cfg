SPECIFICATION MCFairSpec
CONSTANTS
    MaxItems = 3
    Faults = TRUE
INVARIANTS TypeOK SenderOk OneInFlight OneVerdict Agreement
PROPERTIES ImplementsContract Terminates
