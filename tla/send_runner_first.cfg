SPECIFICATION MCFairSpec
CONSTANTS
    MaxAttempts = 2
    MaxEdits = 1
    MaxTroubles = 0
PROPERTIES TransfersFirst
