SPECIFICATION MCFairSpec
CONSTANTS
    MaxAttempts = 2
    MaxEdits = 3
    MaxTroubles = 1
INVARIANTS TypeOK NothingForgotten OkMeansReceived
PROPERTIES OneShotEnds ChangesArrive ImplementsTrigger
