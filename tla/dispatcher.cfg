SPECIFICATION MCFairSpec
CONSTANTS
    p1 = p1
    p2 = p2
    Producer <- MCProducer
    Size <- MCSize
    MaxCalls = 2
INVARIANTS TypeOK Conservation NoLostWakeup
PROPERTIES ImplementsLog ProgressArrives ShutdownReturns
