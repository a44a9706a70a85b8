SPECIFICATION MCFairSpec
CONSTANTS
    Base = 2
    HeaderSize = 2
    Message <- MCMessage
    MaxMessages = 3
    Capacity = 3
INVARIANTS TypeOK GarbledOnlyByLength
PROPERTIES ImplementsStream Arrives
