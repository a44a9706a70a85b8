SPECIFICATION MCSpec
CONSTANTS
    Path <- MCPath
    Root <- MCRoot
    Below <- MCBelow
    Hidden <- MCHidden
    Chunk <- MCChunk
    Session = {s1, s2}
    SenderTrees <- OneSender
    ReceiverTrees <- OneReceiver
    MaxStarts = 1
INVARIANTS OkMeansMirror
