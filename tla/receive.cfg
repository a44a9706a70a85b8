SPECIFICATION MCFairSpec
CONSTANTS
    Path <- MCPath
    Root <- MCRoot
    Below <- MCBelow
    Hidden <- MCHidden
    Chunk <- MCChunk
    Session = {s1, s2}
    SenderTrees <- MCSenderTrees
    ReceiverTrees <- MCReceiverTrees
    MaxStarts = 2
INVARIANTS TypeOK
PROPERTIES MirrorAlone SeenEqualKept TicketKept PatchedEnds
