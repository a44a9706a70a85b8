SPECIFICATION FairSpec
CONSTANTS
    Path <- MCPath
    Root <- MCRoot
    Below <- MCBelow
    Hidden <- MCHidden
    Chunk <- MCChunk
    SenderTrees <- AllSenders
    ReceiverTrees <- AllReceivers
    Unreadable <- NoPath
    Editable <- AandX
    Contents <- MCContents
    MaxEdits = 1
    MaxLosses = 1
INVARIANTS TypeOK Mirror EachPathOldOrNew
PROPERTIES UnchangedUntouched HiddenKept Converges
