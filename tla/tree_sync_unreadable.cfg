SPECIFICATION Spec
CONSTANTS
    Path <- MCPath
    Root <- MCRoot
    Below <- MCBelow
    Hidden <- MCHidden
    Chunk <- MCChunk
    SenderTrees <- DirForFile
    ReceiverTrees <- DirForFile
    Unreadable <- AX
    Editable <- NoPath
    Contents <- FewContents
    MaxEdits = 0
    MaxLosses = 0
INVARIANTS NoFileLost
