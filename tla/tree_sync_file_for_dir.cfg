SPECIFICATION Spec
CONSTANTS
    Path <- MCPath
    Root <- MCRoot
    Below <- MCBelow
    Hidden <- MCHidden
    Chunk <- MCChunk
    SenderTrees <- FileForDir
    ReceiverTrees <- DirForFile
    Unreadable <- NoPath
    Editable <- NoPath
    Contents <- FewContents
    MaxEdits = 0
    MaxLosses = 0
INVARIANTS QuietRunSucceeds
