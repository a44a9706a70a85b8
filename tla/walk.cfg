SPECIFICATION MCFairSpec
CONSTANTS
    Path <- MCPath
    Root <- MCRoot
    Below <- MCBelow
    Hidden <- MCHidden
    Chunk <- MCChunk
    Boundary <- MCBoundary
    MinSize = 2
    MaxSize = 3
    Visitor = {v1, v2}
    StartTrees <- MCStartTrees
    Unreadable <- MCUnreadable
    Editable <- MCEditable
    Contents <- MCContents
    MaxEdits = 2
INVARIANTS TypeOK ListIsTree ListedWas NothingMissed UpdateRestores
PROPERTIES Returns
