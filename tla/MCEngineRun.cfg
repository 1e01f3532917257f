SPECIFICATION Spec
CONSTANTS
    root = root
    shared = shared
    old = old
    mid = mid
    new = new
    jpeg = jpeg
    NoCursor = NoCursor
    Library = {root, shared}
    Root = root
    Asset = {old, mid, new}
    LibraryOf <- MCLibraryOf
    AddedAt <- MCAddedAt
    BatchSize = 1
    File = {old, mid, new, jpeg}
    JpegOf <- MCJpegOf
    Block = {1, 2, 3, 4, 5}
    Blocks <- MCBlocks
    Known = {old, new}
    Capacity = 4
    Minimum = 1
    MaxEvents = 3
INVARIANTS
    TypeOK
    LeftOutAssetsAreBackedUp
    RunRowsAreTrue
    MinimumSpaceIsKept
