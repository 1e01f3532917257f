SPECIFICATION FairSpec
CONSTANTS
    oldest = oldest
    older = older
    newer = newer
    mine = mine
    img = img
    imgX = imgX
    imgX2 = imgX2
    imgX3 = imgX3
    NoFile = NoFile
    NoRow = NoRow
    NoPath = NoPath
    NoAsset = NoAsset
    Asset = {oldest, older, newer}
    AddedAt <- MCAddedAt
    UserContent = {mine}
    SizeOf <- MCSizeOf
    Path = {img, imgX, imgX2, imgX3}
    Base <- MCBase
    Conflict <- MCConflict
    MaxEvents = 5
INVARIANTS
    TypeOK
    FreshDownloadsOverwriteNothing
PROPERTIES
    DeletionIsExact
    EventuallyBackedUp
    EventuallyCleaned
