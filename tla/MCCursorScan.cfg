SPECIFICATION FairSpec
CONSTANTS
    NoCursor = NoCursor
    Asset <- MCAsset
    Album = {1}
    Allowed = {2, 3}
    MaxEvents = 7
INVARIANTS
    TypeOK
PROPERTIES
    FailedAssetsAreRetried
    FullScansAreComplete
    EventuallyBackedUp
