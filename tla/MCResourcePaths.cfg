SPECIFICATION Spec
CONSTANTS
    heic = heic
    plain = plain
    sizes = sizes
    Asset = {heic, plain, sizes}
    AddedAt <- MCAddedAt
    CreatedAt <- MCCreatedAt
    Name <- MCName
    ShortId <- MCShortId
    Stamp <- MCStamp
    Traits <- MCTraits
    Versions <- MCVersions
    Configs <- MCConfigs
    BatchSize = 2
    UserNames <- MCUserNames
    NoFile = NoFile
    Directory = Directory
    Unknown = Unknown
    MaxEvents = 3
INVARIANTS
    TypeOK
    PlacesStayFree
    CleanRunsAreComplete
    PromisesAreKept
    CompleteRunsSettle
PROPERTIES
    DeletedFilesAreOwn
