SPECIFICATION FairSpec
CONSTANTS
    original = original
    adjusted = adjusted
    readjusted = readjusted
    Foreign = Foreign
    NoFile = NoFile
    Edition = {original, adjusted, readjusted}
    Size <- MCSize
    Metadata <- MCMetadata
    MaxRetries = 1
    MaxFaults = 4
INVARIANTS
    TypeOK
    FormalFileVerified
    PartialsArePure
PROPERTIES
    PlacedBytesAreRecorded
    EndsCompleteOrStuck
