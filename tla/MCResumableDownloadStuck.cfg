SPECIFICATION FairSpec
CONSTANTS
    original = original
    adjusted = adjusted
    readjusted = readjusted
    Foreign = Foreign
    NoFile = NoFile
    Edition = {original, adjusted, readjusted}
    Size <- MCSize
    Metadata = {{"size"}}
    MaxRetries = 1
    MaxFaults = 1
PROPERTIES
    EventuallyComplete
