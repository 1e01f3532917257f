SPECIFICATION FairSpec
CONSTANTS
    s1 = s1
    c1 = c1
    c2 = c2
    None = None
    Setup = {s1}
    SyncCommand = {c1}
    Scheduled = FALSE
    MaxCommands = 2
    MaxFaults = 0
PROPERTIES
    SetupIsFollowedByRun
CHECK_DEADLOCK FALSE
