SPECIFICATION FairSpec
CONSTANTS
    s1 = s1
    c1 = c1
    c2 = c2
    None = None
    Setup = {s1}
    SyncCommand = {c1}
    Scheduled = TRUE
    MaxCommands = 3
    MaxFaults = 2
INVARIANTS
    TypeOK
    AcknowledgedWereCovered
    RequestedRunsAreFresh
PROPERTIES
    RequestsAreHandled
