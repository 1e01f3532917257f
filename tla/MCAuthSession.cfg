SPECIFICATION FairSpec
CONSTANTS
    None = None
    MaxCommands = 2
    MaxFaults = 2
INVARIANTS
    TypeOK
    OneReminderPerOutage
    SuppressedOnlyAfterDelivery
    AuthenticatingIsTemporary
    AuthenticatedRowIsEarned
PROPERTIES
    SetupIsEffective
