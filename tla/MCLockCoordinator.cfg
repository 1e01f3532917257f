SPECIFICATION Spec
CONSTANTS
    d1 = d1
    d2 = d2
    s1 = s1
    daemon = daemon
    setup = setup
    operation = operation
    sync = sync
    None = None
    Orphan = Orphan
    Worker = {d1, d2, s1}
    Process = {daemon, setup}
    Name = {operation, sync}
    ProcessOf <- MCProcessOf
    Outer <- MCOuter
INVARIANTS
    TypeOK
    MutualExclusion
    RecoverySucceeds
    OnlyFailedReleaseLeaks
PROPERTIES
    LeaseSurvivesRecovery
    ImplementsExclusion
