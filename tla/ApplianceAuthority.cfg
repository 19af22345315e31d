\* Humans approve, also on dry runs, the operator edits the registry, gate and bridge restart.
SPECIFICATION Spec
CONSTANTS
    Clients = {1, 2}
    Protected <- MCProtected
    TicksPerSecond = 1
    LeaseTTLs = {1}
    PermitTTL = 1
    Requests <- Publishes
    Registry <- Open
    Edits <- MCEdits
    LeaseNames <- MCLeaseNames
    MaxClock = 1
    MaxLeases = 2
    MaxCrashes = 1
    MaxAbandons = 0
    MaxEdits = 1
INVARIANTS
    AttemptsFollowPolicy
    OneAttemptPerApproval
    StaleAuthorityBounded
    ReceiptsProveAttempts
