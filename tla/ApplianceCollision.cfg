\* Two permits of one request in one second.
SPECIFICATION Spec
CONSTANTS
    Clients = {1, 2}
    Protected <- MCProtected
    TicksPerSecond = 2
    LeaseTTLs = {1}
    PermitTTL = 2
    Requests <- Writes
    Registry <- Open
    Edits = {}
    LeaseNames = {}
    MaxClock = 1
    MaxLeases = 0
    MaxCrashes = 0
    MaxAbandons = 0
    MaxEdits = 0
INVARIANTS
    AlreadyUsedMeansUsed
