\* Two submissions of one allowed request; processes crash and clients give up anywhere.
SPECIFICATION Spec
CONSTANTS
    Clients = {1, 2}
    Protected <- MCProtected
    TicksPerSecond = 1
    LeaseTTLs = {1}
    PermitTTL = 2
    Requests <- Writes
    Registry <- Open
    Edits = {}
    LeaseNames = {}
    MaxClock = 2
    MaxLeases = 0
    MaxCrashes = 2
    MaxAbandons = 1
    MaxEdits = 0
INVARIANTS
    TypeOK
    VerifiedMeansExecutedOnce
    DeliveredReceiptsChained
PROPERTIES
    ImplementsGovernedExecution
