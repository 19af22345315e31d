\* Every call ends, under weak fairness of the services and the clients.
SPECIFICATION FairSpec
CONSTANTS
    Clients = {1, 2}
    Protected <- MCProtected
    TicksPerSecond = 1
    LeaseTTLs = {1}
    PermitTTL = 1
    Requests <- Writes
    Registry <- Open
    Edits = {}
    LeaseNames = {}
    MaxClock = 1
    MaxLeases = 0
    MaxCrashes = 1
    MaxAbandons = 1
    MaxEdits = 0
PROPERTIES
    EveryCallEnds
INVARIANT
    NoCallForgotten
