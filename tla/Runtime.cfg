\* Two runtimes share a broker and a replay ledger; calls of run and run_signed in any order.
SPECIFICATION Spec
CONSTANTS
    Protected = {"runtime.gate"}
    Runtimes = {r1, r2}
    Requests <- MCRequests
    Registry <- MCRegistry
    SignedLeases <- MCSignedLeases
    LeaseIds = {"l"}
    MaxCalls = 3
    MaxRaises = 1
SYMMETRY Symmetry
INVARIANTS
    TypeOK
    ApprovalsExecuteOnce
    ExecutionsFollowPolicy
    ExecutionsOnChainOrRaised
    SignedChainFollowsPlain
