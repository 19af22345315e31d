\* run_signed with a naive timestamp, where create_receipt never raises.
SPECIFICATION Spec
CONSTANTS
    Protected = {"runtime.gate"}
    Runtimes = {r1}
    Requests <- MCRequests
    Registry <- MCRegistry
    SignedLeases <- MCSignedLeases
    LeaseIds = {"l"}
    MaxCalls = 2
    MaxRaises = 0
INVARIANTS
    ReceiptForEveryAttempt
