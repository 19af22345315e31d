\* Any envelope, any request, any clock, any number of times.
SPECIFICATION Spec
CONSTANTS
    Clients = {c1, c2}
    Requests <- MCRequests
    Permits <- MCPermits
    Times = {0, 1, 2}
INVARIANTS
    TypeOK
    OneAttemptPerPermit
    AttemptsWerePermitted
