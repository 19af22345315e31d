\* Threads of a bridge, a verifier that is started twice, a stranger on its socket, the receipt log.
SPECIFICATION Spec
CONSTANTS
    Callers = {"c1", "c2"}
    Strangers = {"s"}
    MaxInstances = 2
    Backlog = 1
    Submissions <- MCSubmissions
    MaxFaults = 1
INVARIANTS
    TypeOK
    FindNeverStale
    ReadableUntilFault
PROPERTIES
    EveryCallReturns
    LoopResumes
