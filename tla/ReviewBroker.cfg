\* Every call of the broker, with good and with naive timestamps.
SPECIFICATION Spec
CONSTANTS
    LeaseIds = {"l1", "l2"}
    Requests = {"a", "b"}
    GrantLists <- MCGrantLists
    Times = {0, 1, 2}
    MaxEvents = 5
INVARIANTS
    TypeOK
    OneReleasePerLease
    ReleasesMatchApproval
    EventsTellTheStory
PROPERTIES
    NoReleaseOnceCancelled
