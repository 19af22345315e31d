\* A cancellation with a naive timestamp leaves no event.
SPECIFICATION Spec
CONSTANTS
    LeaseIds = {"l1"}
    Requests = {"a"}
    GrantLists <- MCGrantLists
    Times = {0, 1}
    MaxEvents = 3
INVARIANTS
    CancellationsOnRecord
