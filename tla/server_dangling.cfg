SPECIFICATION Spec
CONSTANTS
    Addresses = {a1}
    MaxConnections = 1
    MaxRequests = 1
    QueueMax = 1
INVARIANTS NoDanglingHandler
CHECK_DEADLOCK FALSE
