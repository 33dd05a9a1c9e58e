SPECIFICATION FairSpec
CONSTANTS
    Addresses = {a1, a2}
    MaxConnections = 2
    MaxRequests = 2
    QueueMax = 1
INVARIANTS WritesNeverIdle RequestsConserved
PROPERTIES DeadConnectionsGo EveryClientTaken EveryRequestAnswered
CHECK_DEADLOCK FALSE
