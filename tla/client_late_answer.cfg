SPECIFICATION Spec
CONSTANTS
    Ids = {i1}
    QueueMax = 1
    MaxConnects = 1
    MaxDisconnects = 0
    StopRounds = 1
    NoId = NoId
INVARIANTS NoHandlerThrows
CHECK_DEADLOCK FALSE
