SPECIFICATION Spec
CONSTANTS
    Ids = {i1, i2}
    QueueMax = 1
    MaxConnects = 2
    MaxDisconnects = 1
    StopRounds = 2
    NoId = NoId
INVARIANTS OpsCounted OneAtATime FramesConserved NothingAfterDestruction
CHECK_DEADLOCK FALSE
