SPECIFICATION FairSpec
CONSTANTS
    Ids = {i1, i2}
    QueueMax = 1
    MaxConnects = 1
    MaxDisconnects = 1
    StopRounds = 2
    NoId = NoId
PROPERTIES ShutdownEnds LossIsReported QueueDrains
CHECK_DEADLOCK FALSE
