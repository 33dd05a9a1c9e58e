SPECIFICATION FairSpec
CONSTANTS
    Ids = {i1, i2}
    Requests = {r1, r2, r3}
    Threads = {t1, t2}
    Responses = {a}
    NoRequest = NoRequest
    NoResponse = NoResponse
    NoId = NoId
INVARIANTS TypeOK NothingOrphaned OneWaiter SettledOnce OneWinner
PROPERTIES ErasesOnlySettled ContractHolds EveryCallReturns DisconnectionSettles
CHECK_DEADLOCK FALSE
