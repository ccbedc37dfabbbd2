SPECIFICATION FairSpec
CONSTANTS
    Nobody = Nobody
    j1 = j1
    w1 = w1
    w2 = w2
    operator1 = operator1
    Jobs = {j1}
    Workers = {w1, w2}
    Mortal = {w1}
    Operators = {operator1}
    MaxAttempts = 2
    MaxRequests = 1
INVARIANTS
    TypeOK
    RecoverableUntilRequeued
    HolderIsOnRecord
    LiveHolderIsExecuting
PROPERTY JobsSettle
CHECK_DEADLOCK FALSE
