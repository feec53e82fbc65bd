CONSTANTS
    Job = {d1}
    Worker = {w1, w2}
    Thread = {t1, t2}
    NoWorker = NoWorker
    Idle = Idle
    MaxAttempts = 2
    LeaseTime = 2
    StaleTime = 2
    BackoffBase = 1
    BackoffCap = 2
    AgeBound = 1
    FaultBound = 1
    ReplayBound = 1
SPECIFICATION FairMailSpec
INVARIANTS
    RetriesDoNotDuplicate
PROPERTIES
    SentIsTrue
    DeliverySettles
CHECK_DEADLOCK FALSE
