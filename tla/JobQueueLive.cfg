CONSTANTS
    Job = {j1, j2}
    Worker = {w1, w2}
    Thread = {t1}
    NoWorker = NoWorker
    Idle = Idle
    MaxAttempts = 2
    LeaseTime = 2
    BackoffBase = 1
    BackoffCap = 2
    AgeBound = 1
    FaultBound = 2
    ReplayBound = 1
SPECIFICATION FairSpec
INVARIANTS
    AttemptFenced
PROPERTIES
    EveryJobSettles
CHECK_DEADLOCK FALSE
