CONSTANTS
    Job = {d1}
    Worker = {w1, w2}
    Thread = {t1}
    NoWorker = NoWorker
    Idle = Idle
    MaxAttempts = 2
    LeaseTime = 2
    StaleTime = 2
    BackoffBase = 1
    BackoffCap = 2
    AgeBound = 1
    FaultBound = 0
    ReplayBound = 0
SPECIFICATION MailSpec
SYMMETRY Symmetry
INVARIANTS
    NoDuplicateMail
CHECK_DEADLOCK FALSE
