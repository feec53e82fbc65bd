CONSTANTS
    Job = {j1}
    Worker = {w1, w2, w3}
    Thread = {t1, t2}
    NoWorker = NoWorker
    Idle = Idle
    MaxAttempts = 3
    LeaseTime = 2
    BackoffBase = 1
    BackoffCap = 2
    AgeBound = 1
    FaultBound = 2
    ReplayBound = 1
SPECIFICATION Spec
SYMMETRY Symmetry
INVARIANTS
    LeaseShape
    PermitBacked
PROPERTIES
    LeaseRespected
    IsWorkQueue
CHECK_DEADLOCK FALSE
