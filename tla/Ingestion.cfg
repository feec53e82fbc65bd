CONSTANTS
    Job = {i1}
    Worker = {w1, w2}
    Thread = {t1}
    User = {u1, u2}
    Draft = {x1, x2}
    NoDraft = NoDraft
    NoWorker = NoWorker
    Idle = Idle
    MaxAttempts = 2
    LeaseTime = 2
    BackoffBase = 1
    BackoffCap = 2
    AgeBound = 1
    FaultBound = 1
    ReplayBound = 1
SPECIFICATION FairIngestionSpec
INVARIANTS
    OneRecipe
    ReviewedIsPublished
PROPERTIES
    IngestionSettles
CHECK_DEADLOCK FALSE
