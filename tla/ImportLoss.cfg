CONSTANTS
    Rows = 3
    RecipeId = {a, b}
    NoId = NoId
    BatchSize = 2
    Limit = {}
    Unlimited = Unlimited
    ExceptionBound = 1
    CrashBound = 0
SPECIFICATION Spec
INVARIANTS
    NothingIsLost
CHECK_DEADLOCK FALSE
