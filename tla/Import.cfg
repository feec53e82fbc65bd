CONSTANTS
    Rows = 3
    RecipeId = {a, b}
    NoId = NoId
    BatchSize = 2
    Limit = {1, 2}
    Unlimited = Unlimited
    ExceptionBound = 1
    CrashBound = 1
SPECIFICATION FairSpec
INVARIANTS
    FirstRowWins
    CheckpointCovers
PROPERTIES
    ImportCompletes
CHECK_DEADLOCK FALSE
