CONSTANTS
    Line = {l1, l2}
    Member = {m1, m2}
    Guest = {g1}
    EditBound = 1
    ToggleBound = 2
    RefreshBound = 1
    Caller = {c1, c2}
    Request <- MCRequest
    MaxInFlight = 1
    StopBound = 1
    IndexName = {"a", "b", "c"}
    IndexShape = {"S", "T", "U"}
    Managed <- MCManaged
    NoIndex = NoIndex
    SyncBound = 2
    Meal = {x1, x2, x3}
    SourceMeal = {x1}
    PlanTab = {p1, p2}
    OwnerTab = {p1}
    PlanServings = {1, 2}
    RequestBound = 3
    ListBound = 1
    EditionBound = 1
    Book <- MCBook
    MealBound = 2
    Publisher = {r1, r2}
    NoRecipe = NoRecipe
    AttemptBound = 2
    MailId = {s1}
    Copy = {k1, k2}
    MailLimit = 1
    TryLimit = 3
    Person = {u1, u2}
    Invite = {i1, i2}
    InviteTab = {t1, t2}
    InviteLimit = 1
    TabBound = 3
    NoHouse = NoHouse
    ClockBound = 3
    CountBound = 2
    KeyCaller = {q1}
    Never = Never
    FileRow <- MCFileRow
    FileLength = 3
    ImportBatch = 2
    ImportLimit = {0, 1}
    ImportFaults = 1
    DishTable <- MCDishTable
    LocaleOrders <- MCLocaleOrders
    Wish <- MCWish
    PageLimit = 2
    ChangeBound = 1
    NoSearch = NoSearch
    Checklist = {w1, w2}
    Share = {h1, h2}
    NoShare = NoShare
    ItemBound = 1
    Followed = {"preferences", "household", "plan", "shares", "searches"}
    Change = {e1}
    ReadId = {d1, d2}
    NoRead = NoRead
    VisitBound = 3
SPECIFICATION ApplicationSpec
INVARIANTS
    AnswersAreTrue
    NothingLeaks
    SyncedIsManaged
    RestingListIsCurrent
    
    OneRecipeUnlessReopened
    StatusIsBacked
    RepeatsFollowFailures
    MembershipsAreEarned
    AccessRunsOut
    CheckpointIsDurable
    
    
PROPERTIES
    RefreshKeepsMarks
    NoOlderPlan
    GoodIndexesStay
    MealsAreKept
    MarksComeFromTheList
    SettledInvitesStay
    GuestsStayInside
CHECK_DEADLOCK FALSE
