SPECIFICATION Spec
CONSTANTS
    Targets = {t1, t2}
    Workers = {w1, w2}
    NoOne = NoOne
    MaxAttempts = 1
    Repeats = TRUE
    Answers = {"posted", "unclear", "flood", "auth"}
    Budgets <- OneTroubleEach
SYMMETRY AnyWorkerAnyTarget
CHECK_DEADLOCK FALSE
INVARIANTS
    TypeOK
    PostedOnce
    RecordsMatchPosts
    IInv
    SettledOnce
