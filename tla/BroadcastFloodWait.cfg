SPECIFICATION Spec
CONSTANTS
    Targets = {t1, t2}
    Workers = {w1, w2}
    NoOne = NoOne
    MaxAttempts = 1
    Repeats = FALSE
    Answers = {"posted", "flood"}
    Budgets <- SendOnly
CHECK_DEADLOCK FALSE
INVARIANTS
    FloodWaitObeyed
