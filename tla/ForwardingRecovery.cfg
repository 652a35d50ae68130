SPECIFICATION FairSpec
CONSTANTS
    Messages = {m1}
    Matching = {}
    Chats = {c1}
    Workers = {w1, w2}
    Listeners = {l1}
    Editors = {}
    NoJob = NoJob
    Nothing = Nothing
    MaxAttempts = 2
    PauseThreshold = 1
    Answers = {"posted", "error", "auth"}
    Budget <- Troubles
CHECK_DEADLOCK FALSE
INVARIANTS
    IInv
    RecordsMatchPosts
PROPERTIES
    QueueDrains
