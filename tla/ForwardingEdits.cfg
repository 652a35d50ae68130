SPECIFICATION Spec
CONSTANTS
    Messages = {m1}
    Matching = {}
    Chats = {c1, c2}
    Workers = {w1, w2}
    Listeners = {l1}
    Editors = {e1, e2}
    NoJob = NoJob
    Nothing = Nothing
    MaxAttempts = 2
    PauseThreshold = 2
    Answers = {"posted", "unclear", "lost", "flood"}
    Budget <- Edits
CHECK_DEADLOCK FALSE
SYMMETRY AnyWorkerAnyChat
INVARIANTS
    TypeOK
    DeliveredOnce
    FitsTheRule
    VersionsTell
