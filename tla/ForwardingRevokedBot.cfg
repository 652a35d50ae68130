SPECIFICATION FairSpec
CONSTANTS
    Messages = {m1}
    Matching = {}
    Chats = {c1}
    Workers = {w1}
    Listeners = {l1}
    Editors = {}
    NoJob = NoJob
    Nothing = Nothing
    MaxAttempts = 2
    PauseThreshold = 1
    Answers = {"posted"}
    Budget <- OneOutage
CHECK_DEADLOCK FALSE
PROPERTIES
    RetriesEnd
