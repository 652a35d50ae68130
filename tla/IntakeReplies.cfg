SPECIFICATION IntakeSpec
CONSTANTS
    Processes = {p1, p2}
    Runs = {r1, r2}
    Consumers = {r1, r2}
    Nobody = Nobody
    NoPerson = NoPerson
    Newest = 2
    Album = {2}
    Persons = {v}
    Cooldowns = {1, 3}
    Retention = 2
    Forever = 3
    From <- OneVisitor
    Budget <- CrashAndFailure
SYMMETRY AnyProcessAnyRun
CHECK_DEADLOCK FALSE
INVARIANTS
    TypeOK
    OneReader
    NothingForgotten
    ReplyTypeOK
    OneAnswerPerWindow
    EntriesMeanAnswers
