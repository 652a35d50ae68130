SPECIFICATION FairIntake
CONSTANTS
    Processes = {p1, p2}
    Runs = {r1, r2}
    Consumers = {r1, r2}
    Nobody = Nobody
    NoPerson = NoPerson
    Newest = 1
    Album = {1}
    Persons = {}
    Cooldowns = {1, 2}
    Retention = 2
    Forever = 2
    From <- Posts
    Budget <- Troubles
CHECK_DEADLOCK FALSE
PROPERTIES
    UpdatesGetThrough
