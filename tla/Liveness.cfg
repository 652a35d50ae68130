SPECIFICATION Behaviours
CONSTANTS
    Targets = {t1, t2}
    Workers = {w1, w2}
    NoOne = NoOne
    MaxAttempts = 2
    Repeats = FALSE
    Answers = {"posted", "flood"}
    Budgets <- SendThenTrouble
    Conns = {c1, c2}
    Accounts = {phone, bot}
    BotAccounts = {bot}
    Tasks = {u1, u2}
    Loop = loop
    None = None
    MaxConnections = 1
    MaxCommands = 2
    MaxOutages = 1
    MaxRestarts = 1
    Items = {k1, k2}
    Runs = {r1, r2}
    Chats = {g}
    Entities <- MCEntities
    OfBot = FALSE
    GiveUpAfter = 2
    MaxTroubles = 1
    Commands <- MCCommands
    NoItem = none
    Ads = {a1, a2}
    Pickers = {p1}
    Groups = {1, 2}
    Begun <- MCBegun
    NameHandlers = {n1, n2}
    NoAd = noad
    Delays = {1, 3}
    Intervals = {0, 2}
    MinDelay = 1
    MinRepeat = 2
    MaxRepeat = 9
    MaxSpread = 2
    MaxTargets = 2
    MaxTaps = 2
    MaxSyncs = 1
PROPERTIES
    RoundDrains
    LostIsNoticed
    SyncIsTold
    ScheduledAdsStart
CHECK_DEADLOCK FALSE
