SPECIFICATION Behaviours
CONSTANTS
    Conns = {c1, c2}
    Accounts = {phone, bot}
    BotAccounts = {bot}
    Tasks = {t1, t2}
    Loop = loop
    None = None
    MaxConnections = 1
    MaxCommands = 3
    MaxOutages = 1
    MaxRestarts = 0
    Items = {k1, k2}
    Runs = {r1, r2}
    Chats = {g}
    Entities <- MCEntities
    OfBot = FALSE
    GiveUpAfter = 2
    MaxTroubles = 2
    Commands <- MCCommands
    NoItem = none
    Ads = {a1, a2}
    Pickers = {p1}
    Groups = {1, 2}
    Begun <- MCBegun
    NameHandlers = {n1, n2}
    NoAd = noad
    Delays = {1, 3}
    Intervals = {0, 2}
    MinDelay = 1
    MinRepeat = 2
    MaxRepeat = 9
    MaxSpread = 2
    MaxTargets = 2
    MaxTaps = 3
    MaxSyncs = 1
    Keys = {e1, e2}
    Drains = {d1, d2}
    MaxSends = 2
    MaxEvents = 2
    MaxMishaps = 2
    People = {o1, o2, q}
    Operators = {o1, o2}
    AccessMode = "request"
    Updates = {u1, u2}
    Nobody = nobody
    MaxUpdates = 3
    Owners = {o1, o2}
    Senders = {s}
    Places = {x, y}
    Lookups = {g1, g2}
    Unset = unset
    MaxDecisions = 2
    MaxRounds = 2
    MaxRefusals = 1
    Requests = {h1, h2}
    Sessions = {s1, s2}
    CommandKeys = {key}
    Bodies = {b1, b2}
    SyncBodies = {b2}
    NoCookie = noCookie
    NoHeader = noHeader
    NoBody = noBody
    MaxRequests = 3
    MaxFailures = 1
    Callers = {j1, j2}
    PacedChats = {chat}
    Overall = overall
    Unit = 2
    ChatCapacity = 2
    OverallCapacity = 4
    ChatRefill = 1
    OverallRefill = 2
    MaxSleep = 2
    MaxTime = 3
    MaxLosses = 1
    JobRows = {1, 2, 3}
    TargetRows = {4, 5}
    FirstOfB = 5
    WorkerProcesses = {w1, w2}
    Concurrency = 2
    JobCeiling = 1
    TargetCeiling = 1
INVARIANTS
    ServicesTypeOK
    ActiveHasCredentials
    OnePerAccount
    CapHolds
    RowsTell
    RunningAdsFit
    AlertOnce
    OperatorRemains
    AskedAndAnsweredOnce
    KeyedOnce
    SignedOutIsOut
    GrantsBounded
    CeilingPerWorker
PROPERTIES
    QueueKept
CHECK_DEADLOCK FALSE
