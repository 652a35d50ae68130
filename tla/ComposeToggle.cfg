SPECIFICATION ComposeSpec
CONSTANTS
    Ads = {a1, a2}
    Pickers = {p1, p2}
    Groups = {1, 2}
    Begun <- MCBegun
    NameHandlers = {n1}
    NoAd = noad
    Delays = {1}
    Intervals = {0}
    MinDelay = 1
    MinRepeat = 2
    MaxRepeat = 9
    MaxSpread = 2
    MaxTargets = 2
    MaxTaps = 4
    MaxSyncs = 1
INVARIANTS
    ToggleMeansShown
CHECK_DEADLOCK FALSE
