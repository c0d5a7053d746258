CONSTANTS
    Repos = {a, b}
    a = a
    b = b
    c1 = c1
    c2 = c2
    Configs = {c1, c2}
    Broken = Broken
    Missing = Missing
    Every <- Timed
    NoInterval = NoInterval
    DefaultTick = 1
    MaxAge = 2
    Service = Service
    Manuals = {m}
    Nobody = Nobody
    NoEntry = NoEntry
    Watchers = {"works", "polls"}
    OddStamps = FALSE
    MayDie = FALSE
    MaxEvents = 1
    MaxEdits = 1
    MaxPushes = 0
    MaxRuns = 1
    MaxFaults = 1
SPECIFICATION FairSpec
PROPERTIES
    ReloadsInTheEnd
    DueIsSynced
    SignalEndsService
CHECK_DEADLOCK FALSE
