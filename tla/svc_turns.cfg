CONSTANTS
    Repos = {a, b}
    a = a
    b = b
    c1 = c1
    c2 = c2
    Configs = {c1, c2}
    Broken = Broken
    Missing = Missing
    Every <- NoTime
    NoInterval = NoInterval
    DefaultTick = 1
    MaxAge = 0
    Service = Service
    Manuals = {m}
    Nobody = Nobody
    NoEntry = NoEntry
    Watchers = {"works", "deaf", "polls"}
    OddStamps = TRUE
    MayDie = TRUE
    MaxEvents = 1
    MaxEdits = 2
    MaxPushes = 1
    MaxRuns = 1
    MaxFaults = 1
SPECIFICATION Spec
INVARIANTS
    EditsAreHeard
    NothingLeftUnapplied
PROPERTIES
    SyncsTakeTurns
CHECK_DEADLOCK FALSE
