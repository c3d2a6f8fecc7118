SPECIFICATION FairSpec
CONSTANTS
    p1 = p1
    p2 = p2
    home = home
    away = away
    NoOne = NoOne
    Unknown = Unknown
    Root = Root
    Procs = {p1, p2}
    HostName <- OneHost
    Probes <- OneWayProbes
    Merging = {p1, p2}
    Branches = {main}
    Sizes = {1, 2}
    MaxOps = 1
    MaxClock = 0
PROPERTIES
    EveryCommandEnds
    CrashCleanedUp
CHECK_DEADLOCK FALSE
