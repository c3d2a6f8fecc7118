SPECIFICATION ApiSpec
CONSTANTS
    w1 = w1
    w2 = w2
    r1 = r1
    home = home
    NoOne = NoOne
    Unknown = Unknown
    Root = Root
    Procs = {w1, w2, r1}
    Writers = {w1, w2}
    Disconnects = {w1}
    HostName <- OneHost
    Probes <- AllProbes
    Merging = {}
    Branches = {main, topic}
    Sizes = {1}
    MaxOps = 1
    MaxClock = 0
INVARIANTS
    ApiGuarded
PROPERTIES
    ApiSerializable
CHECK_DEADLOCK FALSE
