SPECIFICATION Spec
CONSTANTS
    p1 = p1
    p2 = p2
    home = home
    away = away
    NoOne = NoOne
    Unknown = Unknown
    Root = Root
    Procs = {p1, p2}
    HostName <- TwoHosts
    Probes <- AllProbes
    Merging = {p1}
    Branches = {main, topic}
    Sizes = {1, 2}
    MaxOps = 1
    MaxClock = 1
INVARIANTS
    TypeOK
    LossNeedsWindow
    RefsResolve
    ExclusionUnlessBroken
    AckedCommitsKept
PROPERTIES
    SeqGrows
CHECK_DEADLOCK FALSE
