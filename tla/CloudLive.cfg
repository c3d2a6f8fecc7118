SPECIFICATION FairSpec
CONSTANTS
    c1 = c1
    c2 = c2
    b1 = b1
    x1 = x1
    y1 = y1
    Clones = {c1, c2}
    Cli = {c1}
    Files <- TwoFiles
    Base <- FirstFile
    Backends = {"gcs", "local"}
    MaxAttempts = 3
    MaxCmds = 1
CHECK_DEADLOCK FALSE
PROPERTIES
    EveryCommandEnds
