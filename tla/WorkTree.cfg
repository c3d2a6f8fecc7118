SPECIFICATION Spec
CONSTANTS
    p = p
    i = i
    a = a
    b = b
    dev = dev
    Main = main
    Empty = empty
    Marked = marked
    NoFile = nofile
    Path = {p, i}
    Ignored = {i}
    Text = {a, b}
    Branch = {main, dev}
    Tag = {t1}
    Start <- MCStart
    MaxReflog = 6
    MaxCommits = 6
    MaxStash = 1
    MaxNotes = 1
    MaxSteps = 4
    MaxFaults = 1
INVARIANTS
    NothingLost
    IndexExplained
PROPERTIES
    DirectorySafe
    MergeRemembered
CHECK_DEADLOCK FALSE
