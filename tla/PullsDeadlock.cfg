SPECIFICATION Spec
CONSTANTS
    r1 = r1
    r2 = r2
    ann = ann
    local_user = local_user
    feat = feat
    main = main
    Requests = {r1, r2}
    Users = {ann}
    LocalUser = ann
    Source = feat
    Target = main
    Starts <- MCStarts
    Configs = {"pull_request"}
    MaxPulls = 2
    MaxItems = 1
    MaxSecond = 0
    MaxCommits = 3
PROPERTIES
    ChecksAreSaved
CHECK_DEADLOCK FALSE
