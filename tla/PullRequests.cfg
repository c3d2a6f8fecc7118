SPECIFICATION Spec
CONSTANTS
    r1 = r1
    r2 = r2
    ann = ann
    local_user = local_user
    feat = feat
    main = main
    Requests = {r1, r2}
    Users = {ann, local_user}
    LocalUser = local_user
    Source = feat
    Target = main
    Starts <- MCStarts
    Configs = {"none", "plain", "pull_request"}
    MaxPulls = 2
    MaxItems = 2
    MaxSecond = 1
    MaxCommits = 4
INVARIANTS
    MergesSound
PROPERTIES
    AnswersKept
    EveryPullRequestEnds
CHECK_DEADLOCK FALSE
