SPECIFICATION Spec
CONSTANTS
    alpha = alpha
    beta = beta
    Repos = {alpha, beta}
    Auths = {1, 2}
    Admins = {1}
    AuthRateLimit = 1
    AuthRateWindow = 2
    TokenDuration = 2
    ChallengeDuration = 1
    MaxPending = 1
    GivenRoles = {"read", "owner"}
    MaxNow = 2
    MaxChallenges = 2
    MaxTokens = 2
    MaxChanges = 2
    Handlers = {1, 2}
    Invalidating = {1}
    TTL = 0
    MaxGens = 2
    MaxTime = 1
    Sched <- Schedules
    MinuteLen = 2
    HourLen = 2
    MaxInstant = 9
    MaxStarts = 2
    Star = Star
    Always = Always
    Malformed = Malformed
    Writers = {1, 2}
    Passphrase <- Passphrases
    Items = {1, 2}
    Limit = 2
    MaxRuns = 2
    Deps = {1, 2}
    MaxEdits = 1
INVARIANTS
    SignInSafe
    ReposSafe
    ScheduleKept
    FilesKept
    ProposalsSafe
PROPERTIES
    SessionsSurvive
CHECK_DEADLOCK FALSE
