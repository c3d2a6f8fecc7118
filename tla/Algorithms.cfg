SPECIFICATION Spec
CONSTANTS
    Lines = {"a", "b", "c", "nul"}
    BinaryLines = {"nul"}
    BinaryCheck = 2
    MAX_DIFF_LINES = 7
    MaxLines = 3
    LongTexts <- Long
    BlobTexts <- FileTexts
    Levels <- TreeLevels
    Modes = {"regular", "executable"}
    MaxCommits = 6
    Names = {"lib", "libx", "Lib", "my_lib", "edition"}
    Normal <- Spelling
    Lower <- LowerCase
    Within <- Parts
    MetaKeys = {"edition"}
    Platform = {"edition"}
    Versions <- SomeVersions
    Excluded = {"libx"}
    NoName = ""
    Ignored = {}
    CheckDev = TRUE
    MaxEntries = 2
    BlobIds = {"b1"}
    TreeIds = {"t1", "t2", "t3"}
    CommitIds = {"c1", "c2", "c3"}
    TagIds = {"a1", "a2"}
    EntriesOf <- NestedTrees
    TreeOf <- CommitTrees
    TextOf <- GitTexts
    Branches = {"main", "dev", "long branch"}
    Tags = {"v1", "long tag"}
    LongNames = {"long branch", "long tag"}
    Directories <- GitDirectories
INVARIANTS
    CleanMergeExact
    TextSound
    TreeMergeSound
    BisectSound
    ManifestsSound
    BridgeSound
CHECK_DEADLOCK FALSE
