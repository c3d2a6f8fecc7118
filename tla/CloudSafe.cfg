SPECIFICATION Spec
CONSTANTS
    c1 = c1
    c2 = c2
    b1 = b1
    x1 = x1
    y1 = y1
    Clones = {c1, c2}
    Cli = {c1, c2}
    Files <- ThreeFiles
    Base <- FirstFile
    Backends = {"gcs", "local"}
    MaxAttempts = 2
    MaxCmds = 2
SYMMETRY Symmetry
INVARIANTS
    ManifestWhole
    SidecarTrusted
PROPERTIES
    PullInstallsPublished
CHECK_DEADLOCK FALSE
