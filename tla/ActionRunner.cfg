SPECIFICATION Spec
CONSTANTS
    Configs <- MCConfigs
    MaxCombos = 4
INVARIANTS
    DependenciesFirst
    UnitsCovered
    FailuresHeeded
PROPERTIES
    RunEnds
CHECK_DEADLOCK FALSE
