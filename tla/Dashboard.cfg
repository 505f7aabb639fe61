\* One page of the dashboard on several tours of its views.
SPECIFICATION BoundedSpec
CONSTANTS
    Metrics <- MCMetrics
    RuleIds = {"r1", "r2", "r3"}
    DefaultRules <- MCDefaultRules
    Comparators = {">", "<="}
    Thresholds = {1, 3}
    EnvDefaults <- MCEnvDefaults
    Tours <- MCTours
    Ranges = {"1m", "5m", "All"}
    AllData = "All"
    GridRange = "5m"
    Accents = {"sky", "rose"}
    Endpoints = {"e1", "e2"}
    First = "cpu"
    HeatmapFirst = {"cpu"}
    YRange <- MCYRange
    Cols = 3
    Buckets = 2
    LowEdges <- MCLowEdges
INVARIANTS
    FiringIsTrue
    RangeAgrees
    CapturesFirstFrame
    ReloadKeeps
    GridIsDensity
    ListSettles
CHECK_DEADLOCK FALSE
