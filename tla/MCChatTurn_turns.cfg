SPECIFICATION LiveSpec
CONSTANTS
    sensitive = sensitive
    dangerous = dangerous
    None = None
    Turns = {t1, t2}
    MissingCalls = {}
    ToolCalls = {sensitive, dangerous}
    Risk <- MCRisk
    Configs <- MCConfigs
    MaxPasses = 2
    MaxBatch = 2
    MaxTurns = 3
    MaxBreaks = 1
INVARIANTS
    ResolvedOnce
PROPERTIES
    HistoryIsWhole
    GateSpec
    TurnEnds
\* A conversation may rest for good.
CHECK_DEADLOCK FALSE
