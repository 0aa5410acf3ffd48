SPECIFICATION Spec
CONSTANTS
    sensitive = sensitive
    dangerous = dangerous
    None = None
    Workers = {w1, w2}
    Responders = {r1, r2}
    AskCalls = {q1}
    MissingCalls = {}
    ToolCalls = {sensitive, dangerous}
    Risk <- MCRisk
    Configs <- MCConfigs
    MaxPasses = 3
    MaxBatch = 2
    MaxRedelivered = 0
    MaxFaults = 0
INVARIANT
    RunsOnce
CHECK_DEADLOCK FALSE
