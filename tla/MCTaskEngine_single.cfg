SPECIFICATION LiveSpec
CONSTANTS
    sensitive = sensitive
    dangerous = dangerous
    None = None
    Workers = {w1, w2}
    Responders = {r1}
    AskCalls = {q1}
    MissingCalls = {m1}
    ToolCalls = {sensitive, dangerous}
    Risk <- MCRisk
    Configs <- MCConfigs
    MaxPasses = 3
    MaxBatch = 2
    MaxRedelivered = 1
    MaxFaults = 1
INVARIANTS
    SingleExecutor
    ConsentedExecution
    AnswerableQuestion
PROPERTIES
    GateSpec
    Settles
CHECK_DEADLOCK FALSE
