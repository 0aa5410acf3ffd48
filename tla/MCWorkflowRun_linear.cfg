SPECIFICATION LiveSpec
CONSTANTS
    N = 4
    Kind <- TwoCheckpointsKind
    IfTrue <- NoBranch
    IfFalse <- NoBranch
    Permissions = {"auto", "deny"}
    Outcomes = {"output", "error"}
    Workers = {w1}
    Deciders = {d1}
    MaxReturns = 2
    MaxFaults = 0
INVARIANTS
    CheckpointsGate
PROPERTY
    RunSettles
\* A run that ended, or waits for a member, has nothing left to do.
CHECK_DEADLOCK FALSE
