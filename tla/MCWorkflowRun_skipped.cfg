SPECIFICATION Spec
CONSTANTS
    N = 4
    Kind <- TwoCheckpointsKind
    IfTrue <- NoBranch
    IfFalse <- NoBranch
    Permissions = {"auto"}
    Outcomes = {"output"}
    Workers = {w1, w2}
    Deciders = {d1}
    MaxReturns = 1
    MaxFaults = 0
INVARIANT
    CheckpointsGate
\* A run that ended, or waits for a member, has nothing left to do.
CHECK_DEADLOCK FALSE
