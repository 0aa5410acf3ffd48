SPECIFICATION Spec
CONSTANTS
    N = 4
    Kind <- BranchKind
    IfTrue <- BranchIfTrue
    IfFalse <- BranchIfFalse
    Permissions = {"approval", "deny"}
    Outcomes = {"output", "error", "raise"}
    Workers = {w1, w2}
    Deciders = {d1}
    MaxReturns = 0
    MaxFaults = 1
INVARIANTS
    ToolConsent
    StepsOnce
\* A run that ended, or waits for a member, has nothing left to do.
CHECK_DEADLOCK FALSE
